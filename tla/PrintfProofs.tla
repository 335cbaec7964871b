----------------------------- MODULE PrintfProofs -----------------------------
(***************************************************************************)
(* Proofs about Printf, for every format, all arguments and every width of *)
(* the types: what fprintf returns is what it has printed, whatever the    *)
(* callback refuses, a buffer ends with its only terminator, and a number  *)
(* that is printed reads as the number again.                              *)
(*                                                                         *)
(* The digits of a number come from a recursive function.  That there is   *)
(* one is proved here without an induction theorem: its values up to a     *)
(* number are put together one after the other, and a least number for     *)
(* which there are none cannot exist.  What a numeral stands for is a loop *)
(* over its digits, whose values are taken from RecursionLemmas.           *)
(***************************************************************************)
EXTENDS Printf, RecursionLemmas, FiniteSetTheorems, SequenceTheorems

-----------------------------------------------------------------------------
(* Numerals *)

\* The last digit of a number, and the number that the others are.
LEMMA LastDigit ==
  ASSUME NEW n \in Nat, NEW b \in {10, 16}
  PROVE  /\ n % b \in 0 .. b - 1
         /\ n >= b => n \div b \in 0 .. n - 1
<1>1. CASE b = 10
  BY <1>1
<1>2. CASE b = 16
  BY <1>2
<1>. QED  BY <1>1, <1>2

\* The value at n of a function that is g below n: the digit, or the digits
\* of the other number and the last digit.
Value_at(g, n, b, one, more) == IF n < b THEN one[n] ELSE more[<<g[n \div b], n % b>>]

Solves(f, b, one, more) == f = [n \in Nat |-> Value_at(f, n, b, one, more)]

\* Function g is the one defined so, up to k.
UpTo(g, k, b, one, more, S) ==
  g \in [0 .. k -> S] /\ \A n \in 0 .. k : g[n] = Value_at(g, n, b, one, more)

\* Two functions defined so agree as far as both go.
LEMMA UpToAgree ==
  ASSUME NEW b \in {10, 16}, NEW S, NEW one, NEW more, NEW k \in Nat, NEW m \in Nat,
         NEW g, UpTo(g, k, b, one, more, S), NEW h, UpTo(h, m, b, one, more, S),
         NEW n \in Nat, n <= k, n <= m
  PROVE  g[n] = h[n]
<1>. DEFINE Differ == {i \in Nat : i <= k /\ i <= m /\ g[i] # h[i]}
<1>1. CASE Differ = {}
  BY <1>1
<1>2. CASE Differ # {}
  <2>1. PICK i \in Differ : \A j \in Differ : i <= j
    BY <1>2, Least
  <2>2. /\ g[i] = Value_at(g, i, b, one, more) /\ h[i] = Value_at(h, i, b, one, more)
        /\ i \in Nat /\ g[i] # h[i]
    BY DEF UpTo
  <2>3. CASE i < b
    BY <2>2, <2>3 DEF Value_at
  <2>4. CASE i >= b
    <3>1. PICK j \in 0 .. i - 1 : j = i \div b
      BY <2>2, <2>4, LastDigit
    <3>2. j \notin Differ
      BY <2>1, <2>2, <3>1
    <3>3. g[i \div b] = h[i \div b]
      BY <3>1, <3>2
    <3>. QED  BY <2>2, <2>4, <3>3 DEF Value_at
  <2>. QED  BY <2>2, <2>3, <2>4
<1>. QED  BY <1>1, <1>2

\* There is a function defined so up to every number.
LEMMA UpToExists ==
  ASSUME NEW b \in {10, 16}, NEW S, NEW one \in [0 .. b - 1 -> S],
         NEW more \in [S \X (0 .. b - 1) -> S], NEW k \in Nat
  PROVE  \E g : UpTo(g, k, b, one, more, S)
<1>. DEFINE None == {i \in Nat : ~\E g : UpTo(g, i, b, one, more, S)}
<1>1. CASE None = {}
  BY <1>1
<1>2. CASE None # {}
  <2>1. PICK i \in None : \A j \in None : i <= j
    BY <1>2, Least
  <2>2. CASE i = 0
    <3>1. PICK g : g = [n \in 0 .. 0 |-> one[0]]
      OBVIOUS
    <3>2. UpTo(g, 0, b, one, more, S)
      BY <3>1 DEF UpTo, Value_at
    <3>. QED  BY <2>2, <3>2
  <2>3. CASE i > 0
    <3>1. i - 1 \in Nat /\ i - 1 \notin None /\ i \in Nat
      <4>1. i \in Nat
        OBVIOUS
      <4>2. i - 1 \in Nat /\ ~(i <= i - 1)
        BY <2>3, <4>1
      <4>. QED  BY <2>1, <4>1, <4>2
    <3>2. PICK g : UpTo(g, i - 1, b, one, more, S)
      BY <3>1
    <3>3. PICK v : v = Value_at(g, i, b, one, more)
      OBVIOUS
    <3>4. v \in S
      <4>1. CASE i < b
        BY <3>1, <3>3, <4>1 DEF Value_at
      <4>2. CASE i >= b
        <5>1. i \div b \in 0 .. i - 1 /\ i % b \in 0 .. b - 1
          BY <3>1, <4>2, LastDigit
        <5>2. <<g[i \div b], i % b>> \in S \X (0 .. b - 1)
          BY <3>2, <5>1 DEF UpTo
        <5>3. v = more[<<g[i \div b], i % b>>]
          BY <3>1, <3>3, <4>2 DEF Value_at
        <5>. QED  BY <5>2, <5>3
      <4>. QED  BY <3>1, <4>1, <4>2
    <3>5. PICK h : h = [n \in 0 .. i |-> IF n = i THEN v ELSE g[n]]
      OBVIOUS
    <3>6. h \in [0 .. i -> S]
      BY <3>1, <3>2, <3>4, <3>5 DEF UpTo
    <3>7. ASSUME NEW n \in 0 .. i
          PROVE  h[n] = Value_at(h, n, b, one, more)
      <4>1. h[n] = Value_at(g, n, b, one, more)
        BY <3>1, <3>2, <3>3, <3>5 DEF UpTo
      <4>2. CASE n < b
        BY <4>1, <4>2 DEF Value_at
      <4>3. CASE n >= b
        <5>1. PICK j \in 0 .. n - 1 : j = n \div b
          <6>1. n \in Nat
            BY <3>1
          <6>. QED  BY <4>3, <6>1, LastDigit
        <5>2. h[j] = g[j]
          BY <3>1, <3>5, <5>1
        <5>. QED  BY <4>1, <4>3, <5>1, <5>2 DEF Value_at
      <4>. QED  BY <4>2, <4>3
    <3>8. UpTo(h, i, b, one, more, S)
      BY <3>6, <3>7 DEF UpTo
    <3>. QED  BY <3>8
  <2>. QED  BY <2>2, <2>3
<1>. QED  BY <1>1, <1>2

\* So there is one for all numbers.
LEMMA Recursion ==
  ASSUME NEW b \in {10, 16}, NEW S, NEW one \in [0 .. b - 1 -> S],
         NEW more \in [S \X (0 .. b - 1) -> S]
  PROVE  \E f \in [Nat -> S] : Solves(f, b, one, more)
<1>. DEFINE G(k) == CHOOSE g : UpTo(g, k, b, one, more, S)
<1>1. \A k \in Nat : UpTo(G(k), k, b, one, more, S)
  BY UpToExists
<1>. HIDE DEF G
<1>2. PICK f : f = [n \in Nat |-> G(n)[n]]
  OBVIOUS
<1>3. f \in [Nat -> S]
  BY <1>1, <1>2 DEF UpTo
<1>4. ASSUME NEW n \in Nat
      PROVE  f[n] = Value_at(f, n, b, one, more)
  <2>1. f[n] = Value_at(G(n), n, b, one, more)
    BY <1>1, <1>2 DEF UpTo
  <2>2. CASE n < b
    BY <2>1, <2>2 DEF Value_at
  <2>3. CASE n >= b
    <3>1. PICK j \in 0 .. n - 1 : j = n \div b
      BY <2>3, LastDigit
    <3>2. G(j)[j] = G(n)[j]
      <4>1. j \in Nat /\ j <= j /\ j <= n
        BY <3>1
      <4>2. UpTo(G(j), j, b, one, more, S) /\ UpTo(G(n), n, b, one, more, S)
        BY <1>1, <4>1
      <4>. QED  BY <4>1, <4>2, UpToAgree
    <3>3. f[j] = G(n)[j]
      BY <1>2, <3>1, <3>2
    <3>. QED  BY <2>1, <2>3, <3>1, <3>3 DEF Value_at
  <2>. QED  BY <2>2, <2>3
<1>. QED  BY <1>2, <1>3, <1>4 DEF Solves

\* Both alphabets of digits are characters.
LEMMA Digits ==
  ASSUME NEW i \in 0 .. 15
  PROVE  digits[i + 1] \in Symbol /\ digits_uc[i + 1] \in Symbol
<1>1. PICK j \in 1 .. 16 : j = i + 1
  OBVIOUS
<1>2. digits[j] \in DigitSymbols
  BY DEF digits, DigitSymbols
<1>3. digits_uc[j] \in DigitSymbols
  BY DEF digits_uc, DigitSymbols
<1>. QED  BY <1>1, <1>2, <1>3, SymbolAssumption

Numerals == Seq(Symbol) \ {<<>>}

\* A numeral and a digit behind it are a numeral.
LEMMA Longer ==
  ASSUME NEW s \in Numerals, NEW c \in Symbol
  PROVE  <<c>> \in Numerals /\ Append(s, c) \in Numerals
<1>1. <<c>> \in Seq(Symbol) /\ Len(<<c>>) = 1
  OBVIOUS
<1>2. Append(s, c) \in Seq(Symbol) /\ Len(Append(s, c)) = Len(s) + 1 /\ Len(s) \in Nat
  BY DEF Numerals
<1>3. Append(s, c) # <<>>
  BY <1>2
<1>. QED  BY <1>1, <1>2, <1>3 DEF Numerals

\* The digits of a number, from the last one on.
Digits_of(g, base, digit) ==
  g = [n \in Nat |-> IF n < base THEN <<digit[n]>>
                     ELSE Append(g[n \div base], digit[n % base])]

\* There is such a function, and its values are numerals.
LEMMA DigitsExist ==
  ASSUME NEW base \in {10, 16}, NEW digit \in [0 .. base - 1 -> Symbol]
  PROVE  \E g : Digits_of(g, base, digit)
<1>. DEFINE one == [n \in 0 .. base - 1 |-> <<digit[n]>>]
            more == [p \in Numerals \X (0 .. base - 1) |-> Append(p[1], digit[p[2]])]
<1>1. one \in [0 .. base - 1 -> Numerals]
  BY Longer DEF Numerals
<1>2. more \in [Numerals \X (0 .. base - 1) -> Numerals]
  BY Longer
<1>3. /\ \A n \in 0 .. base - 1 : one[n] = <<digit[n]>>
      /\ \A s \in Numerals, n \in 0 .. base - 1 : more[<<s, n>>] = Append(s, digit[n])
  OBVIOUS
<1>. HIDE DEF one, more
<1>4. PICK f \in [Nat -> Numerals] : f = [n \in Nat |-> Value_at(f, n, base, one, more)]
  <2>1. PICK S, o, m : S = Numerals /\ o = one /\ m = more
    OBVIOUS
  <2>2. o \in [0 .. base - 1 -> S] /\ m \in [S \X (0 .. base - 1) -> S]
    BY <1>1, <1>2, <2>1
  <2>3. \E f \in [Nat -> S] : Solves(f, base, o, m)
    BY <2>2, Recursion
  <2>. QED  BY <2>1, <2>3 DEF Solves
<1>5. ASSUME NEW n \in Nat
      PROVE  f[n] = IF n < base THEN <<digit[n]>> ELSE Append(f[n \div base], digit[n % base])
  <2>1. f[n] = Value_at(f, n, base, one, more)
    BY <1>4
  <2>2. CASE n < base
    <3>1. n \in 0 .. base - 1
      BY <2>2
    <3>. QED  BY <1>3, <2>1, <2>2, <3>1 DEF Value_at
  <2>3. CASE n >= base
    <3>1. PICK j \in 0 .. n - 1, d \in 0 .. base - 1 : j = n \div base /\ d = n % base
      BY <2>3, LastDigit
    <3>2. ~(n < base)
      BY <2>3
    <3>3. f[j] \in Numerals
      BY <1>4, <3>1
    <3>4. f[n] = more[<<f[j], d>>]
      BY <2>1, <3>1, <3>2 DEF Value_at
    <3>. QED  BY <1>3, <3>1, <3>2, <3>3, <3>4
  <2>. QED  BY <2>2, <2>3
<1>. QED  BY <1>4, <1>5 DEF Digits_of

\* The values of every such function are numerals.
LEMMA DigitsType ==
  ASSUME NEW base \in {10, 16}, NEW digit \in [0 .. base - 1 -> Symbol], NEW g,
         Digits_of(g, base, digit)
  PROVE  \A n \in Nat : g[n] \in Numerals
<1>. DEFINE Wrong == {n \in Nat : g[n] \notin Numerals}
<1>1. CASE Wrong = {}
  BY <1>1
<1>2. CASE Wrong # {}
  <2>1. PICK n \in Wrong : \A m \in Wrong : n <= m
    BY <1>2, Least
  <2>2. /\ n \in Nat /\ g[n] \notin Numerals
        /\ g[n] = IF n < base THEN <<digit[n]>> ELSE Append(g[n \div base], digit[n % base])
    BY DEF Digits_of
  <2>3. CASE n < base
    <3>1. n \in 0 .. base - 1
      BY <2>2, <2>3
    <3>. QED  BY <2>2, <2>3, <3>1, Longer DEF Numerals
  <2>4. CASE n >= base
    <3>1. PICK j \in 0 .. n - 1, d \in 0 .. base - 1 : j = n \div base /\ d = n % base
      BY <2>2, <2>4, LastDigit
    <3>2. g[j] \in Numerals
      BY <2>1, <2>2, <3>1
    <3>3. g[n] = Append(g[j], digit[d])
      BY <2>2, <2>4, <3>1
    <3>. QED  BY <2>2, <3>2, <3>3, Longer
  <2>. QED  BY <2>2, <2>3, <2>4
<1>. QED  BY <1>1, <1>2

\* What ull_to_base makes of a number is a numeral.
LEMMA NumeralType ==
  ASSUME NEW value \in Nat, NEW base \in {10, 16}, NEW uppercase \in BOOLEAN
  PROVE  ull_to_base(value, base, uppercase) \in Numerals
<1>. DEFINE Digit(n) == IF uppercase THEN digits_uc[n + 1] ELSE digits[n + 1]
            digit == [n \in 0 .. base - 1 |-> Digit(n)]
            Equation(g) == g = [n \in Nat |-> IF n < base THEN <<Digit(n)>>
                                   ELSE Append(g[n \div base], Digit(n % base))]
            numeral == CHOOSE g : Equation(g)
<1>1. digit \in [0 .. base - 1 -> Symbol]
  BY Digits
<1>2. ASSUME NEW g
      PROVE  Equation(g) <=> Digits_of(g, base, digit)
  <2>1. ASSUME NEW n \in Nat
        PROVE  digit[n % base] = Digit(n % base) /\ (n < base => digit[n] = Digit(n))
    <3>1. \A i \in 0 .. base - 1 : digit[i] = Digit(i)
      OBVIOUS
    <3>2. n % base \in 0 .. base - 1 /\ (n < base => n \in 0 .. base - 1)
      BY LastDigit
    <3>. QED  BY <3>1, <3>2
  <2>. HIDE DEF digit, Digit
  <2>2. [n \in Nat |-> IF n < base THEN <<Digit(n)>>
                        ELSE Append(g[n \div base], Digit(n % base))]
        = [n \in Nat |-> IF n < base THEN <<digit[n]>>
                          ELSE Append(g[n \div base], digit[n % base])]
    BY <2>1
  <2>. QED  BY <2>2 DEF Digits_of
<1>3. ull_to_base(value, base, uppercase) = numeral[value]
  BY DEF ull_to_base
<1>. HIDE DEF digit, Equation
<1>4. Digits_of(numeral, base, digit)
  BY <1>1, <1>2, DigitsExist
<1>. QED  BY <1>1, <1>3, <1>4, DigitsType

-----------------------------------------------------------------------------
(* What a directive prints *)

\* A character is a text.
LEMMA OneSymbol ==
  ASSUME NEW c \in Symbol
  PROVE  <<c>> \in Seq(Symbol) /\ Len(<<c>>) = 1
OBVIOUS

\* A character as often as one likes is a text.
LEMMA RepeatType ==
  ASSUME NEW c \in Symbol, NEW n \in Nat
  PROVE  Repeat(c, n) \in Seq(Symbol)
<1>1. Repeat(c, n) \in [1 .. n -> Symbol]
  BY DEF Repeat
<1>. QED  BY <1>1, SeqDef

\* The values of an int: 0 is one of them, and what wraps is.
LEMMA IntsAre ==
  /\ IntValues \subseteq Int /\ 0 \in IntValues
  /\ \A n \in Int : AsInt(n) \in IntValues
<1>1. PICK w \in Nat : w = INT /\ w > 0 /\ w % 2 = 0
  BY WidthAssumption
<1>2. PICK h \in Nat : h = w \div 2 /\ w = 2 * h /\ h > 0
  BY <1>1
<1>3. IntValues = -h .. h - 1
  BY <1>1, <1>2 DEF IntValues
<1>4. ASSUME NEW n \in Int
      PROVE  AsInt(n) \in -h .. h - 1
  <2>1. PICK r \in 0 .. w - 1 : r = (n + h) % w
    BY <1>1
  <2>2. AsInt(n) = r - h
    BY <1>1, <1>2, <2>1 DEF AsInt
  <2>3. r - h \in -h .. h - 1
    BY <1>2, <2>1
  <2>. QED  BY <2>2, <2>3
<1>5. -h .. h - 1 \subseteq Int /\ 0 \in -h .. h - 1
  BY <1>2
<1>. QED  BY <1>3, <1>4, <1>5

Directives ==
  [zero_pad : BOOLEAN, left_justify : BOOLEAN, width : IntValues, length_mod : 0 .. 3]

\* A field is padded with a number of blanks or zeros, none at the least.
LEMMA PadType ==
  ASSUME NEW d \in Directives, NEW n \in Nat
  PROVE  Pad(d, n) \in Nat
<1>1. d.width \in Int
  BY IntsAre DEF Directives
<1>. QED  BY <1>1 DEF Pad

\* The field of a numeral is a text.
LEMMA FieldType ==
  ASSUME NEW d \in Directives, NEW n \in Numerals
  PROVE  print_number(d, n) \in Seq(Symbol)
<1>1. n \in Seq(Symbol) /\ n # <<>> /\ Len(n) \in Nat
  BY DEF Numerals
<1>2. PICK pad \in Nat : pad = Pad(d, Len(n))
  BY <1>1, PadType
<1>3. {" ", "0", "-"} \subseteq Symbol
  BY SymbolAssumption DEF DigitSymbols, OtherSymbols
<1>4. Repeat(" ", pad) \in Seq(Symbol) /\ Repeat("0", pad) \in Seq(Symbol)
  BY <1>2, <1>3, RepeatType
<1>5. Tail(n) \in Seq(Symbol) /\ <<"-">> \in Seq(Symbol)
  <2>1. PICK c \in Symbol : c = "-"
    BY <1>3
  <2>2. <<c>> \in Seq(Symbol)
    BY OneSymbol
  <2>3. Tail(n) \in Seq(Symbol)
    BY <1>1, HeadTailProperties
  <2>. QED  BY <2>1, <2>2, <2>3
<1>6. /\ n \o Repeat(" ", pad) \in Seq(Symbol)
      /\ Repeat(" ", pad) \o n \in Seq(Symbol) /\ Repeat("0", pad) \o n \in Seq(Symbol)
      /\ <<"-">> \o Repeat("0", pad) \o Tail(n) \in Seq(Symbol)
  BY <1>1, <1>4, <1>5, ConcatProperties
<1>. QED  BY <1>2, <1>6 DEF print_number

\* The values of the types.
LEMMA ValuesType ==
  ASSUME NEW d \in Directives
  PROVE  Values(d) \in Nat \ {0}
BY WidthAssumption DEF Values, Directives

\* A remainder is a natural number, of a negative number too.
LEMMA Remainder ==
  ASSUME NEW n \in Int, NEW v \in Nat \ {0}
  PROVE  n % v \in Nat
OBVIOUS

\* What becomes of an argument that is converted to its type.
LEMMA ConvertedType ==
  ASSUME NEW d \in Directives, NEW n \in Nat
  PROVE  Unsigned(n, d) \in Nat /\ Signed(n, d) \in Int
<1>1. PICK v \in Nat \ {0} : v = Values(d)
  BY ValuesType
<1>2. PICK h \in Int : h = v \div 2
  BY <1>1
<1>3. n % v \in Nat /\ (n + h) % v \in Nat
  <2>1. PICK m \in Int : m = n + h
    BY <1>2
  <2>2. m % v \in Nat /\ n % v \in Nat
    BY <1>1, Remainder
  <2>. QED  BY <2>1, <2>2
<1>. QED  BY <1>1, <1>2, <1>3 DEF Unsigned, Signed

\* The numerals that d, i, u, x, X and p print.
LEMMA DecimalType ==
  ASSUME NEW n \in Nat
  PROVE  /\ ull_to_base(n, 10, FALSE) \in Numerals
         /\ ull_to_base(n, 16, FALSE) \in Numerals
         /\ ull_to_base(n, 16, TRUE) \in Numerals
<1>1. PICK ten \in {10, 16}, no \in BOOLEAN : ten = 10 /\ no = FALSE
  OBVIOUS
<1>2. PICK sixteen \in {10, 16}, yes \in BOOLEAN : sixteen = 16 /\ yes = TRUE
  OBVIOUS
<1>3. /\ ull_to_base(n, ten, no) \in Numerals /\ ull_to_base(n, sixteen, no) \in Numerals
      /\ ull_to_base(n, sixteen, yes) \in Numerals
  BY NumeralType
<1>. QED  BY <1>1, <1>2, <1>3

\* A signed number has a numeral, also the least one, whose negation wraps.
LEMMA SignedNumeral ==
  ASSUME NEW value \in Int
  PROVE  ll_to_base(value, 10) \in Numerals
<1>1. CASE value >= 0
  <2>1. value \in Nat /\ ~(value < 0)
    BY <1>1
  <2>2. ull_to_base(value, 10, FALSE) \in Numerals
    BY <2>1, DecimalType
  <2>. QED  BY <2>1, <2>2 DEF ll_to_base
<1>2. CASE value < 0
  <2>1. PICK m \in Nat : m = (-value) % LONG
    BY <1>2, Remainder, WidthAssumption
  <2>2. PICK n \in Numerals : n = ull_to_base(m, 10, FALSE)
    BY DecimalType
  <2>3. PICK c \in Symbol : c = "-"
    BY SymbolAssumption DEF OtherSymbols
  <2>4. <<c>> \in Seq(Symbol) /\ Len(<<c>>) = 1 /\ n \in Seq(Symbol) /\ Len(n) \in Nat
    BY OneSymbol DEF Numerals
  <2>5. <<c>> \o n \in Seq(Symbol) /\ Len(<<c>> \o n) = 1 + Len(n)
    BY <2>4, ConcatProperties
  <2>6. <<c>> \o n # <<>>
    BY <2>4, <2>5
  <2>. QED  BY <1>2, <2>1, <2>2, <2>3, <2>5, <2>6 DEF ll_to_base, Numerals
<1>. QED  BY <1>1, <1>2

Arguments == UNION {ToSet(a) : a \in ArgLists}

\* What a directive prints is a text.
LEMMA TextType ==
  ASSUME NEW spec \in TakesArgument, NEW a \in Arguments, dir \in Directives
  PROVE  Text(spec, a) \in Seq(Symbol)
<1>1. /\ a.number \in Nat /\ a.char \in Symbol
      /\ a.text # NoText => a.text \in Seq(Symbol)
  BY CallAssumption DEF Arguments
<1>2. CASE spec = "c"
  BY <1>1, <1>2 DEF Text
<1>3. CASE spec = "s"
  <2>1. <<"(", "n", "u", "l", "l", ")">> \in Seq(Symbol) /\ " " \in Symbol
    <3>1. PICK C : C = {"(", "n", "u", "l", ")"}
      OBVIOUS
    <3>2. PICK s : s = <<"(", "n", "u", "l", "l", ")">>
      OBVIOUS
    <3>3. s \in Seq(C)
      BY <3>1, <3>2
    <3>4. C \subseteq Symbol /\ " " \in Symbol
      BY <3>1, SymbolAssumption DEF OtherSymbols
    <3>. QED  BY <3>2, <3>3, <3>4, SeqMonotonic
  <2>2. PICK s \in Seq(Symbol) :
          s = IF a.text = NoText THEN <<"(", "n", "u", "l", "l", ")">> ELSE a.text
    BY <1>1, <2>1
  <2>3. PICK pad \in Seq(Symbol) : pad = Repeat(" ", Pad(dir, Len(s)))
    <3>1. PICK n \in Nat : n = Pad(dir, Len(s))
      BY PadType
    <3>2. Repeat(" ", n) \in Seq(Symbol)
      BY <2>1, RepeatType
    <3>. QED  BY <3>1, <3>2
  <2>4. s \o pad \in Seq(Symbol) /\ pad \o s \in Seq(Symbol)
    BY ConcatProperties
  <2>. QED  BY <1>3, <2>2, <2>3, <2>4 DEF Text
<1>4. CASE spec \in {"d", "i"}
  <2>1. PICK n \in Numerals : n = ll_to_base(Signed(a.number, dir), 10)
    BY <1>1, ConvertedType, SignedNumeral
  <2>. QED  BY <1>4, <2>1, FieldType DEF Text
<1>5. CASE spec \in {"u", "x", "X"}
  <2>1. Unsigned(a.number, dir) \in Nat
    BY <1>1, ConvertedType
  <2>2. /\ ull_to_base(Unsigned(a.number, dir), 10, FALSE) \in Numerals
        /\ ull_to_base(Unsigned(a.number, dir), 16, spec = "X") \in Numerals
    BY <1>5, <2>1, DecimalType
  <2>. QED  BY <1>5, <2>2, FieldType DEF Text
<1>6. CASE spec = "p"
  BY <1>1, <1>6, DecimalType DEF Text, Numerals
<1>. QED  BY <1>2, <1>3, <1>4, <1>5, <1>6 DEF TakesArgument

-----------------------------------------------------------------------------
(* Directives and arguments *)

\* A format without its first character has as many directives, or one less.
LEMMA PercentsTail ==
  ASSUME NEW f \in Seq(Symbol), f # <<>>
  PROVE  /\ Percents(f) \in Nat /\ Percents(Tail(f)) \in Nat
         /\ Head(f) = "%" => Percents(f) = Percents(Tail(f)) + 1
         /\ Head(f) # "%" => Percents(f) = Percents(Tail(f))
<1>. DEFINE A == {k \in DOMAIN f : f[k] = "%"}
            B == {k \in DOMAIN Tail(f) : Tail(f)[k] = "%"}
<1>1. PICK n \in Nat : n = Len(Tail(f))
  BY HeadTailProperties
<1>2. /\ Len(f) = n + 1 /\ DOMAIN f = 1 .. n + 1 /\ DOMAIN Tail(f) = 1 .. n
      /\ \A k \in 1 .. n : Tail(f)[k] = f[k + 1]
  BY <1>1, HeadTailProperties, LenProperties
<1>3. IsFiniteSet(A) /\ IsFiniteSet(B)
  <2>1. A \in SUBSET (1 .. n + 1) /\ B \in SUBSET (1 .. n)
    BY <1>2
  <2>2. IsFiniteSet(1 .. n + 1) /\ IsFiniteSet(1 .. n)
    BY FS_Interval
  <2>. QED  BY <2>1, <2>2, FS_Subset
<1>4. \A k : k \in A \ {1} <=> k \in 2 .. n + 1 /\ f[k] = "%"
  BY <1>2
<1>5. \A k : k \in B <=> k \in 1 .. n /\ f[k + 1] = "%"
  BY <1>2
<1>. HIDE DEF A, B
<1>6. ExistsBijection(B, A \ {1})
  <2>. DEFINE g == [k \in B |-> k + 1]
  <2>1. \A k \in B : k \in Nat /\ g[k] = k + 1 /\ k + 1 \in A \ {1}
    BY <1>4, <1>5
  <2>2. \A k \in A \ {1} : k - 1 \in B /\ k = (k - 1) + 1
    BY <1>4, <1>5
  <2>3. g \in [B -> A \ {1}]
    BY <2>1
  <2>. HIDE DEF g
  <2>4. \A j, k \in B : g[j] = g[k] => j = k
    BY <2>1
  <2>5. \A k \in A \ {1} : \E j \in B : g[j] = k
    BY <2>1, <2>2
  <2>. QED  BY <2>3, <2>4, <2>5 DEF ExistsBijection, Bijection, Injection, Surjection, IsInjective
<1>7. Cardinality(A \ {1}) = Cardinality(B)
  BY <1>3, <1>6, FS_Bijection
<1>8. Cardinality(A) \in Nat /\ Cardinality(B) \in Nat
  BY <1>3, FS_CardinalityType
<1>9. Cardinality(A \ {1}) = IF 1 \in A THEN Cardinality(A) - 1 ELSE Cardinality(A)
  BY <1>3, FS_RemoveElement
<1>10. 1 \in A <=> Head(f) = "%"
  BY <1>2 DEF A
<1>11. Percents(f) = Cardinality(A) /\ Percents(Tail(f)) = Cardinality(B)
  BY DEF A, B, Percents
<1>. QED  BY <1>7, <1>8, <1>9, <1>10, <1>11

-----------------------------------------------------------------------------
(* The invariant *)

InDirective == pc \in {"percent", "flags", "width", "length"}
Running == {"null", "text", "percent", "flags", "width", "length"}

\* There is an argument for every directive that is left, and for the one
\* that is being read.
Enough ==
  /\ pc \in Running => Percents(format) <= Len(args)
  /\ InDirective => Percents(format) < Len(args)

\* The count is that of the characters accepted so far, and until the call
\* ends none was refused.
Sofar == ~refused /\ out \in Seq(Symbol) /\ total_count = Len(out)
Ended ==
  \/ refused /\ ret = -1 /\ out \in Seq(Symbol) /\ total_count \in Nat
  \/ ~buffered /\ Sofar /\ ret = total_count
  \/ /\ ~refused /\ buffered
     /\ \E s \in Seq(Symbol) : out = Append(s, NUL) /\ ret = Len(s) /\ total_count = ret
Counted ==
  /\ pc \in Running => Sofar /\ ret = 0
  /\ pc = "terminate" => Sofar /\ ret = total_count /\ buffered
  /\ pc = "done" => Ended

IInv ==
  /\ pc \in Running \cup {"terminate", "done"}
  /\ format \in Seq(Symbol) /\ args \in Seq(Arguments)
  /\ dir \in Directives /\ buffered \in BOOLEAN /\ refused \in BOOLEAN
  /\ Enough /\ Counted

\* It holds when a call begins.
LEMMA InitInv == Init => IInv
<1>. SUFFICES ASSUME Init PROVE IInv
  OBVIOUS
<1>1. /\ format \in Formats /\ args \in ArgLists /\ pc \in {"null", "text"}
      /\ buffered \in BOOLEAN /\ refused = FALSE /\ out = <<>> /\ total_count = 0 /\ ret = 0
  BY DEF Init
<1>2. format \in Seq(Symbol) /\ args \in Seq(Arguments)
  <2>1. args \in Seq(ToSet(args)) /\ ToSet(args) \subseteq Arguments
    BY <1>1, CallAssumption DEF Arguments
  <2>. QED  BY <1>1, <2>1, CallAssumption, SeqMonotonic
<1>3. dir \in Directives
  BY IntsAre DEF Init, NoFlags, Directives
<1>4. Enough
  BY <1>1, CallAssumption DEF Enough, InDirective
<1>5. Counted
  BY <1>1 DEF Counted, Sofar
<1>. QED  BY <1>1, <1>2, <1>3, <1>4, <1>5 DEF IInv, Running

\* What is put out keeps the count, accepted or not.
LEMMA EmitKeeps ==
  ASSUME IInv, pc \in Running, NEW s \in Seq(Symbol), Emit(s), UNCHANGED buffered
  PROVE  /\ Counted' /\ refused' \in BOOLEAN /\ pc' \in {"text", "done"}
<1>1. /\ ~refused /\ out \in Seq(Symbol) /\ total_count = Len(out) /\ ret = 0
      /\ buffered \in BOOLEAN /\ refused \in BOOLEAN
  BY DEF IInv, Counted, Sofar
<1>2. CASE /\ out' = out \o s
           /\ total_count' = total_count + Len(s)
           /\ pc' = "text"
           /\ UNCHANGED <<ret, refused>>
  <2>1. out' \in Seq(Symbol) /\ Len(out') = Len(out) + Len(s)
    BY <1>1, <1>2, ConcatProperties
  <2>. QED  BY <1>1, <1>2, <2>1 DEF Counted, Sofar, Running
<1>3. ASSUME NEW k \in 0 .. Len(s) - 1,
             ~buffered, out' = out \o SubSeq(s, 1, k),
             refused' = TRUE, ret' = -1, pc' = "done", UNCHANGED total_count
      PROVE  Counted' /\ refused' \in BOOLEAN /\ pc' \in {"text", "done"}
  <2>1. k \in Int /\ 1 \in Int /\ \A i \in 1 .. k : s[i] \in Symbol
    OBVIOUS
  <2>2. SubSeq(s, 1, k) \in Seq(Symbol)
    BY <2>1, SubSeqProperties
  <2>3. out' \in Seq(Symbol)
    BY <1>1, <1>3, <2>2, ConcatProperties
  <2>4. total_count' \in Nat
    BY <1>1, <1>3
  <2>. QED  BY <1>3, <2>3, <2>4 DEF Counted, Ended, Running
<1>. QED  BY <1>2, <1>3 DEF Emit

\* A character of the format is read.
LEMMA SkipKeeps ==
  ASSUME IInv, format # <<>>, Skip
  PROVE  /\ format' \in Seq(Symbol) /\ Head(format) \in Symbol
         /\ Percents(format) \in Nat /\ Percents(format') \in Nat
         /\ Head(format) = "%" => Percents(format) = Percents(format') + 1
         /\ Head(format) # "%" => Percents(format) = Percents(format')
BY PercentsTail, HeadTailProperties DEF IInv, Skip

\* A step that puts a text out, and passes a character of the format.
LEMMA EmitStep ==
  ASSUME IInv, pc \in Running, format # <<>>, NEW s \in Seq(Symbol), Emit(s), Skip,
         UNCHANGED <<buffered, dir>>, args' \in Seq(Arguments),
         Percents(format') <= Len(args')
  PROVE  IInv'
<1>1. Counted' /\ refused' \in BOOLEAN /\ pc' \in {"text", "done"}
  BY EmitKeeps
<1>2. format' \in Seq(Symbol)
  BY SkipKeeps
<1>3. Enough'
  BY <1>1 DEF Enough, InDirective
<1>. QED  BY <1>1, <1>2, <1>3 DEF IInv, Running

\* A step within a directive.
LEMMA ReadStep ==
  ASSUME IInv, pc \in Running, format # <<>>, Skip, dir' \in Directives,
         UNCHANGED <<args, buffered, out, total_count, ret, refused>>,
         pc' \in {"percent", "flags", "width", "length"},
         InDirective \/ Head(format) = "%"
  PROVE  IInv'
<1>1. /\ Len(args) \in Nat /\ Percents(format) <= Len(args)
      /\ InDirective => Percents(format) < Len(args)
  BY DEF IInv, Enough
<1>2. Percents(format') < Len(args)
  BY <1>1, SkipKeeps
<1>3. Enough'
  BY <1>1, <1>2, SkipKeeps DEF Enough, InDirective
<1>4. Counted'
  BY DEF IInv, Counted, Sofar, Running
<1>. QED  BY <1>3, <1>4, SkipKeeps DEF IInv, Running

\* The value of a digit of a width.
LEMMA DigitValueType ==
  ASSUME NEW c \in Numbers
  PROVE  DigitValue(c) \in Nat
<1>1. \E k \in 1 .. 16 : c = digits[k]
  BY DEF Numbers, digits
<1>2. \E k \in 1 .. 16 : c \in {digits[k], digits_uc[k]}
  BY <1>1
<1>. DEFINE j == CHOOSE k \in 1 .. 16 : c \in {digits[k], digits_uc[k]}
<1>3. j \in 1 .. 16
  BY <1>2
<1>4. DigitValue(c) = j - 1
  BY DEF DigitValue
<1>. HIDE DEF j
<1>. QED  BY <1>3, <1>4

\* The actions, one after the other, keep the invariant.
LEMMA LiteralKeeps == IInv /\ Literal => IInv'
<1>. SUFFICES ASSUME IInv, Literal PROVE IInv'
  OBVIOUS
<1>1. /\ pc = "text" /\ format # <<>> /\ Head(format) # "%" /\ Emit(<<Head(format)>>) /\ Skip
      /\ UNCHANGED <<args, buffered, dir>>
  BY DEF Literal, Next_is
<1>2. pc \in Running /\ Percents(format) <= Len(args) /\ args \in Seq(Arguments)
  BY <1>1 DEF Running, IInv, Enough
<1>3. <<Head(format)>> \in Seq(Symbol)
  BY <1>1, SkipKeeps, OneSymbol
<1>4. Percents(format') <= Len(args') /\ args' \in Seq(Arguments)
  BY <1>1, <1>2, SkipKeeps
<1>. QED  BY <1>1, <1>2, <1>3, <1>4, EmitStep

\* The begin of a directive.
LEMMA PercentKeeps == IInv /\ Percent => IInv'
<1>. SUFFICES ASSUME IInv, Percent PROVE IInv'
  OBVIOUS
<1>1. /\ pc \in Running /\ format # <<>> /\ Head(format) = "%" /\ Skip
      /\ UNCHANGED <<args, buffered, out, total_count, ret, refused>>
      /\ pc' \in {"percent", "flags", "width", "length"}
  BY DEF Percent, Next_is, Running
<1>2. dir' \in Directives
  BY IntsAre DEF Percent, NoFlags, Directives
<1>. QED  BY <1>1, <1>2, ReadStep

\* In a directive one argument more is left than the rest of the format needs.
LEMMA InDirectiveHas ==
  ASSUME IInv, InDirective
  PROVE  /\ pc \in Running /\ Percents(format) < Len(args) /\ args \in Seq(Arguments)
         /\ Len(args) \in Nat
BY DEF IInv, Enough, InDirective, Running

\* In a directive, a text is put out and a character passed.
LEMMA DirectiveStep ==
  ASSUME IInv, InDirective, format # <<>>, NEW s \in Seq(Symbol), Emit(s), Skip,
         UNCHANGED <<buffered, dir>>, args' = args \/ args' = Tail(args)
  PROVE  IInv'
<1>1. /\ pc \in Running /\ Percents(format) < Len(args) /\ args \in Seq(Arguments)
      /\ Len(args) \in Nat
  BY InDirectiveHas
<1>2. Percents(format) \in Nat /\ Percents(format') \in Nat /\ Percents(format') <= Percents(format)
  BY SkipKeeps
<1>3. args # <<>>
  BY <1>1, <1>2
<1>4. Tail(args) \in Seq(Arguments) /\ Len(Tail(args)) = Len(args) - 1
  BY <1>1, <1>3, HeadTailProperties
<1>5. args' \in Seq(Arguments) /\ Percents(format') <= Len(args')
  <2>1. CASE args' = args
    BY <1>1, <1>2, <2>1
  <2>2. CASE args' = Tail(args)
    <3>1. PICK a \in Seq(Arguments) : a = Tail(args) /\ Len(a) = Len(args) - 1
      BY <1>4
    <3>. QED  BY <1>1, <1>2, <2>2, <3>1
  <2>. QED  BY <2>1, <2>2
<1>. QED  BY <1>1, <1>5, EmitStep

\* A percent sign of its own.
LEMMA PercentPercentKeeps == IInv /\ PercentPercent => IInv'
<1>. SUFFICES ASSUME IInv, PercentPercent PROVE IInv'
  OBVIOUS
<1>1. /\ InDirective /\ format # <<>> /\ Emit(<<"%">>) /\ Skip
      /\ UNCHANGED <<args, buffered, dir>>
  BY DEF PercentPercent, Next_is, InDirective
<1>2. PICK c \in Symbol : c = "%"
  BY SymbolAssumption DEF OtherSymbols
<1>3. <<"%">> \in Seq(Symbol)
  BY <1>2, OneSymbol
<1>. QED  BY <1>1, <1>3, DirectiveStep

\* The flags: none of them is text.
LEMMA FlagKeeps == IInv /\ Flag => IInv'
<1>. SUFFICES ASSUME IInv, Flag PROVE IInv'
  OBVIOUS
<1>1. /\ InDirective /\ pc \in Running /\ format # <<>> /\ Skip
      /\ UNCHANGED <<args, buffered, out, total_count, ret, refused>>
      /\ pc' \in {"percent", "flags", "width", "length"}
  BY DEF Flag, Next_is, Running, InDirective
<1>2. dir' \in Directives
  BY DEF IInv, Flag, Directives
<1>. QED  BY <1>1, <1>2, ReadStep

\* The width takes a digit in.
LEMMA WidthKeeps == IInv /\ Width => IInv'
<1>. SUFFICES ASSUME IInv, Width PROVE IInv'
  OBVIOUS
<1>1. /\ InDirective /\ pc \in Running /\ format # <<>> /\ Skip
      /\ Head(format) \in Numbers
      /\ UNCHANGED <<args, buffered, out, total_count, ret, refused>>
      /\ pc' \in {"percent", "flags", "width", "length"}
  BY DEF Width, Next_is, Running, InDirective
<1>2. dir' \in Directives
  <2>1. PICK w \in Int : w = dir.width * 10 + DigitValue(Head(format))
    <3>1. PICK v \in Int, k \in Nat : v = dir.width /\ k = DigitValue(Head(format))
      BY <1>1, DigitValueType, IntsAre DEF IInv, Directives
    <3>. QED  BY <3>1
  <2>2. dir' = [dir EXCEPT !.width = AsInt(w)]
    BY <2>1 DEF Width
  <2>3. AsInt(w) \in IntValues
    BY IntsAre
  <2>. QED  BY <2>2, <2>3 DEF IInv, Directives
<1>. QED  BY <1>1, <1>2, ReadStep

\* The length modifier is one of four.
LEMMA LengthModifierKeeps == IInv /\ LengthModifier => IInv'
<1>. SUFFICES ASSUME IInv, LengthModifier PROVE IInv'
  OBVIOUS
<1>1. /\ InDirective /\ pc \in Running /\ format # <<>> /\ Skip
      /\ UNCHANGED <<args, buffered, out, total_count, ret, refused>>
      /\ pc' \in {"percent", "flags", "width", "length"}
  BY DEF LengthModifier, Next_is, Running, InDirective
<1>2. dir' \in Directives
  <2>1. PICK m \in 1 .. 3 : dir' = [dir EXCEPT !.length_mod = m]
    BY DEF LengthModifier
  <2>2. dir \in Directives /\ m \in 0 .. 3
    BY DEF IInv
  <2>. QED  BY ONLY <2>1, <2>2 DEF Directives
<1>. QED  BY <1>1, <1>2, ReadStep

\* The argument that a directive takes is there.
LEMMA ConvertKeeps == IInv /\ Convert => IInv'
<1>. SUFFICES ASSUME IInv, Convert PROVE IInv'
  OBVIOUS
<1>1. /\ InDirective /\ format # <<>> /\ Head(format) \in TakesArgument
      /\ Emit(Text(Head(format), Head(args))) /\ Skip /\ args' = Tail(args)
      /\ UNCHANGED <<buffered, dir>>
  BY DEF Convert, AtSpecifier, Next_is, InDirective
<1>2. Head(args) \in Arguments
  <2>1. Len(args) \in Nat /\ Percents(format) \in Nat /\ Percents(format) < Len(args)
    BY <1>1, InDirectiveHas, SkipKeeps
  <2>2. args # <<>> /\ args \in Seq(Arguments)
    BY <1>1, <2>1, InDirectiveHas
  <2>. QED  BY <2>2, HeadTailProperties
<1>3. Text(Head(format), Head(args)) \in Seq(Symbol)
  BY <1>1, <1>2, TextType DEF IInv
<1>. QED  BY <1>1, <1>3, DirectiveStep

\* An unknown directive is put out, and takes no argument.
LEMMA UnknownKeeps == IInv /\ Unknown => IInv'
<1>. SUFFICES ASSUME IInv, Unknown PROVE IInv'
  OBVIOUS
<1>1. /\ InDirective /\ format # <<>> /\ Emit(<<"%", Head(format)>>) /\ Skip
      /\ UNCHANGED <<args, buffered, dir>>
  BY DEF Unknown, AtSpecifier, InDirective
<1>2. PICK c \in Symbol, d \in Symbol : c = "%" /\ d = Head(format)
  BY <1>1, SkipKeeps, SymbolAssumption DEF OtherSymbols
<1>3. <<c, d>> \in Seq(Symbol)
  OBVIOUS
<1>. QED  BY <1>1, <1>2, <1>3, DirectiveStep

\* The end of the format, also within a directive.
LEMMA EndKeeps == IInv /\ End => IInv'
<1>. SUFFICES ASSUME IInv, End PROVE IInv'
  OBVIOUS
<1>1. /\ pc \in Running /\ ret' = total_count
      /\ pc' = IF buffered THEN "terminate" ELSE "done"
      /\ UNCHANGED <<format, args, buffered, dir, out, total_count, refused>>
  BY DEF End, Running
<1>2. Sofar /\ buffered \in BOOLEAN
  BY <1>1 DEF IInv, Counted
<1>3. Counted'
  BY <1>1, <1>2 DEF Counted, Sofar, Ended, Running
<1>4. Enough'
  BY <1>1 DEF Enough, InDirective, Running
<1>. QED  BY <1>1, <1>3, <1>4 DEF IInv

\* The terminator comes behind what was printed.
LEMMA TerminateKeeps == IInv /\ Terminate => IInv'
<1>. SUFFICES ASSUME IInv, Terminate PROVE IInv'
  OBVIOUS
<1>1. /\ pc = "terminate" /\ out' = Append(out, NUL) /\ pc' = "done"
      /\ UNCHANGED <<format, args, buffered, dir, total_count, ret, refused>>
  BY DEF Terminate
<1>2. Sofar /\ ret = total_count /\ buffered
  BY <1>1 DEF IInv, Counted
<1>3. Counted'
  BY <1>1, <1>2 DEF Counted, Sofar, Ended, Running
<1>4. Enough'
  BY <1>1 DEF Enough, InDirective, Running
<1>. QED  BY <1>1, <1>3, <1>4 DEF IInv

\* Nothing is printed with a null pointer.
LEMMA NullPointerKeeps == IInv /\ NullPointer => IInv'
<1>. SUFFICES ASSUME IInv, NullPointer PROVE IInv'
  OBVIOUS
<1>1. /\ pc = "null" /\ ret' = -1 /\ refused' = TRUE /\ pc' = "done"
      /\ UNCHANGED <<format, args, buffered, dir, out, total_count>>
  BY DEF NullPointer
<1>2. out \in Seq(Symbol) /\ total_count \in Nat
  BY <1>1 DEF IInv, Counted, Sofar, Running
<1>3. Counted'
  BY <1>1, <1>2 DEF Counted, Ended, Running
<1>4. Enough'
  BY <1>1 DEF Enough, InDirective, Running
<1>. QED  BY <1>1, <1>3, <1>4 DEF IInv

\* Every step keeps the invariant.
LEMMA StepInv == IInv /\ [Next]_vars => IInv'
<1>. SUFFICES ASSUME IInv, [Next]_vars PROVE IInv'
  OBVIOUS
<1>1. CASE UNCHANGED vars
  BY <1>1 DEF IInv, Enough, InDirective, Counted, Sofar, Ended, vars
<1>2. CASE Step
  BY <1>2, LiteralKeeps, PercentKeeps, PercentPercentKeeps, FlagKeeps, WidthKeeps,
     LengthModifierKeeps, ConvertKeeps, UnknownKeeps, EndKeeps, TerminateKeeps,
     NullPointerKeeps DEF Step
<1>3. CASE Done
  BY <1>1, <1>3 DEF Done
<1>. QED  BY <1>1, <1>2, <1>3 DEF Next

\* So the invariant holds from the first step of a call to its last.
THEOREM Invariance == Spec => []IInv
<1>1. Init => IInv
  BY InitInv
<1>2. IInv /\ [Next]_vars => IInv'
  BY StepInv
<1>. QED  BY <1>1, <1>2, PTL DEF Spec

\* Every variable keeps its type.
THEOREM TypeCorrectness == Spec => []TypeOK
<1>1. IInv => TypeOK
  <2>. SUFFICES ASSUME IInv PROVE TypeOK
    OBVIOUS
  <2>1. /\ pc \in Running \cup {"terminate", "done"} /\ dir \in Directives
    BY DEF IInv
  <2>2. total_count \in Nat /\ ret \in Nat \cup {-1}
    BY <2>1 DEF IInv, Counted, Sofar, Ended
  <2>. QED  BY <2>1, <2>2 DEF TypeOK, Running, Directives
<1>. QED  BY <1>1, Invariance, PTL

\* A text has no terminator in it.
LEMMA PlainText ==
  ASSUME NEW s \in Seq(Symbol)
  PROVE  NUL \notin ToSet(s)
<1>1. \A i \in DOMAIN s : s[i] \in Symbol
  BY LenProperties, ElementOfSeq
<1>. QED  BY <1>1, SymbolAssumption DEF ToSet

\* A text with its terminator has one, behind the text.
LEMMA TerminatedText ==
  ASSUME NEW s \in Seq(Symbol), NEW t, t = Append(s, NUL)
  PROVE  NUL \in ToSet(t) /\ Front(t) = s
<1>1. PICK n \in Nat : n = Len(s)
  BY LenProperties
<1>2. PICK S : S = Symbol \cup {NUL}
  OBVIOUS
<1>3. s \in Seq(S) /\ NUL \in S
  BY <1>2, SeqMonotonic
<1>4. /\ t \in Seq(S) /\ Len(t) = n + 1 /\ DOMAIN t = 1 .. n + 1 /\ t[n + 1] = NUL
      /\ \A i \in 1 .. n : t[i] = s[i]
  BY <1>1, <1>3
<1>5. NUL \in ToSet(t)
  BY <1>1, <1>4 DEF ToSet
<1>6. SubSeq(Append(s, NUL), 1, n) = s
  <2>1. ASSUME NEW c \in S
        PROVE  SubSeq(Append(s, c), 1, n) = s
    BY <1>1, <1>3
  <2>. QED  BY <1>3, <2>1
<1>7. Front(t) = SubSeq(t, 1, n)
  BY <1>1, <1>4 DEF Front
<1>. QED  BY <1>5, <1>6, <1>7

\* What a call returns is the number of characters it has printed, and -1 when
\* the callback refused one or there was none; a buffer ends with its terminator.
THEOREM CountIsReturned == Spec => []ReturnsTheCount
<1>1. IInv => ReturnsTheCount
  <2>. SUFFICES ASSUME IInv PROVE ReturnsTheCount
    OBVIOUS
  <2>. DEFINE printed == IF NUL \in ToSet(out) THEN Front(out) ELSE out
  <2>1. ASSUME out \in Seq(Symbol)
        PROVE  NUL \notin ToSet(out) /\ printed = out
    BY <2>1, PlainText
  <2>2. ASSUME NEW s \in Seq(Symbol), out = Append(s, NUL)
        PROVE  NUL \in ToSet(out) /\ printed = s /\ NUL \notin ToSet(printed)
    BY <2>2, PlainText, TerminatedText
  <2>. HIDE DEF printed
  <2>3. CASE pc # "done"
    <3>1. ~refused /\ out \in Seq(Symbol)
      BY <2>3 DEF IInv, Counted, Sofar
    <3>. QED  BY <2>1, <2>3, <3>1 DEF ReturnsTheCount, printed
  <2>4. CASE pc = "done" /\ out \in Seq(Symbol)
    <3>1. ret = (IF refused THEN -1 ELSE Len(out)) /\ ~(buffered /\ ~refused)
      <4>1. ~ \E s \in Seq(Symbol) : out = Append(s, NUL)
        BY <2>1, <2>2, <2>4
      <4>2. Ended
        BY <2>4 DEF IInv, Counted
      <4>. QED  BY <4>1, <4>2 DEF Ended, Sofar
    <3>. QED  BY <2>1, <2>4, <3>1 DEF ReturnsTheCount, printed
  <2>5. CASE pc = "done" /\ out \notin Seq(Symbol)
    <3>1. Ended
      BY <2>5 DEF IInv, Counted
    <3>2. /\ ~refused /\ buffered
          /\ \E s \in Seq(Symbol) : out = Append(s, NUL) /\ ret = Len(s)
      BY <2>5, <3>1 DEF Ended, Sofar
    <3>3. PICK s \in Seq(Symbol) : out = Append(s, NUL) /\ ret = Len(s)
      BY <3>2
    <3>. QED  BY <2>2, <2>5, <3>2, <3>3 DEF ReturnsTheCount, printed
  <2>. QED  BY <2>3, <2>4, <2>5
<1>. QED  BY <1>1, Invariance, PTL

-----------------------------------------------------------------------------
(* What a numeral stands for *)

\* The numbers of which the digits d are the numeral, by how many of them there are.
Reads(v, d, b, n) ==
  v \in [0 .. n -> Nat] /\ v[0] = 0 /\ \A k \in 1 .. n : v[k] = v[k - 1] * b + d[k]

\* A loop that reads a numeral, from its first digit on.
Horner(d, b, n) ==
  CHOOSE f : f = [T \in SUBSET (1 .. n) |->
                    IF T = {} THEN 0 ELSE f[T \ {Max(T)}] * b + d[Max(T)]]

\* The loop ends with the number of which the digits are the numeral.
LEMMA HornerIs ==
  ASSUME NEW n \in Nat, NEW d \in [1 .. n -> Nat], NEW b \in Nat
  PROVE  \E v : Reads(v, d, b, n) /\ Horner(d, b, n)[1 .. n] = v[n]
<1>. DEFINE step == [x \in Nat \X (1 .. n) |-> x[1] * b + d[x[2]]]
            Goes(f) == f = [T \in SUBSET (1 .. n) |->
                              IF T = {} THEN 0 ELSE f[T \ {Max(T)}] * b + d[Max(T)]]
            g == Horner(d, b, n)
            v == [k \in 0 .. n |-> g[1 .. k]]
<1>1. step \in [Nat \X (1 .. n) -> Nat]
  <2>1. ASSUME NEW x \in Nat, NEW k \in 1 .. n
        PROVE  x * b + d[k] \in Nat
    OBVIOUS
  <2>. QED  BY <2>1
<1>2. \E f \in [SUBSET (1 .. n) -> Nat] : Goes(f)
  <2>1. PICK f \in [SUBSET (1 .. n) -> Nat] : GoesThrough(f, n, 0, step)
    <3>. HIDE DEF step
    <3>. QED  BY <1>1, 0 \in Nat, GoesThroughExists
  <2>2. ASSUME NEW T \in SUBSET (1 .. n), T # {}
        PROVE  f[T] = f[T \ {Max(T)}] * b + d[Max(T)]
    <3>1. Max(T) \in T
      BY <2>2, GreatestOf
    <3>2. <<f[T \ {Max(T)}], Max(T)>> \in Nat \X (1 .. n)
      BY <3>1
    <3>3. f[T] = step[<<f[T \ {Max(T)}], Max(T)>>]
      BY <2>1, <2>2 DEF GoesThrough
    <3>. QED  BY <3>2, <3>3
  <2>3. f[{}] = 0
    BY <2>1 DEF GoesThrough
  <2>4. f = [T \in SUBSET (1 .. n) |-> f[T]]
    OBVIOUS
  <2>. QED  BY <2>2, <2>3, <2>4
<1>3. Goes(g)
  <2>1. \E f : Goes(f)
    BY <1>2
  <2>. QED  BY <2>1 DEF Horner
<1>4. g[{}] = 0 /\ \A T \in SUBSET (1 .. n) : T # {} => g[T] = g[T \ {Max(T)}] * b + d[Max(T)]
  BY <1>3
<1>. HIDE DEF Goes, g
<1>5. ASSUME NEW k \in 1 .. n
      PROVE  g[1 .. k] = g[1 .. k - 1] * b + d[k]
  <2>1. Max(1 .. k) = k /\ 1 .. k \in SUBSET (1 .. n) /\ 1 .. k # {}
    BY GreatestIs
  <2>2. (1 .. k) \ {k} = 1 .. k - 1
    OBVIOUS
  <2>3. g[1 .. k] = g[(1 .. k) \ {Max(1 .. k)}] * b + d[Max(1 .. k)]
    BY <1>4, <2>1
  <2>. QED  BY ONLY <2>1, <2>2, <2>3
<1>6. g[1 .. 0] = 0
  <2>1. 1 .. 0 = {}
    OBVIOUS
  <2>. QED  BY <1>4, <2>1
<1>7. \A k \in 0 .. n : g[1 .. k] \in Nat
  <2>. DEFINE S == {k \in 0 .. n : g[1 .. k] \in Nat}
  <2>1. 0 \in S
    BY <1>6
  <2>2. ASSUME NEW k \in 0 .. n - 1, k \in S
        PROVE  k + 1 \in S
    <3>1. PICK l \in 1 .. n : l = k + 1 /\ l - 1 = k
      OBVIOUS
    <3>2. g[1 .. l] = g[1 .. k] * b + d[l]
      BY <1>5, <3>1
    <3>3. PICK x, y \in Nat : x = g[1 .. k] /\ y = d[l]
      BY <2>2
    <3>4. x * b + y \in Nat
      OBVIOUS
    <3>. QED  BY <3>1, <3>2, <3>3, <3>4
  <2>. HIDE DEF S
  <2>3. 0 .. n \subseteq S
    BY <2>1, <2>2, Count
  <2>. QED  BY <2>3 DEF S
<1>8. v[0] = 0 /\ \A k \in 0 .. n : v[k] = g[1 .. k]
  BY <1>6
<1>9. v \in [0 .. n -> Nat]
  BY <1>7
<1>. HIDE DEF v
<1>10. ASSUME NEW k \in 1 .. n
       PROVE  v[k] = v[k - 1] * b + d[k]
  <2>1. PICK j \in 0 .. n : j = k - 1 /\ k \in 0 .. n
    OBVIOUS
  <2>2. v[j] = g[1 .. j] /\ v[k] = g[1 .. k]
    BY ONLY <1>8, <2>1
  <2>3. g[1 .. k] = g[1 .. j] * b + d[k]
    BY ONLY <1>5, <2>1, k \in 1 .. n
  <2>. QED  BY ONLY <2>1, <2>2, <2>3
<1>11. Reads(v, d, b, n)
  BY ONLY <1>8, <1>9, <1>10 DEF Reads
<1>12. g[1 .. n] = v[n]
  BY ONLY <1>8, n \in Nat
<1>. QED  BY ONLY <1>11, <1>12 DEF g

\* Digits d begin with the digits e.
BeginWith(v, d, n, w, e, m, b) ==
  /\ n \in Nat /\ m \in Nat /\ m <= n
  /\ Reads(v, d, b, n) /\ Reads(w, e, b, m)
  /\ \A k \in 1 .. m : d[k] = e[k]

\* Then both stand for the same number, as far as e goes.
LEMMA ReadsOne ==
  ASSUME NEW v, NEW d, NEW n, NEW w, NEW e, NEW m, NEW b, BeginWith(v, d, n, w, e, m, b)
  PROVE  v[m] = w[m]
<1>. /\ n \in Nat /\ m \in Nat /\ m <= n
     /\ Reads(v, d, b, n) /\ Reads(w, e, b, m)
     /\ \A k \in 1 .. m : d[k] = e[k]
  BY DEF BeginWith
<1>. DEFINE S == {k \in 0 .. m : v[k] = w[k]}
<1>1. 0 \in S
  BY DEF Reads
<1>2. ASSUME NEW k \in 0 .. m - 1, k \in S
      PROVE  k + 1 \in S
  <2>1. PICK l \in 1 .. m : l = k + 1 /\ l - 1 = k /\ l \in 1 .. n
    OBVIOUS
  <2>2. v[l] = v[k] * b + d[l] /\ w[l] = w[k] * b + e[l]
    BY <2>1 DEF Reads
  <2>. QED  BY <1>2, <2>1, <2>2
<1>. HIDE DEF S
<1>3. 0 .. m \subseteq S
  BY <1>1, <1>2, Count
<1>. QED  BY <1>3 DEF S

\* Either alphabet has the digit of every number to 15.
LEMMA DigitReads ==
  ASSUME NEW n \in 0 .. 15
  PROVE  DigitValue(digits[n + 1]) = n /\ DigitValue(digits_uc[n + 1]) = n
<1>1. PICK i \in 1 .. 16 : i = n + 1
  OBVIOUS
<1>2. ASSUME NEW k \in 1 .. 16, digits[i] \in {digits[k], digits_uc[k]}
      PROVE  k = i
  BY <1>2 DEF digits, digits_uc
<1>3. ASSUME NEW k \in 1 .. 16, digits_uc[i] \in {digits[k], digits_uc[k]}
      PROVE  k = i
  BY <1>3 DEF digits, digits_uc
<1>4. (CHOOSE k \in 1 .. 16 : digits[i] \in {digits[k], digits_uc[k]}) = i
  BY <1>2
<1>5. (CHOOSE k \in 1 .. 16 : digits_uc[i] \in {digits[k], digits_uc[k]}) = i
  BY <1>3
<1>6. DigitValue(digits[i]) = i - 1 /\ DigitValue(digits_uc[i]) = i - 1
  BY ONLY <1>4, <1>5 DEF DigitValue
<1>7. i - 1 = n
  BY <1>1
<1>. QED  BY ONLY <1>1, <1>6, <1>7

\* Every digit is in one of them.
LEMMA DigitSymbol ==
  ASSUME NEW c \in DigitSymbols
  PROVE  /\ DigitValue(c) \in 0 .. 15
         /\ c # " " /\ c # "-"
         /\ c = "0" <=> DigitValue(c) = 0
<1>1. PICK n \in 0 .. 15 : c = digits[n + 1] \/ c = digits_uc[n + 1]
  <2>1. PICK i \in 1 .. 16 : c = digits[i] \/ c = digits_uc[i]
    BY DEF DigitSymbols, digits, digits_uc
  <2>2. i - 1 \in 0 .. 15 /\ (i - 1) + 1 = i
    OBVIOUS
  <2>. QED  BY <2>1, <2>2
<1>2. DigitValue(c) = n
  BY <1>1, DigitReads
<1>3. "0" = digits[0 + 1]
  BY DEF digits
<1>4. DigitValue("0") = 0
  BY <1>3, DigitReads
<1>5. n = 0 => c = "0"
  BY <1>1 DEF digits, digits_uc
<1>6. c # " " /\ c # "-"
  BY DEF DigitSymbols
<1>. QED  BY <1>2, <1>4, <1>5, <1>6

ValuesOf(s) == [k \in 1 .. Len(s) |-> DigitValue(s[k])]

\* The value of a numeral is what its digits stand for.
LEMMA ValueIs ==
  ASSUME NEW s \in Seq(DigitSymbols), NEW b \in Nat
  PROVE  /\ ValuesOf(s) \in [1 .. Len(s) -> Nat]
         /\ \E v : Reads(v, ValuesOf(s), b, Len(s)) /\ Value(s, b) = v[Len(s)]
<1>1. PICK n \in Nat : n = Len(s) /\ DOMAIN s = 1 .. n
  OBVIOUS
<1>2. PICK d : d = ValuesOf(s)
  OBVIOUS
<1>3. d \in [1 .. n -> Nat] /\ \A k \in 1 .. n : d[k] = DigitValue(s[k])
  <2>1. ASSUME NEW k \in 1 .. n
        PROVE  DigitValue(s[k]) \in Nat
    <3>1. s[k] \in DigitSymbols
      BY <1>1
    <3>2. DigitValue(s[k]) \in 0 .. 15
      BY ONLY <3>1, DigitSymbol
    <3>. QED  BY ONLY <3>2
  <2>. QED  BY <1>1, <1>2, <2>1 DEF ValuesOf
<1>. DEFINE Goes(f) == f = [T \in SUBSET (1 .. n) |->
                              IF T = {} THEN 0 ELSE f[T \ {Max(T)}] * b + DigitValue(s[Max(T)])]
            Runs(f) == f = [T \in SUBSET (1 .. n) |->
                              IF T = {} THEN 0 ELSE f[T \ {Max(T)}] * b + d[Max(T)]]
            g == CHOOSE f : Goes(f)
            h == Horner(d, b, n)
<1>4. Value(s, b) = g[1 .. n]
  BY <1>1 DEF Value, FoldLeft, MapThenFoldSet
<1>5. ASSUME NEW f
      PROVE  Goes(f) <=> Runs(f)
  <2>1. ASSUME NEW T \in SUBSET (1 .. n)
        PROVE  (IF T = {} THEN 0 ELSE f[T \ {Max(T)}] * b + DigitValue(s[Max(T)]))
                 = IF T = {} THEN 0 ELSE f[T \ {Max(T)}] * b + d[Max(T)]
    <3>1. CASE T = {}
      BY <3>1
    <3>2. CASE T # {}
      <4>1. Max(T) \in 1 .. n
        BY <3>2, GreatestOf
      <4>2. d[Max(T)] = DigitValue(s[Max(T)])
        BY <1>3, <4>1
      <4>. QED  BY <3>2, <4>2
    <3>. QED  BY <3>1, <3>2
  <2>2. [T \in SUBSET (1 .. n) |->
           IF T = {} THEN 0 ELSE f[T \ {Max(T)}] * b + DigitValue(s[Max(T)])]
        = [T \in SUBSET (1 .. n) |->
             IF T = {} THEN 0 ELSE f[T \ {Max(T)}] * b + d[Max(T)]]
    BY <2>1
  <2>. QED  BY <2>2
<1>6. g = h
  <2>1. h = CHOOSE f : Runs(f)
    BY DEF Horner
  <2>. HIDE DEF Goes, Runs, h
  <2>. QED  BY <1>5, <2>1
<1>7. \E v : Reads(v, d, b, n) /\ h[1 .. n] = v[n]
  BY <1>3, HornerIs
<1>. HIDE DEF g, h
<1>. QED  BY <1>1, <1>2, <1>3, <1>4, <1>6, <1>7

\* A numeral of the number n, without zeros in front.
IsNumeral(s, b, n) ==
  /\ s \in Seq(DigitSymbols) /\ Len(s) >= 1 /\ Value(s, b) = n
  /\ s[1] = "0" => Len(s) = 1

\* A digit behind a numeral.
LEMMA ValueAppend ==
  ASSUME NEW s \in Seq(DigitSymbols), NEW c \in DigitSymbols, NEW b \in Nat
  PROVE  /\ Append(s, c) \in Seq(DigitSymbols)
         /\ Value(Append(s, c), b) = Value(s, b) * b + DigitValue(c)
<1>1. PICK n \in Nat : n = Len(s)
  OBVIOUS
<1>2. PICK t \in Seq(DigitSymbols) : t = Append(s, c)
  <2>1. Append(s, c) \in Seq(DigitSymbols)
    OBVIOUS
  <2>. QED  BY ONLY <2>1
<1>3. Len(t) = n + 1 /\ t[n + 1] = c /\ \A k \in 1 .. n : t[k] = s[k]
  BY <1>1, <1>2
<1>4. PICK v : Reads(v, ValuesOf(t), b, n + 1) /\ Value(t, b) = v[n + 1]
  <2>1. \E v : Reads(v, ValuesOf(t), b, Len(t)) /\ Value(t, b) = v[Len(t)]
    BY ValueIs
  <2>. QED  BY ONLY <1>3, <2>1
<1>5. PICK w : Reads(w, ValuesOf(s), b, n) /\ Value(s, b) = w[n]
  <2>1. \E w : Reads(w, ValuesOf(s), b, Len(s)) /\ Value(s, b) = w[Len(s)]
    BY ValueIs
  <2>. QED  BY ONLY <1>1, <2>1
<1>6. /\ \A k \in 1 .. n + 1 : ValuesOf(t)[k] = DigitValue(t[k])
      /\ \A k \in 1 .. n : ValuesOf(s)[k] = DigitValue(s[k])
  BY <1>1, <1>3 DEF ValuesOf
<1>7. \A k \in 1 .. n : ValuesOf(t)[k] = ValuesOf(s)[k]
  BY <1>3, <1>6
<1>8. v[n] = w[n]
  <2>1. PICK m \in Nat : m = n + 1 /\ n <= m
    OBVIOUS
  <2>2. PICK d, e : d = ValuesOf(t) /\ e = ValuesOf(s)
    OBVIOUS
  <2>3. BeginWith(v, d, m, w, e, n, b)
    BY ONLY <1>4, <1>5, <1>7, <2>1, <2>2, n \in Nat, m \in Nat DEF BeginWith
  <2>. QED  BY ONLY <2>3, ReadsOne
<1>9. v[n + 1] = v[n] * b + ValuesOf(t)[n + 1]
  <2>1. PICK l \in 1 .. n + 1 : l = n + 1 /\ l - 1 = n
    OBVIOUS
  <2>2. v[l] = v[l - 1] * b + ValuesOf(t)[l]
    BY <1>4, <2>1 DEF Reads
  <2>. QED  BY ONLY <2>1, <2>2
<1>10. ValuesOf(t)[n + 1] = DigitValue(c)
  <2>1. n + 1 \in 1 .. n + 1
    OBVIOUS
  <2>. QED  BY ONLY <1>3, <1>6, <2>1
<1>. QED  BY ONLY <1>2, <1>4, <1>5, <1>8, <1>9, <1>10

\* A single digit.
LEMMA ValueOne ==
  ASSUME NEW c \in DigitSymbols, NEW b \in Nat
  PROVE  <<c>> \in Seq(DigitSymbols) /\ Len(<<c>>) = 1 /\ Value(<<c>>, b) = DigitValue(c)
<1>1. PICK s \in Seq(DigitSymbols) : s = <<c>> /\ Len(s) = 1 /\ s[1] = c
  <2>1. <<c>> \in Seq(DigitSymbols) /\ Len(<<c>>) = 1 /\ <<c>>[1] = c
    OBVIOUS
  <2>. QED  BY ONLY <2>1
<1>2. PICK v : Reads(v, ValuesOf(s), b, 1) /\ Value(s, b) = v[1]
  <2>1. \E v : Reads(v, ValuesOf(s), b, Len(s)) /\ Value(s, b) = v[Len(s)]
    BY ValueIs
  <2>. QED  BY ONLY <1>1, <2>1
<1>3. v[0] = 0 /\ v[1] = v[0] * b + ValuesOf(s)[1]
  <2>1. 1 \in 1 .. 1 /\ 1 - 1 = 0
    OBVIOUS
  <2>. QED  BY <1>2, <2>1 DEF Reads
<1>4. ValuesOf(s)[1] = DigitValue(c)
  <2>1. ValuesOf(s)[1] = DigitValue(s[1])
    BY ONLY <1>1 DEF ValuesOf
  <2>. QED  BY ONLY <1>1, <2>1
<1>5. DigitValue(c) \in Nat
  <2>1. DigitValue(c) \in 0 .. 15
    BY ONLY c \in DigitSymbols, DigitSymbol
  <2>. QED  BY ONLY <2>1
<1>. QED  BY <1>1, <1>2, <1>3, <1>4, <1>5

\* The digits of every number read as the number.
LEMMA DigitsRead ==
  ASSUME NEW base \in {10, 16}, NEW digit \in [0 .. base - 1 -> DigitSymbols],
         \A i \in 0 .. base - 1 : DigitValue(digit[i]) = i,
         NEW g, Digits_of(g, base, digit)
  PROVE  \A n \in Nat : IsNumeral(g[n], base, n)
<1>. DEFINE Wrong == {n \in Nat : ~IsNumeral(g[n], base, n)}
<1>1. CASE Wrong = {}
  BY <1>1
<1>2. CASE Wrong # {}
  <2>1. PICK n \in Wrong : \A m \in Wrong : n <= m
    BY <1>2, Least
  <2>2. /\ n \in Nat /\ ~IsNumeral(g[n], base, n)
        /\ g[n] = IF n < base THEN <<digit[n]>> ELSE Append(g[n \div base], digit[n % base])
    BY DEF Digits_of
  <2>0. base \in Nat
    OBVIOUS
  <2>3. CASE n < base
    <3>1. n \in 0 .. base - 1
      BY <2>2, <2>3
    <3>2. PICK c \in DigitSymbols : c = digit[n] /\ DigitValue(c) = n /\ g[n] = <<c>>
      BY <2>2, <2>3, <3>1
    <3>3. IsNumeral(<<c>>, base, n)
      BY <2>0, <3>2, ValueOne DEF IsNumeral
    <3>. QED  BY <2>2, <3>2, <3>3
  <2>4. CASE n >= base
    <3>1. PICK j \in 0 .. n - 1, d \in 0 .. base - 1 : j = n \div base /\ d = n % base
      BY <2>2, <2>4, LastDigit
    <3>2. IsNumeral(g[j], base, j)
      BY <2>1, <2>2, <3>1
    <3>3. PICK c \in DigitSymbols : c = digit[d] /\ DigitValue(c) = d
      OBVIOUS
    <3>4. PICK s \in Seq(DigitSymbols) : s = g[j] /\ Len(s) >= 1 /\ Value(s, base) = j
                                         /\ (s[1] = "0" => Len(s) = 1)
      BY <3>2 DEF IsNumeral
    <3>5. g[n] = Append(s, c)
      BY <2>2, <2>4, <3>1, <3>3, <3>4
    <3>6. n = j * base + d /\ j # 0
      <4>1. CASE base = 10
        BY ONLY <2>2, <2>4, <3>1, <4>1
      <4>2. CASE base = 16
        BY ONLY <2>2, <2>4, <3>1, <4>2
      <4>. QED  BY <4>1, <4>2
    <3>7. Append(s, c) \in Seq(DigitSymbols) /\ Value(Append(s, c), base) = n
      BY <2>0, <3>3, <3>4, <3>6, ValueAppend
    <3>8. Append(s, c)[1] = s[1] /\ Len(Append(s, c)) >= 1
      BY <3>4
    <3>9. s[1] # "0"
      <4>1. ASSUME s[1] = "0"
            PROVE  FALSE
        <5>1. s = <<"0">>
          BY <3>4, <4>1
        <5>2. "0" \in DigitSymbols
          BY DEF DigitSymbols
        <5>3. Value(<<"0">>, base) = 0
          BY <2>0, <5>2, ValueOne, DigitSymbol
        <5>. QED  BY <3>4, <3>6, <5>1, <5>3
      <4>. QED  BY <4>1
    <3>10. IsNumeral(Append(s, c), base, n)
      BY <3>7, <3>8, <3>9 DEF IsNumeral
    <3>. QED  BY <2>2, <3>5, <3>10
  <2>. QED  BY <2>2, <2>3, <2>4
<1>. QED  BY <1>1, <1>2

\* What ull_to_base makes of a number reads as the number.
LEMMA NumeralReads ==
  ASSUME NEW value \in Nat, NEW base \in {10, 16}, NEW uppercase \in BOOLEAN
  PROVE  IsNumeral(ull_to_base(value, base, uppercase), base, value)
<1>. DEFINE Digit(n) == IF uppercase THEN digits_uc[n + 1] ELSE digits[n + 1]
            digit == [n \in 0 .. base - 1 |-> Digit(n)]
            Equation(g) == g = [n \in Nat |-> IF n < base THEN <<Digit(n)>>
                                   ELSE Append(g[n \div base], Digit(n % base))]
            numeral == CHOOSE g : Equation(g)
<1>1. ASSUME NEW n \in 0 .. base - 1
      PROVE  Digit(n) \in DigitSymbols /\ DigitValue(Digit(n)) = n
  <2>1. PICK i \in 1 .. 16 : i = n + 1 /\ n \in 0 .. 15
    OBVIOUS
  <2>2. digits[i] \in DigitSymbols /\ digits_uc[i] \in DigitSymbols
    BY DEF digits, digits_uc, DigitSymbols
  <2>. QED  BY <2>1, <2>2, DigitReads
<1>2. /\ digit \in [0 .. base - 1 -> DigitSymbols] /\ digit \in [0 .. base - 1 -> Symbol]
      /\ \A i \in 0 .. base - 1 : DigitValue(digit[i]) = i /\ digit[i] = Digit(i)
  <2>1. DigitSymbols \subseteq Symbol
    BY SymbolAssumption
  <2>. HIDE DEF Digit
  <2>. QED  BY <1>1, <2>1
<1>3. ASSUME NEW g
      PROVE  Equation(g) <=> Digits_of(g, base, digit)
  <2>1. ASSUME NEW n \in Nat
        PROVE  digit[n % base] = Digit(n % base) /\ (n < base => digit[n] = Digit(n))
    <3>1. n % base \in 0 .. base - 1 /\ (n < base => n \in 0 .. base - 1)
      BY LastDigit
    <3>. HIDE DEF digit, Digit
    <3>. QED  BY <1>2, <3>1
  <2>. HIDE DEF digit, Digit
  <2>2. [n \in Nat |-> IF n < base THEN <<Digit(n)>>
                        ELSE Append(g[n \div base], Digit(n % base))]
        = [n \in Nat |-> IF n < base THEN <<digit[n]>>
                          ELSE Append(g[n \div base], digit[n % base])]
    BY <2>1
  <2>. QED  BY <2>2 DEF Digits_of
<1>4. ull_to_base(value, base, uppercase) = numeral[value]
  BY DEF ull_to_base
<1>. HIDE DEF digit, Equation, Digit
<1>5. Digits_of(numeral, base, digit)
  BY <1>2, <1>3, DigitsExist
<1>. HIDE DEF numeral
<1>6. \A n \in Nat : IsNumeral(numeral[n], base, n)
  BY <1>2, <1>5, DigitsRead
<1>. QED  BY <1>4, <1>6

-----------------------------------------------------------------------------
(* The field of a numeral *)

\* Text t is text s behind k characters c.
BehindMany(t, c, k, s) ==
  /\ k \in Nat /\ Len(s) \in Nat /\ Len(t) = k + Len(s)
  /\ \A i \in 1 .. k : t[i] = c
  /\ \A i \in 1 .. Len(s) : t[k + i] = s[i]

\* A character, repeated in front of a text or behind it.
LEMMA RepeatJoined ==
  ASSUME NEW S, NEW s \in Seq(S), NEW c \in S, NEW k \in Nat
  PROVE  /\ Repeat(c, k) \o s \in Seq(S) /\ BehindMany(Repeat(c, k) \o s, c, k, s)
         /\ s \o Repeat(c, k) \in Seq(S) /\ Len(s \o Repeat(c, k)) = Len(s) + k
         /\ \A i \in 1 .. Len(s) : (s \o Repeat(c, k))[i] = s[i]
         /\ \A i \in 1 .. k : (s \o Repeat(c, k))[Len(s) + i] = c
<1>1. PICK z \in Seq(S) : z = Repeat(c, k) /\ Len(z) = k /\ \A i \in 1 .. k : z[i] = c
  <2>1. Repeat(c, k) \in [1 .. k -> S] /\ \A i \in 1 .. k : Repeat(c, k)[i] = c
    BY DEF Repeat
  <2>2. PICK f \in [1 .. k -> S] : f = Repeat(c, k)
    BY <2>1
  <2>3. f \in Seq(S) /\ Len(f) = k
    BY SeqDef
  <2>. QED  BY <2>1, <2>2, <2>3
<1>2. PICK n \in Nat : n = Len(s)
  OBVIOUS
<1>3. /\ z \o s \in Seq(S) /\ Len(z \o s) = k + n
      /\ s \o z \in Seq(S) /\ Len(s \o z) = n + k
      /\ \A i \in 1 .. k : (z \o s)[i] = z[i]
      /\ \A i \in 1 .. n : (s \o z)[i] = s[i]
  BY <1>1, <1>2
<1>4. ASSUME NEW i \in 1 .. n
      PROVE  (z \o s)[k + i] = s[i]
  BY <1>1, <1>2
<1>5. ASSUME NEW i \in 1 .. k
      PROVE  (s \o z)[n + i] = z[i]
  BY <1>1, <1>2
<1>. QED  BY ONLY <1>1, <1>2, <1>3, <1>4, <1>5, k \in Nat DEF BehindMany

\* Zeros in front do not change the value of a numeral.
LEMMA ValueOfZeros ==
  ASSUME NEW s \in Seq(DigitSymbols), NEW k \in Nat, NEW b \in Nat
  PROVE  /\ Repeat("0", k) \o s \in Seq(DigitSymbols)
         /\ Value(Repeat("0", k) \o s, b) = Value(s, b)
<1>1. PICK zero \in DigitSymbols : zero = "0" /\ DigitValue(zero) = 0
  <2>1. "0" \in DigitSymbols
    BY DEF DigitSymbols
  <2>. QED  BY <2>1, DigitSymbol
<1>2. PICK t \in Seq(DigitSymbols) : t = Repeat("0", k) \o s /\ BehindMany(t, "0", k, s)
  BY <1>1, RepeatJoined
<1>3. PICK n \in Nat : n = Len(s)
  OBVIOUS
<1>4. PICK m \in Nat : m = k + n
  OBVIOUS
<1>5. /\ Len(t) = m /\ \A i \in 1 .. k : t[i] = zero
      /\ \A i \in 1 .. n : t[k + i] = s[i]
  BY <1>1, <1>2, <1>3, <1>4 DEF BehindMany
<1>6. PICK v : Reads(v, ValuesOf(t), b, m) /\ Value(t, b) = v[m]
  <2>1. \E v : Reads(v, ValuesOf(t), b, Len(t)) /\ Value(t, b) = v[Len(t)]
    BY ValueIs
  <2>. QED  BY ONLY <1>5, <2>1
<1>7. PICK w : Reads(w, ValuesOf(s), b, n) /\ Value(s, b) = w[n]
  <2>1. \E w : Reads(w, ValuesOf(s), b, Len(s)) /\ Value(s, b) = w[Len(s)]
    BY ValueIs
  <2>. QED  BY ONLY <1>3, <2>1
<1>8. PICK d, e : d = ValuesOf(t) /\ e = ValuesOf(s)
  OBVIOUS
<1>9. /\ \A i \in 1 .. m : d[i] = DigitValue(t[i])
      /\ \A i \in 1 .. n : e[i] = DigitValue(s[i])
  BY ONLY <1>3, <1>5, <1>8 DEF ValuesOf
<1>10. /\ v[0] = 0 /\ \A i \in 1 .. m : v[i] = v[i - 1] * b + d[i]
       /\ w[0] = 0 /\ \A i \in 1 .. n : w[i] = w[i - 1] * b + e[i]
  BY ONLY <1>6, <1>7, <1>8 DEF Reads
<1>11. v[k] = 0
  <2>. DEFINE S == {i \in 0 .. k : v[i] = 0}
  <2>1. 0 \in S
    BY <1>10
  <2>2. ASSUME NEW i \in 0 .. k - 1, i \in S
        PROVE  i + 1 \in S
    <3>1. PICK j \in 1 .. k : j = i + 1 /\ j - 1 = i /\ j \in 1 .. m
      BY <1>4
    <3>2. d[j] = 0
      BY ONLY <1>1, <1>5, <1>9, <3>1
    <3>3. v[j] = 0 * b + 0
      BY ONLY <1>10, <2>2, <3>1, <3>2
    <3>4. 0 * b + 0 = 0 /\ j \in 0 .. k
      OBVIOUS
    <3>. QED  BY ONLY <3>1, <3>3, <3>4
  <2>. HIDE DEF S
  <2>3. 0 .. k \subseteq S
    BY <2>1, <2>2, Count
  <2>. QED  BY <2>3 DEF S
<1>12. v[k + n] = w[n]
  <2>. DEFINE S == {i \in 0 .. n : v[k + i] = w[i]}
  <2>1. 0 \in S
    BY <1>10, <1>11
  <2>2. ASSUME NEW i \in 0 .. n - 1, i \in S
        PROVE  i + 1 \in S
    <3>1. PICK j \in 1 .. n : j = i + 1 /\ j - 1 = i
      OBVIOUS
    <3>2. PICK l \in 1 .. m : l = k + j /\ l - 1 = k + i
      BY <1>4, <3>1
    <3>3. d[l] = e[j]
      BY ONLY <1>5, <1>9, <3>1, <3>2
    <3>4. v[l] = v[l - 1] * b + d[l] /\ w[j] = w[j - 1] * b + e[j]
      BY ONLY <1>10, <3>1, <3>2
    <3>5. v[k + i] = w[i]
      BY <2>2
    <3>6. v[k + j] = w[j]
      BY ONLY <3>1, <3>2, <3>3, <3>4, <3>5
    <3>7. j \in 0 .. n
      OBVIOUS
    <3>. QED  BY ONLY <3>1, <3>6, <3>7
  <2>. HIDE DEF S
  <2>3. 0 .. n \subseteq S
    BY <2>1, <2>2, Count
  <2>. QED  BY <2>3 DEF S
<1>. QED  BY ONLY <1>2, <1>4, <1>6, <1>7, <1>12

\* Text s is text c with a blanks in front of it, and blanks behind it.
Framed(s, c, a) ==
  /\ s \in Seq(Symbol) /\ c \in Seq(Symbol) /\ a \in Nat
  /\ Len(c) >= 1 /\ a + Len(c) <= Len(s)
  /\ \A i \in 1 .. a : s[i] = " "
  /\ \A i \in 1 .. Len(c) : s[a + i] = c[i]
  /\ \A i \in a + Len(c) + 1 .. Len(s) : s[i] = " "
  /\ c[1] # " " /\ c[Len(c)] # " "

\* Without the blanks it is that text.
LEMMA StrippedIs ==
  ASSUME NEW s, NEW c, NEW a, Framed(s, c, a)
  PROVE  Stripped(s) = c
<1>1. PICK n \in Nat, m \in Nat, x \in Int, y \in Int :
        /\ s \in Seq(Symbol) /\ c \in Seq(Symbol) /\ a \in Nat
        /\ n = Len(s) /\ m = Len(c) /\ x = a + 1 /\ y = a + m
        /\ DOMAIN s = 1 .. n /\ DOMAIN c = 1 .. m
  <2>1. s \in Seq(Symbol) /\ c \in Seq(Symbol) /\ a \in Nat
    BY DEF Framed
  <2>2. Len(s) \in Nat /\ Len(c) \in Nat /\ DOMAIN s = 1 .. Len(s) /\ DOMAIN c = 1 .. Len(c)
    BY ONLY <2>1, LenProperties
  <2>3. a + 1 \in Int /\ a + Len(c) \in Int
    BY ONLY <2>1, <2>2
  <2>. QED  BY ONLY <2>1, <2>2, <2>3
<1>2. /\ m >= 1 /\ a + m <= n
      /\ \A i \in 1 .. a : s[i] = " "
      /\ \A i \in 1 .. m : s[a + i] = c[i]
      /\ \A i \in a + m + 1 .. n : s[i] = " "
      /\ c[1] # " " /\ c[m] # " "
  BY ONLY <1>1, Framed(s, c, a) DEF Framed
<1>3. x \in 1 .. n /\ y \in 1 .. n /\ x <= y /\ 1 \in 1 .. m /\ m \in 1 .. m
  <2>1. x \in Int /\ y \in Int /\ x = a + 1 /\ y = a + m /\ a \in Nat
    BY ONLY <1>1, x \in Int, y \in Int
  <2>2. m >= 1 /\ a + m <= n
    BY ONLY <1>2
  <2>. QED  BY ONLY <2>1, <2>2, n \in Nat, m \in Nat
<1>4. s[x] # " " /\ s[y] # " "
  BY ONLY <1>1, <1>2, <1>3
<1>5. PICK ink : ink = {k \in DOMAIN s : s[k] # " "}
  OBVIOUS
<1>6. ink \in SUBSET Int /\ x \in ink /\ y \in ink
  <2>1. ink = {k \in 1 .. n : s[k] # " "}
    BY ONLY <1>1, <1>5
  <2>2. x \in ink /\ y \in ink
    BY ONLY <1>3, <1>4, <2>1
  <2>3. 1 .. n \subseteq Int
    OBVIOUS
  <2>4. ink \subseteq 1 .. n
    BY ONLY <2>1
  <2>. QED  BY ONLY <2>2, <2>3, <2>4
<1>7. \A z \in ink : x <= z /\ z <= y
  <2>1. ASSUME NEW z \in ink
        PROVE  x <= z /\ z <= y
    <3>1. z \in 1 .. n /\ s[z] # " "
      BY ONLY <1>1, <1>5, z \in ink
    <3>2. z \notin 1 .. a /\ z \notin a + m + 1 .. n
      BY ONLY <1>2, <3>1
    <3>3. x = a + 1 /\ y = a + m /\ a \in Nat /\ z \in 1 .. n
      BY ONLY <1>1, <3>1
    <3>. QED  BY ONLY <3>2, <3>3, x \in Int, y \in Int, n \in Nat, m \in Nat
  <2>. QED  BY <2>1
<1>8. Min(ink) = x
  BY ONLY <1>6, <1>7, MinIs
<1>9. Max(ink) = y
  BY ONLY <1>6, <1>7, MaxIs
<1>10. Stripped(s) = SubSeq(s, x, y)
  BY ONLY <1>5, <1>8, <1>9 DEF Stripped
<1>11. /\ Len(SubSeq(s, x, y)) = m /\ SubSeq(s, x, y) \in Seq(Symbol)
       /\ \A i \in 1 .. m : SubSeq(s, x, y)[i] = c[i]
  <2>1. \A i \in x .. y : s[i] \in Symbol
    BY ONLY <1>1, <1>3, n \in Nat, x \in Int, y \in Int, ElementOfSeq
  <2>2. PICK t \in Seq(Symbol) : t = SubSeq(s, x, y)
    BY ONLY <1>1, <2>1, x \in Int, y \in Int, SubSeqProperties
  <2>3. Len(t) = m
    BY ONLY <1>1, <1>3, <2>1, <2>2, m \in Nat, x \in Int, y \in Int, SubSeqProperties
  <2>4. ASSUME NEW i \in 1 .. m
        PROVE  t[i] = c[i]
    <3>1. i \in 1 .. y - x + 1 /\ x <= y /\ x + i - 1 = a + i
      BY ONLY <1>1, <1>3, m \in Nat, x \in Int, y \in Int, i \in 1 .. m
    <3>2. SubSeq(s, x, y)[i] = s[x + i - 1]
      BY ONLY <1>1, <2>1, <3>1, x \in Int, y \in Int, SubSeqProperties
    <3>. QED  BY ONLY <1>2, <2>2, <3>1, <3>2, i \in 1 .. m
  <2>. QED  BY <2>2, <2>3, <2>4
<1>12. SubSeq(s, x, y) = c
  BY ONLY <1>1, <1>11, m \in Nat, SeqEqual
<1>. QED  BY <1>10, <1>12

\* A text that starts and ends with ink, and is read as n.
ReadsAs(c, b, n) ==
  /\ c \in Seq(Symbol) /\ Len(c) >= 1 /\ c[1] # " " /\ c[Len(c)] # " "
  /\ Read(c, b) = n

\* Such a text in a field of blanks is read as the same number.
LEMMA FramedReads ==
  ASSUME NEW p, NEW c, NEW a, NEW b, NEW n, Framed(p, c, a), ReadsAs(c, b, n)
  PROVE  Read(Stripped(p), b) = n
BY StrippedIs DEF ReadsAs

\* It is one itself.
LEMMA FramedItself ==
  ASSUME NEW c, NEW b, NEW n, ReadsAs(c, b, n)
  PROVE  Framed(c, c, 0)
<1>1. PICK m \in Nat : m = Len(c)
  BY LenProperties DEF ReadsAs
<1>2. c \in Seq(Symbol) /\ m >= 1 /\ c[1] # " " /\ c[m] # " "
  BY ONLY <1>1, ReadsAs(c, b, n) DEF ReadsAs
<1>3. \A i \in 1 .. m : 0 + i = i
  OBVIOUS
<1>4. 0 + m = m /\ 0 + m + 1 .. m = {} /\ 1 .. 0 = {} /\ 0 + m <= m
  OBVIOUS
<1>. QED  BY ONLY <1>1, <1>2, <1>3, <1>4 DEF Framed

\* Digits are read as their value.
LEMMA DigitsAs ==
  ASSUME NEW s \in Seq(DigitSymbols), Len(s) >= 1, NEW b
  PROVE  ReadsAs(s, b, Value(s, b)) /\ s[1] # "-"
<1>1. PICK m \in Nat : m = Len(s) /\ 1 \in 1 .. m /\ m \in 1 .. m /\ DOMAIN s = 1 .. m
  OBVIOUS
<1>2. s[1] \in DigitSymbols /\ s[m] \in DigitSymbols
  BY <1>1
<1>3. /\ s[1] # " " /\ s[m] # " " /\ s[1] # "-"
  BY ONLY <1>2, DigitSymbol
<1>4. s \in Seq(Symbol)
  BY SymbolAssumption, SeqMonotonic
<1>. QED  BY ONLY <1>1, <1>3, <1>4, Len(s) >= 1 DEF ReadsAs, Read

\* With a sign in front they are read as the negative value.
LEMMA SignedAs ==
  ASSUME NEW t \in Seq(DigitSymbols), Len(t) >= 1, NEW b
  PROVE  /\ ReadsAs(<<"-">> \o t, b, -Value(t, b))
         /\ (<<"-">> \o t)[1] = "-" /\ Tail(<<"-">> \o t) = t
         /\ Len(<<"-">> \o t) = 1 + Len(t)
<1>1. PICK m \in Nat : m = Len(t) /\ m \in 1 .. m
  OBVIOUS
<1>2. DigitSymbols \subseteq Symbol /\ "-" \in Symbol
  BY SymbolAssumption DEF OtherSymbols
<1>3. PICK u \in Seq(Symbol) : u = t
  <2>1. t \in Seq(Symbol)
    BY <1>2, SeqMonotonic
  <2>. QED  BY <2>1
<1>4. PICK z \in Seq(Symbol) : z = <<"-">> /\ Len(z) = 1 /\ z[1] = "-"
  <2>1. <<"-">> \in Seq(Symbol) /\ Len(<<"-">>) = 1
    BY <1>2, OneSymbol
  <2>. QED  BY <2>1
<1>5. PICK c : c = z \o u
  OBVIOUS
<1>6. /\ c \in Seq(Symbol) /\ Len(c) = 1 + m /\ c[1] = "-"
      /\ \A i \in 1 .. m : c[1 + i] = u[i]
  <2>1. c \in Seq(Symbol) /\ Len(c) = 1 + m
    BY <1>1, <1>3, <1>4, <1>5
  <2>2. c[1] = "-"
    BY <1>1, <1>3, <1>4, <1>5
  <2>3. ASSUME NEW i \in 1 .. m
        PROVE  c[1 + i] = u[i]
    BY <1>1, <1>3, <1>4, <1>5
  <2>. QED  BY <2>1, <2>2, <2>3
<1>7. Tail(c) = u
  <2>1. c # <<>>
    BY <1>6
  <2>2. Tail(c) \in Seq(Symbol) /\ Len(Tail(c)) = m
    BY <1>6, <2>1, HeadTailProperties
  <2>3. ASSUME NEW i \in 1 .. m
        PROVE  Tail(c)[i] = u[i]
    <3>1. Tail(c)[i] = c[i + 1] /\ i + 1 = 1 + i
      BY <1>6, <2>1, <2>2, HeadTailProperties
    <3>. QED  BY <1>6, <3>1
  <2>. QED  BY ONLY <1>1, <1>3, <2>2, <2>3, m \in Nat, u \in Seq(Symbol), SeqEqual
<1>8. c[1 + m] # " "
  <2>1. c[1 + m] = t[m] /\ t[m] \in DigitSymbols
    BY <1>1, <1>3, <1>6
  <2>. QED  BY ONLY <2>1, DigitSymbol
<1>9. Read(c, b) = -Value(t, b)
  BY ONLY <1>3, <1>6, <1>7 DEF Read
<1>10. 1 + m >= 1
  OBVIOUS
<1>11. ReadsAs(c, b, -Value(t, b))
  BY ONLY <1>6, <1>8, <1>9, <1>10 DEF ReadsAs
<1>. QED  BY ONLY <1>1, <1>3, <1>4, <1>5, <1>6, <1>7, <1>11

\* The numeral of number n, with a sign when it is negative.
IsSignedNumeral(s, b, n) ==
  \/ n >= 0 /\ IsNumeral(s, b, n)
  \/ n < 0 /\ \E t : IsNumeral(t, b, -n) /\ s = <<"-">> \o t

\* It is read as n, and starts with a zero only when it is the zero.
LEMMA SignedNumeralReads ==
  ASSUME NEW s, NEW b, NEW n \in Int, IsSignedNumeral(s, b, n)
  PROVE  ReadsAs(s, b, n) /\ (s[1] = "0" => Len(s) = 1) /\ (s[1] = "-" <=> n < 0)
<1>1. CASE n >= 0 /\ IsNumeral(s, b, n)
  <2>1. s \in Seq(DigitSymbols) /\ Len(s) >= 1 /\ Value(s, b) = n /\ (s[1] = "0" => Len(s) = 1)
    BY <1>1 DEF IsNumeral
  <2>2. ReadsAs(s, b, n) /\ s[1] # "-"
    BY ONLY <2>1, DigitsAs
  <2>. QED  BY <1>1, <2>1, <2>2
<1>2. CASE n < 0 /\ \E t : IsNumeral(t, b, -n) /\ s = <<"-">> \o t
  <2>1. PICK t : IsNumeral(t, b, -n) /\ s = <<"-">> \o t
    BY <1>2
  <2>2. t \in Seq(DigitSymbols) /\ Len(t) >= 1 /\ Value(t, b) = -n
    BY <2>1 DEF IsNumeral
  <2>3. ReadsAs(s, b, -Value(t, b)) /\ s[1] = "-"
    BY ONLY <2>1, <2>2, SignedAs
  <2>4. -(-n) = n
    OBVIOUS
  <2>5. ReadsAs(s, b, n)
    BY ONLY <2>2, <2>3, <2>4
  <2>. QED  BY ONLY <1>2, <2>3, <2>5
<1>. QED  BY <1>1, <1>2 DEF IsSignedNumeral

\* A field is as wide as asked for, or has no padding.
LEMMA PadIs ==
  ASSUME NEW d \in Directives, NEW n \in Nat
  PROVE  /\ Pad(d, n) \in Nat /\ n + Pad(d, n) >= d.width
         /\ Pad(d, n) > 0 => n + Pad(d, n) = d.width
<1>1. d.width \in Int
  BY IntsAre DEF Directives
<1>. QED  BY <1>1 DEF Pad

\* Without padding a field is its numeral.
LEMMA NoPadding ==
  ASSUME NEW s \in Seq(Symbol), NEW c \in Symbol
  PROVE  Repeat(c, 0) \o s = s /\ s \o Repeat(c, 0) = s
<1>1. Repeat(c, 0) = <<>>
  BY DEF Repeat
<1>2. <<>> \o s = s /\ s \o <<>> = s
  BY ConcatEmptySeq
<1>. QED  BY <1>1, <1>2

\* Padding of zeros or blanks, in front of a numeral, between its sign and its
\* digits, or behind it, leaves its number.
LEMMA PaddedReads ==
  ASSUME NEW d \in Directives, NEW b \in Nat, NEW n \in Int, NEW s, IsSignedNumeral(s, b, n),
         NEW pad \in Nat, pad > 0
  PROVE  /\ Read(Stripped(s \o Repeat(" ", pad)), b) = n
         /\ Read(Stripped(Repeat(" ", pad) \o s), b) = n
         /\ n >= 0 => Read(Stripped(Repeat("0", pad) \o s), b) = n
         /\ n < 0 => Read(Stripped(<<"-">> \o Repeat("0", pad) \o Tail(s)), b) = n
<1>0. PICK blank \in Symbol, zero \in Symbol, sign \in Symbol :
        blank = " " /\ zero = "0" /\ sign = "-"
  BY SymbolAssumption DEF OtherSymbols, DigitSymbols
<1>1. PICK c \in Seq(Symbol), m \in Nat : c = s /\ ReadsAs(c, b, n) /\ m = Len(c) /\ m >= 1
  <2>1. ReadsAs(s, b, n)
    BY SignedNumeralReads
  <2>2. s \in Seq(Symbol) /\ Len(s) >= 1 /\ Len(s) \in Nat
    BY ONLY <2>1, LenProperties DEF ReadsAs
  <2>. QED  BY ONLY <2>1, <2>2
<1>2. c[1] # " " /\ c[m] # " "
  BY ONLY <1>1 DEF ReadsAs
<1>3. Read(Stripped(c \o Repeat(" ", pad)), b) = n
  <2>1. PICK p \in Seq(Symbol) :
          /\ p = c \o Repeat(blank, pad) /\ Len(p) = Len(c) + pad
          /\ \A i \in 1 .. Len(c) : p[i] = c[i]
          /\ \A i \in 1 .. pad : p[Len(c) + i] = blank
    <3>1. PICK p : p = c \o Repeat(blank, pad)
      OBVIOUS
    <3>2. /\ p \in Seq(Symbol) /\ Len(p) = Len(c) + pad
          /\ \A i \in 1 .. Len(c) : p[i] = c[i]
          /\ \A i \in 1 .. pad : p[Len(c) + i] = blank
      BY ONLY <3>1, RepeatJoined, c \in Seq(Symbol), blank \in Symbol, pad \in Nat
    <3>. QED  BY ONLY <3>1, <3>2
  <2>2. Len(p) = m + pad /\ \A i \in 1 .. m : p[i] = c[i]
    BY ONLY <1>1, <2>1
  <2>3. \A i \in 1 .. pad : p[m + i] = " "
    BY ONLY <1>0, <1>1, <2>1
  <2>4. ASSUME NEW i \in 0 + m + 1 .. m + pad
        PROVE  p[i] = " "
    <3>1. PICK j \in 1 .. pad : i = m + j
      <4>1. i - m \in 1 .. pad /\ i = m + (i - m)
        OBVIOUS
      <4>. QED  BY <4>1
    <3>. QED  BY ONLY <2>3, <3>1
  <2>5. \A i \in 1 .. m : p[0 + i] = c[i]
    BY ONLY <2>2, m \in Nat
  <2>6. 0 + m <= m + pad /\ 1 .. 0 = {}
    OBVIOUS
  <2>7. \A i \in 0 + m + 1 .. m + pad : p[i] = " "
    BY <2>4
  <2>8. Framed(p, c, 0)
    BY ONLY <1>1, <1>2, <2>2, <2>5, <2>6, <2>7, p \in Seq(Symbol), c \in Seq(Symbol) DEF Framed
  <2>9. Read(Stripped(p), b) = n
    BY ONLY <1>1, <2>8, FramedReads
  <2>. QED  BY ONLY <1>0, <2>1, <2>9
<1>4. Read(Stripped(Repeat(" ", pad) \o c), b) = n
  <2>1. PICK p \in Seq(Symbol) : p = Repeat(blank, pad) \o c /\ BehindMany(p, blank, pad, c)
    BY RepeatJoined
  <2>2. /\ Len(p) = pad + m /\ \A i \in 1 .. pad : p[i] = " "
        /\ \A i \in 1 .. m : p[pad + i] = c[i]
    BY ONLY <1>0, <1>1, <2>1 DEF BehindMany
  <2>3. pad + m + 1 .. pad + m = {} /\ pad + m <= pad + m
    OBVIOUS
  <2>4. Framed(p, c, pad)
    BY ONLY <1>1, <1>2, <2>2, <2>3, p \in Seq(Symbol), c \in Seq(Symbol), pad \in Nat DEF Framed
  <2>5. Read(Stripped(p), b) = n
    BY ONLY <1>1, <2>4, FramedReads
  <2>. QED  BY ONLY <1>0, <2>1, <2>5
<1>5. ASSUME n >= 0
      PROVE  Read(Stripped(Repeat("0", pad) \o s), b) = n
  <2>1. s \in Seq(DigitSymbols) /\ Value(s, b) = n /\ Len(s) \in Nat
    BY <1>5 DEF IsSignedNumeral, IsNumeral
  <2>2. PICK p \in Seq(DigitSymbols) : p = Repeat("0", pad) \o s /\ Value(p, b) = n
    BY ONLY <2>1, ValueOfZeros, pad \in Nat, b \in Nat
  <2>3. Len(p) >= 1
    <3>1. "0" \in DigitSymbols
      BY DEF DigitSymbols
    <3>2. BehindMany(Repeat("0", pad) \o s, "0", pad, s)
      BY ONLY <2>1, <3>1, RepeatJoined, pad \in Nat
    <3>3. Len(p) = pad + Len(s)
      BY ONLY <2>2, <3>2 DEF BehindMany
    <3>. QED  BY <2>1, <3>3
  <2>4. ReadsAs(p, b, n)
    BY ONLY <2>2, <2>3, DigitsAs, p \in Seq(DigitSymbols)
  <2>5. Read(Stripped(p), b) = n
    BY ONLY <2>4, FramedItself, FramedReads
  <2>. QED  BY ONLY <2>2, <2>5
<1>6. ASSUME n < 0
      PROVE  Read(Stripped(<<"-">> \o Repeat("0", pad) \o Tail(s)), b) = n
  <2>1. PICK t : IsNumeral(t, b, -n) /\ s = <<"-">> \o t
    BY <1>6 DEF IsSignedNumeral
  <2>2. t \in Seq(DigitSymbols) /\ Len(t) >= 1 /\ Value(t, b) = -n /\ Len(t) \in Nat
    BY ONLY <2>1, LenProperties DEF IsNumeral
  <2>3. Tail(s) = t
    BY ONLY <2>1, <2>2, SignedAs
  <2>4. PICK u \in Seq(DigitSymbols) : u = Repeat("0", pad) \o t /\ Value(u, b) = -n
    <3>1. /\ Repeat("0", pad) \o t \in Seq(DigitSymbols)
          /\ Value(Repeat("0", pad) \o t, b) = Value(t, b)
      BY ONLY <2>2, ValueOfZeros, pad \in Nat, b \in Nat
    <3>. QED  BY ONLY <2>2, <3>1
  <2>5. Len(u) >= 1
    <3>1. "0" \in DigitSymbols
      BY DEF DigitSymbols
    <3>2. BehindMany(Repeat("0", pad) \o t, "0", pad, t)
      BY ONLY <2>2, <3>1, RepeatJoined, pad \in Nat
    <3>3. Len(u) = pad + Len(t)
      BY ONLY <2>4, <3>2 DEF BehindMany
    <3>. QED  BY <2>2, <3>3
  <2>6. ReadsAs(<<"-">> \o u, b, -Value(u, b))
    BY ONLY <2>5, SignedAs, u \in Seq(DigitSymbols)
  <2>7. -(-n) = n
    OBVIOUS
  <2>8. ReadsAs(<<"-">> \o u, b, n)
    BY ONLY <2>4, <2>6, <2>7
  <2>9. Read(Stripped(<<"-">> \o u), b) = n
    BY ONLY <2>8, FramedItself, FramedReads
  <2>10. <<"-">> \o u = (<<"-">> \o Repeat("0", pad)) \o t
    <3>1. PICK x \in Seq(Symbol), y \in Seq(Symbol), z \in Seq(Symbol) :
            x = <<"-">> /\ y = Repeat("0", pad) /\ z = t
      <4>1. <<"-">> \in Seq(Symbol)
        BY <1>0, OneSymbol
      <4>2. Repeat("0", pad) \in Seq(Symbol)
        BY <1>0, RepeatType
      <4>3. t \in Seq(Symbol)
        BY <2>2, SymbolAssumption, SeqMonotonic
      <4>. QED  BY ONLY <4>1, <4>2, <4>3
    <3>2. (x \o y) \o z = x \o (y \o z)
      BY ONLY x \in Seq(Symbol), y \in Seq(Symbol), z \in Seq(Symbol), ConcatAssociative, SMTT(30)
    <3>. QED  BY ONLY <2>4, <3>1, <3>2
  <2>. QED  BY ONLY <2>3, <2>9, <2>10
<1>. QED  BY <1>1, <1>3, <1>4, <1>5, <1>6

\* What the field of a number reads as, and how wide it is.
FieldReads(p, d, b, n) ==
  /\ Read(Stripped(p), b) = n
  /\ Len(p) >= d.width
  /\ Len(p) > d.width => /\ p[1] # " " /\ Last(p) # " "
                         /\ p[1] = "0" => Len(p) = 1

\* print_number keeps the number, and the field is as wide as asked for.
LEMMA FieldIs ==
  ASSUME NEW d \in Directives, NEW b \in Nat, NEW n \in Int, NEW s, IsSignedNumeral(s, b, n)
  PROVE  FieldReads(print_number(d, s), d, b, n)
<1>0. PICK blank \in Symbol, zero \in Symbol, sign \in Symbol :
        blank = " " /\ zero = "0" /\ sign = "-"
  BY SymbolAssumption DEF OtherSymbols, DigitSymbols
<1>1. ReadsAs(s, b, n) /\ (s[1] = "0" => Len(s) = 1) /\ (s[1] = "-" <=> n < 0)
  BY SignedNumeralReads
<1>2. s \in Seq(Symbol) /\ Len(s) >= 1 /\ Len(s) \in Nat /\ s[1] # " " /\ s[Len(s)] # " "
  BY ONLY <1>1, LenProperties DEF ReadsAs
<1>3. PICK pad \in Nat, m \in Nat, w \in Int :
        /\ m = Len(s) /\ w = d.width /\ pad = Pad(d, m) /\ m + pad >= w
        /\ pad > 0 => m + pad = w
  <2>1. PICK m \in Nat : m = Len(s)
    BY <1>2
  <2>2. Pad(d, m) \in Nat /\ m + Pad(d, m) >= d.width /\ (Pad(d, m) > 0 => m + Pad(d, m) = d.width)
    BY ONLY PadIs, d \in Directives, m \in Nat
  <2>3. d.width \in Int
    BY IntsAre DEF Directives
  <2>. QED  BY ONLY <2>1, <2>2, <2>3, m \in Nat
<1>4. s # <<>>
  <2>1. Len(<<>>) = 0 /\ ~(0 >= 1)
    OBVIOUS
  <2>. QED  BY ONLY <1>2, <2>1
<1>5. CASE pad = 0
  <2>1. Repeat(" ", 0) \o s = s /\ Repeat("0", 0) \o s = s /\ s \o Repeat(" ", 0) = s
    <3>1. s \in Seq(Symbol)
      BY ONLY <1>2
    <3>2. Repeat(blank, 0) \o s = s /\ Repeat(zero, 0) \o s = s /\ s \o Repeat(blank, 0) = s
      BY ONLY <3>1, NoPadding, blank \in Symbol, zero \in Symbol
    <3>. QED  BY ONLY <1>0, <3>2
  <2>2. print_number(d, s) = s
    <3>1. Pad(d, Len(s)) = 0 /\ ~(0 > 0)
      BY ONLY <1>3, <1>5
    <3>. QED  BY ONLY <2>1, <3>1 DEF print_number
  <2>3. Read(Stripped(s), b) = n
    BY ONLY <1>1, FramedItself, FramedReads
  <2>4. Len(s) >= d.width
    <3>1. m >= w
      BY ONLY <1>3, <1>5, m \in Nat, w \in Int
    <3>. QED  BY ONLY <1>3, <3>1
  <2>5. Last(s) # " "
    BY ONLY <1>2 DEF Last
  <2>. QED  BY ONLY <1>1, <1>2, <2>2, <2>3, <2>4, <2>5 DEF FieldReads
<1>6. CASE pad > 0
  <2>1. PICK p \in Seq(Symbol) : p = print_number(d, s)
    <3>1. s \in Seq(Symbol) /\ s # <<>>
      BY <1>2, <1>4
    <3>2. s \in Numerals
      BY ONLY <3>1 DEF Numerals
    <3>. QED  BY <3>2, FieldType
  <2>2. /\ Read(Stripped(s \o Repeat(" ", pad)), b) = n
        /\ Read(Stripped(Repeat(" ", pad) \o s), b) = n
        /\ n >= 0 => Read(Stripped(Repeat("0", pad) \o s), b) = n
        /\ n < 0 => Read(Stripped(<<"-">> \o Repeat("0", pad) \o Tail(s)), b) = n
    BY <1>6, PaddedReads
  <2>3. /\ Len(s \o Repeat(" ", pad)) = Len(s) + pad
        /\ Len(Repeat(" ", pad) \o s) = pad + Len(s)
        /\ Len(Repeat("0", pad) \o s) = pad + Len(s)
    <3>0. s \in Seq(Symbol)
      BY ONLY <1>2
    <3>1. Len(s \o Repeat(blank, pad)) = Len(s) + pad
      BY ONLY <3>0, RepeatJoined, pad \in Nat, blank \in Symbol
    <3>2. BehindMany(Repeat(blank, pad) \o s, blank, pad, s)
      BY ONLY <3>0, RepeatJoined, pad \in Nat, blank \in Symbol
    <3>3. BehindMany(Repeat(zero, pad) \o s, zero, pad, s)
      BY ONLY <3>0, RepeatJoined, pad \in Nat, zero \in Symbol
    <3>. QED  BY ONLY <1>0, <3>1, <3>2, <3>3 DEF BehindMany
  <2>4. Len(<<"-">> \o Repeat("0", pad) \o Tail(s)) = Len(s) + pad
    <3>1. <<"-">> \in Seq(Symbol) /\ Len(<<"-">>) = 1
      BY <1>0, OneSymbol
    <3>2. Repeat("0", pad) \in Seq(Symbol) /\ Len(Repeat("0", pad)) = pad
      <4>1. Repeat("0", pad) \in Seq(Symbol)
        BY <1>0, RepeatType
      <4>2. Repeat("0", pad) \in [1 .. pad -> {"0"}]
        BY DEF Repeat
      <4>. QED  BY <4>1, <4>2, LenProperties
    <3>3. Tail(s) \in Seq(Symbol) /\ Len(Tail(s)) = Len(s) - 1
      <4>1. s \in Seq(Symbol) /\ s # <<>>
        BY <1>2, <1>4
      <4>. QED  BY ONLY <4>1, HeadTailProperties
    <3>4. <<"-">> \o Repeat("0", pad) \in Seq(Symbol)
          /\ Len(<<"-">> \o Repeat("0", pad)) = 1 + pad
      BY ONLY <3>1, <3>2, ConcatProperties
    <3>5. Len(<<"-">> \o Repeat("0", pad) \o Tail(s)) = (1 + pad) + (Len(s) - 1)
      <4>1. PICK x \in Seq(Symbol), y \in Seq(Symbol) :
              /\ x = <<"-">> \o Repeat("0", pad) /\ y = Tail(s)
              /\ Len(x) = 1 + pad /\ Len(y) = Len(s) - 1
        BY ONLY <3>3, <3>4
      <4>2. Len(x \o y) = Len(x) + Len(y)
        BY ONLY ConcatProperties, x \in Seq(Symbol), y \in Seq(Symbol)
      <4>. QED  BY ONLY <4>1, <4>2
    <3>6. (1 + pad) + (m - 1) = m + pad
      OBVIOUS
    <3>. QED  BY ONLY <1>3, <3>5, <3>6
  <2>5. \/ p = s \o Repeat(" ", pad) \/ p = Repeat(" ", pad) \o s
        \/ p = Repeat("0", pad) \o s /\ s[1] # "-"
        \/ p = <<"-">> \o Repeat("0", pad) \o Tail(s) /\ s[1] = "-"
    BY ONLY <1>3, <1>6, <2>1 DEF print_number
  <2>6. pad + m = m + pad
    OBVIOUS
  <2>7. Len(p) = m + pad
    BY ONLY <1>3, <2>3, <2>4, <2>5, <2>6
  <2>8. Read(Stripped(p), b) = n
    <3>1. ~(n < 0) => n >= 0
      OBVIOUS
    <3>. QED  BY ONLY <1>1, <2>2, <2>5, <3>1
  <2>9. Len(p) = d.width
    BY ONLY <1>3, <1>6, <2>7
  <2>10. Len(p) \in Nat
    BY <2>7
  <2>11. Len(p) >= d.width /\ ~(Len(p) > d.width)
    BY ONLY <2>9, <2>10
  <2>. QED  BY ONLY <2>1, <2>8, <2>11 DEF FieldReads
<1>. QED  BY <1>3, <1>5, <1>6

-----------------------------------------------------------------------------
(* The value that a directive converts its argument to *)

\* What a sum of a multiple and a remainder is divided into.
LEMMA QuotientIs ==
  ASSUME NEW q \in Nat, NEW b \in Nat \ {0}, NEW d \in 0 .. b - 1
  PROVE  (q * b + d) \div b = q /\ (q * b + d) % b = d
OBVIOUS

\* Division with remainder.
LEMMA Division ==
  ASSUME NEW b \in Nat \ {0}, NEW x \in Nat
  PROVE  \E q \in Nat, d \in 0 .. b - 1 : x = q * b + d /\ x % b = d
<1>. DEFINE S == {n \in 0 .. x : \E q \in Nat, d \in 0 .. b - 1 : n = q * b + d}
<1>1. 0 \in S
  <2>1. 0 \in 0 .. b - 1 /\ 0 = 0 * b + 0 /\ 0 \in 0 .. x
    OBVIOUS
  <2>. QED  BY <2>1
<1>2. ASSUME NEW n \in 0 .. x - 1, n \in S
      PROVE  n + 1 \in S
  <2>1. PICK q \in Nat, d \in 0 .. b - 1 : n = q * b + d
    BY <1>2
  <2>2. n + 1 \in 0 .. x
    OBVIOUS
  <2>3. \E p \in Nat, e \in 0 .. b - 1 : n + 1 = p * b + e
    <3>1. CASE d + 1 < b
      <4>1. PICK e \in 0 .. b - 1 : e = d + 1
        BY <3>1
      <4>2. PICK m \in Nat : m = q * b
        OBVIOUS
      <4>3. (m + d) + 1 = m + (d + 1)
        OBVIOUS
      <4>4. n + 1 = q * b + e
        BY ONLY <2>1, <4>1, <4>2, <4>3
      <4>. QED  BY <4>4
    <3>2. CASE d + 1 = b
      <4>1. PICK p \in Nat, e \in 0 .. b - 1 : p = q + 1 /\ e = 0
        OBVIOUS
      <4>2. (q + 1) * b = q * b + b
        OBVIOUS
      <4>3. PICK m \in Nat : m = q * b
        OBVIOUS
      <4>4. (m + d) + 1 = (m + b) + 0
        BY <3>2
      <4>5. n + 1 = p * b + e
        BY ONLY <2>1, <4>1, <4>2, <4>3, <4>4
      <4>. QED  BY <4>5
    <3>3. d + 1 < b \/ d + 1 = b
      OBVIOUS
    <3>. QED  BY ONLY <3>1, <3>2, <3>3
  <2>. QED  BY <2>2, <2>3
<1>. HIDE DEF S
<1>3. 0 .. x \subseteq S
  BY <1>1, <1>2, Count
<1>4. PICK q \in Nat, d \in 0 .. b - 1 : x = q * b + d
  BY <1>3 DEF S
<1>5. x % b = d
  BY ONLY <1>4, QuotientIs, q \in Nat, d \in 0 .. b - 1, b \in Nat \ {0}
<1>. QED  BY <1>4, <1>5

\* A multiple leaves no remainder, a negative one neither.
LEMMA MultipleIs ==
  ASSUME NEW q \in Nat, NEW b \in Nat \ {0}
  PROVE  (-(q * b)) % b = 0
OBVIOUS

\* A number below the modulus is its own remainder.
LEMMA SmallRemainder ==
  ASSUME NEW b \in Nat \ {0}, NEW x \in 0 .. b - 1
  PROVE  x % b = x
<1>1. 0 * b + x = x
  OBVIOUS
<1>2. (0 * b + x) % b = x
  BY ONLY QuotientIs, b \in Nat \ {0}, x \in 0 .. b - 1, 0 \in Nat
<1>. QED  BY ONLY <1>1, <1>2

\* The type of an argument has an even number of values, as many as long at most.
LEMMA ValuesAre ==
  ASSUME NEW d \in Directives
  PROVE  \E t \in Nat \ {0}, h \in Nat, l \in Nat :
           /\ t = Values(d) /\ h = t \div 2 /\ t = h + h /\ l = LONG /\ t <= l
           /\ <<INT, SHORT, LONG, LONG>>[d.length_mod + 1] = t
<1>1. /\ SHORT \in Nat \ {0} /\ INT \in Nat \ {0} /\ LONG \in Nat \ {0}
      /\ SHORT % 2 = 0 /\ INT % 2 = 0 /\ LONG % 2 = 0 /\ SHORT <= INT /\ INT <= LONG
  BY WidthAssumption
<1>2. d.length_mod \in {0, 1, 2, 3}
  BY DEF Directives
<1>3. <<INT, SHORT, LONG, LONG>>[d.length_mod + 1] = Values(d)
  BY ONLY <1>2 DEF Values
<1>4. Values(d) \in {SHORT, INT, LONG}
  BY ONLY <1>2 DEF Values
<1>5. PICK t \in Nat \ {0} : t = Values(d) /\ t % 2 = 0 /\ t <= LONG
  BY ONLY <1>1, <1>4
<1>6. t \div 2 \in Nat /\ t = t \div 2 + t \div 2
  BY ONLY <1>5, t \in Nat \ {0}
<1>. QED  BY ONLY <1>1, <1>3, <1>5, <1>6, t \in Nat \ {0}

\* Value v is n converted to a type with t values, of which the first one above
\* its range is bound.
Converts(v, n, t, bound) ==
  v \in Int /\ v < bound /\ v >= bound - t /\ (v - n) % t = 0

\* An unsigned value is below the number of values, and differs from the argument
\* by a multiple of it.
LEMMA UnsignedIs ==
  ASSUME NEW d \in Directives, NEW n \in Nat
  PROVE  Unsigned(n, d) \in Nat /\ Converts(Unsigned(n, d), n, Values(d), Values(d))
<1>1. PICK t \in Nat \ {0} : t = Values(d)
  BY ValuesAre
<1>2. PICK q \in Nat, r \in 0 .. t - 1 : n = q * t + r /\ n % t = r
  BY Division
<1>3. PICK m \in Nat : m = q * t
  OBVIOUS
<1>4. r - (m + r) = -m
  OBVIOUS
<1>5. (r - n) % t = 0
  <2>1. (-(q * t)) % t = 0
    BY ONLY MultipleIs, q \in Nat, t \in Nat \ {0}
  <2>. QED  BY ONLY <1>2, <1>3, <1>4, <2>1
<1>6. r \in Nat /\ r \in Int /\ r < t /\ r >= t - t
  OBVIOUS
<1>7. Unsigned(n, d) = r
  BY <1>1, <1>2 DEF Unsigned
<1>. QED  BY ONLY <1>1, <1>5, <1>6, <1>7 DEF Converts

\* A signed value lies in the range of the type, and differs from the argument by
\* a multiple of the number of its values; its negation fits in an unsigned long.
LEMMA SignedIs ==
  ASSUME NEW d \in Directives, NEW n \in Nat
  PROVE  /\ Signed(n, d) \in Int
         /\ Converts(Signed(n, d), n, Values(d), Values(d) \div 2)
         /\ Signed(n, d) < 0 => (-Signed(n, d)) % LONG = -Signed(n, d)
<1>1. PICK t \in Nat \ {0}, h \in Nat, l \in Nat :
        t = Values(d) /\ h = t \div 2 /\ t = h + h /\ l = LONG /\ t <= l
  BY ValuesAre
<1>2. PICK x \in Nat : x = n + h
  OBVIOUS
<1>3. PICK q \in Nat, r \in 0 .. t - 1 : x = q * t + r /\ x % t = r
  BY Division
<1>4. PICK m \in Nat : m = q * t
  OBVIOUS
<1>5. PICK v \in Int : v = r - h
  OBVIOUS
<1>6. v - n = -m
  BY <1>2, <1>3, <1>4, <1>5
<1>7. (v - n) % t = 0
  <2>1. (-(q * t)) % t = 0
    BY ONLY MultipleIs, q \in Nat, t \in Nat \ {0}
  <2>. QED  BY ONLY <1>4, <1>6, <2>1
<1>8. v < h /\ v >= h - t
  <2>1. t = h + h /\ v = r - h
    BY ONLY <1>1, <1>5
  <2>2. r \in Nat /\ r < t
    BY ONLY r \in 0 .. t - 1, t \in Nat \ {0}
  <2>. QED  BY ONLY <2>1, <2>2, h \in Nat
<1>9. Signed(n, d) = v
  BY ONLY <1>1, <1>2, <1>3, <1>5 DEF Signed
<1>10. ASSUME v < 0
       PROVE  (-v) % l = -v
  <2>1. PICK y \in 0 .. l - 1 : y = -v
    <3>1. -v \in 0 .. l - 1
      BY ONLY <1>1, <1>8, <1>10, v \in Int, h \in Nat, t \in Nat \ {0}, l \in Nat
    <3>. QED  BY ONLY <3>1
  <2>2. l \in Nat \ {0}
    BY <1>1
  <2>. QED  BY ONLY <2>1, <2>2, SmallRemainder
<1>. QED  BY ONLY <1>1, <1>7, <1>8, <1>9, <1>10, v \in Int DEF Converts

\* The signed numeral of a value, also of the least one.
LEMMA SignedNumeralIs ==
  ASSUME NEW v \in Int, v < 0 => (-v) % LONG = -v
  PROVE  IsSignedNumeral(ll_to_base(v, 10), 10, v)
<1>0. PICK ten \in {10, 16}, no \in BOOLEAN : ten = 10 /\ no = FALSE
  OBVIOUS
<1>1. CASE v >= 0
  <2>1. v \in Nat /\ ~(v < 0)
    BY <1>1
  <2>2. IsNumeral(ull_to_base(v, ten, no), ten, v)
    BY ONLY <2>1, NumeralReads, ten \in {10, 16}, no \in BOOLEAN
  <2>. QED  BY ONLY <1>0, <1>1, <2>1, <2>2 DEF ll_to_base, IsSignedNumeral
<1>2. CASE v < 0
  <2>1. PICK n \in Nat : n = -v
    <3>1. -v \in Nat
      BY <1>2
    <3>. QED  BY <3>1
  <2>2. IsNumeral(ull_to_base(n, ten, no), ten, n)
    BY ONLY NumeralReads, n \in Nat, ten \in {10, 16}, no \in BOOLEAN
  <2>3. ll_to_base(v, 10) = <<"-">> \o ull_to_base(n, ten, no)
    BY ONLY <1>0, <1>2, <2>1, v < 0 => (-v) % LONG = -v DEF ll_to_base
  <2>. QED  BY ONLY <1>0, <1>2, <2>1, <2>2, <2>3 DEF IsSignedNumeral
<1>. QED  BY <1>1, <1>2

\* The base in which a directive prints, and the first number above the range
\* of its type.
BaseOf(spec) == IF spec \in {"x", "X"} THEN 16 ELSE 10
BoundOf(spec, t) == IF spec \in {"d", "i"} THEN t \div 2 ELSE t

\* A numeric directive prints the field of the number that the argument is when
\* it is converted.
LEMMA TextReads ==
  ASSUME NEW spec \in {"d", "i", "u", "x", "X"}, NEW a \in Arguments, dir \in Directives
  PROVE  \E v \in Int : /\ FieldReads(Text(spec, a), dir, BaseOf(spec), v)
                        /\ Converts(v, a.number, Values(dir), BoundOf(spec, Values(dir)))
<1>1. PICK n \in Nat : n = a.number
  BY CallAssumption DEF Arguments
<1>2. CASE spec \in {"d", "i"}
  <2>1. PICK v \in Int : /\ v = Signed(n, dir)
                         /\ Converts(v, n, Values(dir), Values(dir) \div 2)
                         /\ v < 0 => (-v) % LONG = -v
    BY SignedIs
  <2>2. IsSignedNumeral(ll_to_base(v, 10), 10, v)
    BY ONLY <2>1, SignedNumeralIs, v \in Int
  <2>3. FieldReads(print_number(dir, ll_to_base(v, 10)), dir, 10, v)
    BY ONLY <2>2, FieldIs, dir \in Directives, v \in Int, 10 \in Nat
  <2>4. Text(spec, a) = print_number(dir, ll_to_base(v, 10))
    BY ONLY <1>1, <1>2, <2>1 DEF Text
  <2>5. BaseOf(spec) = 10 /\ BoundOf(spec, Values(dir)) = Values(dir) \div 2
    BY ONLY <1>2 DEF BaseOf, BoundOf
  <2>. QED  BY ONLY <1>1, <2>1, <2>3, <2>4, <2>5, v \in Int
<1>3. CASE spec \in {"u", "x", "X"}
  <2>1. PICK v \in Nat : v = Unsigned(n, dir) /\ Converts(v, n, Values(dir), Values(dir))
    BY UnsignedIs
  <2>2. PICK b \in {10, 16}, up \in BOOLEAN : b = BaseOf(spec) /\ up = (spec = "X")
    <3>1. BaseOf(spec) \in {10, 16} /\ (spec = "X") \in BOOLEAN
      BY DEF BaseOf
    <3>. QED  BY ONLY <3>1
  <2>3. IsNumeral(ull_to_base(v, b, up), b, v)
    BY ONLY NumeralReads, v \in Nat, b \in {10, 16}, up \in BOOLEAN
  <2>4. v \in Int /\ v >= 0 /\ b \in Nat
    OBVIOUS
  <2>5. IsSignedNumeral(ull_to_base(v, b, up), b, v)
    BY ONLY <2>3, <2>4 DEF IsSignedNumeral
  <2>6. FieldReads(print_number(dir, ull_to_base(v, b, up)), dir, b, v)
    BY ONLY <2>4, <2>5, FieldIs, dir \in Directives
  <2>7. Text(spec, a) = print_number(dir, ull_to_base(v, b, up))
    <3>1. CASE spec = "u"
      BY ONLY <1>1, <2>1, <2>2, <3>1 DEF Text, BaseOf
    <3>2. CASE spec \in {"x", "X"}
      BY ONLY <1>1, <2>1, <2>2, <3>2 DEF Text, BaseOf
    <3>. QED  BY ONLY <1>3, <3>1, <3>2
  <2>8. BoundOf(spec, Values(dir)) = Values(dir)
    BY ONLY <1>3 DEF BoundOf
  <2>. QED  BY ONLY <1>1, <2>1, <2>2, <2>4, <2>6, <2>7, <2>8
<1>. QED  BY <1>2, <1>3

\* So it prints its argument.
LEMMA TextPrints ==
  ASSUME NEW spec \in {"d", "i", "u", "x", "X"}, NEW a \in Arguments, dir \in Directives
  PROVE  Prints(spec, a.number, Text(spec, a))
<1>1. PICK v \in Int : /\ FieldReads(Text(spec, a), dir, BaseOf(spec), v)
                       /\ Converts(v, a.number, Values(dir), BoundOf(spec, Values(dir)))
  BY TextReads
<1>2. <<INT, SHORT, LONG, LONG>>[dir.length_mod + 1] = Values(dir)
  BY ValuesAre
<1>3. PICK piece : piece = Text(spec, a)
  OBVIOUS
<1>4. Read(Stripped(piece), BaseOf(spec)) = v
  BY ONLY <1>1, <1>3 DEF FieldReads
<1>. QED  BY ONLY <1>1, <1>2, <1>3, <1>4 DEF Prints, FieldReads, Converts, BaseOf, BoundOf

\* What is put out without a refusal comes behind what was.
LEMMA EmitAppends ==
  ASSUME IInv, pc \in Running, NEW s \in Seq(Symbol), Emit(s), ~refused'
  PROVE  SubSeq(out', Len(out) + 1, Len(out')) = s
<1>1. out' = out \o s
  BY DEF Emit
<1>2. PICK o \in Seq(Symbol) : o = out
  BY DEF IInv, Counted, Sofar
<1>3. PICK n \in Nat, m \in Nat : n = Len(o) /\ m = Len(s)
  OBVIOUS
<1>4. PICK t \in Seq(Symbol) : t = o \o s /\ Len(t) = n + m
  <2>1. o \o s \in Seq(Symbol) /\ Len(o \o s) = n + m
    BY ONLY <1>3, ConcatProperties, o \in Seq(Symbol), s \in Seq(Symbol)
  <2>. QED  BY ONLY <2>1
<1>5. PICK x \in Int, y \in Int : x = n + 1 /\ y = n + m
  OBVIOUS
<1>6. \A i \in x .. y : t[i] \in Symbol
  <2>1. ASSUME NEW i \in x .. y
        PROVE  t[i] \in Symbol
    <3>1. i \in 1 .. Len(t)
      BY <1>4, <1>5
    <3>. QED  BY ONLY <3>1, t \in Seq(Symbol), ElementOfSeq
  <2>. QED  BY <2>1
<1>7. PICK u \in Seq(Symbol) : u = SubSeq(t, x, y)
  BY ONLY <1>6, x \in Int, y \in Int, SubSeqProperties
<1>8. Len(u) = m
  <2>1. Len(SubSeq(t, x, y)) = IF x <= y THEN y - x + 1 ELSE 0
    BY ONLY <1>6, x \in Int, y \in Int, SubSeqProperties
  <2>2. (IF x <= y THEN y - x + 1 ELSE 0) = m
    BY ONLY <1>5, n \in Nat, m \in Nat, x \in Int, y \in Int
  <2>. QED  BY ONLY <1>7, <2>1, <2>2
<1>9. ASSUME NEW i \in 1 .. m
      PROVE  u[i] = s[i]
  <2>1. i \in 1 .. y - x + 1 /\ x + i - 1 = n + i
    BY ONLY <1>5, n \in Nat, m \in Nat, x \in Int, y \in Int, i \in 1 .. m
  <2>2. SubSeq(t, x, y)[i] = t[x + i - 1]
    BY ONLY <1>6, <2>1, x \in Int, y \in Int, SubSeqProperties
  <2>3. t[n + i] = s[i]
    BY ONLY <1>3, <1>4, ConcatProperties, o \in Seq(Symbol), s \in Seq(Symbol), i \in 1 .. m,
            n \in Nat, m \in Nat
  <2>. QED  BY ONLY <1>7, <2>1, <2>2, <2>3
<1>10. u = s
  BY ONLY <1>3, <1>8, <1>9, u \in Seq(Symbol), s \in Seq(Symbol), SeqEqual
<1>. QED  BY ONLY <1>1, <1>2, <1>3, <1>4, <1>5, <1>7, <1>10

\* Every numeric directive prints its argument, converted to the type the length
\* modifier names, so that reading it gives the number again, in a field as wide
\* as asked for, or just as wide as the numeral.
THEOREM NumbersReadBackAlways == Spec => NumbersReadBack
<1>1. IInv /\ [Next]_vars
        => [Convert /\ ~refused' /\ Head(format) \in {"d", "i", "u", "x", "X"}
              => Prints(Head(format), Head(args).number,
                        SubSeq(out', Len(out) + 1, Len(out')))]_vars
  <2>. SUFFICES ASSUME IInv, Convert, ~refused', Head(format) \in {"d", "i", "u", "x", "X"}
                PROVE  Prints(Head(format), Head(args).number,
                              SubSeq(out', Len(out) + 1, Len(out')))
    OBVIOUS
  <2>1. /\ InDirective /\ format # <<>> /\ Emit(Text(Head(format), Head(args)))
        /\ Skip
    BY DEF Convert, AtSpecifier, Next_is, InDirective
  <2>2. Head(args) \in Arguments /\ pc \in Running /\ dir \in Directives
    <3>1. Len(args) \in Nat /\ Percents(format) \in Nat /\ Percents(format) < Len(args)
      BY <2>1, InDirectiveHas, SkipKeeps
    <3>2. args # <<>> /\ args \in Seq(Arguments)
      BY <2>1, <3>1, InDirectiveHas
    <3>3. Head(args) \in Arguments
      BY ONLY <3>2, HeadTailProperties
    <3>. QED  BY <2>1, <3>3, InDirectiveHas DEF IInv
  <2>3. PICK spec \in {"d", "i", "u", "x", "X"}, a \in Arguments :
          spec = Head(format) /\ a = Head(args)
    BY <2>2
  <2>4. Text(spec, a) \in Seq(Symbol)
    <3>1. spec \in TakesArgument
      BY DEF TakesArgument
    <3>. QED  BY <2>2, <3>1, TextType
  <2>5. SubSeq(out', Len(out) + 1, Len(out')) = Text(spec, a)
    BY <2>1, <2>2, <2>3, <2>4, EmitAppends
  <2>6. Prints(spec, a.number, Text(spec, a))
    BY <2>2, TextPrints
  <2>. QED  BY ONLY <2>3, <2>5, <2>6
<1>. QED  BY <1>1, Invariance, PTL DEF Spec, NumbersReadBack

=============================================================================
