-------------------------------- MODULE Strings --------------------------------
(***************************************************************************)
(* The functions of kernel/std/string.c, as operators on a memory m: a     *)
(* sequence of bytes, whose indices are the addresses. Address 0 is the    *)
(* null pointer. An address outside of m has no value, so that a function  *)
(* that reads one is an error of the model; a byte written there is not    *)
(* seen again.                                                             *)
(***************************************************************************)
EXTENDS Integers, Sequences, FiniteSetsExt, SequencesExt

NULL == 0

\* How often a loop runs that ends at the first i for which Stop(i).
Until(Stop(_)) == LET run[i \in Nat] == IF Stop(i) THEN i ELSE run[i + 1] IN run[0]

UpTo(n) == [k \in 1 .. n |-> k - 1]

\* A byte read through a char*, which is signed.
Char(b) == IF b >= 128 THEN b - 256 ELSE b

\* Bytes copied one after the other, at these offsets, in this order.
Copy(m, d, s, offsets) == FoldLeft(LAMBDA mm, i : [mm EXCEPT ![d + i] = mm[s + i]], m, offsets)

-----------------------------------------------------------------------------
(* Searching and comparing *)

strlen(m, s) == Until(LAMBDA i : m[s + i] = 0)
strnlen(m, s, maxlen) == Until(LAMBDA i : m[s + i] = 0 \/ i = maxlen)

memcmp(m, s1, s2, n) ==
  LET k == Until(LAMBDA i : i = n \/ m[s1 + i] # m[s2 + i])
  IN IF k = n THEN 0 ELSE m[s1 + k] - m[s2 + k]

strcmp(m, s1, s2) ==
  LET k == Until(LAMBDA i : m[s1 + i] = 0 \/ m[s1 + i] # m[s2 + i])
  IN m[s1 + k] - m[s2 + k]

Compared(m, s1, s2, most) ==
  LET k == Until(LAMBDA i : i = most \/ m[s1 + i] = 0 \/ m[s1 + i] # m[s2 + i])
  IN m[s1 + k] - m[s2 + k]
strncmp_OneMore(m, s1, s2, n) == IF n = 0 THEN 0 ELSE Compared(m, s1, s2, n)
strncmp(m, s1, s2, n) == IF n = 0 THEN 0 ELSE Compared(m, s1, s2, n - 1)

\* c is compared with the unsigned byte here, with the signed one below.
memchr(m, s, c, n) ==
  LET k == Until(LAMBDA i : i = n \/ m[s + i] = c)
  IN IF k = n THEN NULL ELSE s + k

strchr(m, s, c) ==
  LET k == Until(LAMBDA i : m[s + i] = 0 \/ Char(m[s + i]) = c)
  IN IF Char(m[s + k]) = c THEN s + k ELSE NULL

strrchr(m, s, c) ==
  FoldLeft(LAMBDA found, i : IF Char(m[s + i]) = c THEN s + i ELSE found,
           NULL, UpTo(strlen(m, s) + 1))

CharsOf(m, s) == {m[s + i] : i \in 0 .. strlen(m, s) - 1}
strspn(m, s, accept) == Until(LAMBDA i : m[s + i] \notin CharsOf(m, accept))
strcspn(m, s, reject) == Until(LAMBDA i : m[s + i] = 0 \/ m[s + i] \in CharsOf(m, reject))
strpbrk(m, s, accept) ==
  LET k == strcspn(m, s, accept) IN IF m[s + k] = 0 THEN NULL ELSE s + k

strstr(m, haystack, needle) ==
  LET Matched(h) ==
        Until(LAMBDA j : m[h + j] = 0 \/ m[needle + j] = 0 \/ m[h + j] # m[needle + j])
      Found(h) == m[needle + Matched(h)] = 0
      k == Until(LAMBDA i : Found(haystack + i) \/ m[haystack + i] = 0)
  IN IF Found(haystack + k) THEN haystack + k ELSE NULL

-----------------------------------------------------------------------------
(* Copying: the memory afterwards *)

memcpy(m, d, s, n) == Copy(m, d, s, UpTo(n))
memmove_Upwards(m, d, s, n) == Copy(m, d, s, UpTo(n))
memmove(m, d, s, n) == Copy(m, d, s, IF d < s THEN UpTo(n) ELSE Reverse(UpTo(n)))
memset(m, s, c, n) == FoldLeft(LAMBDA mm, i : [mm EXCEPT ![s + i] = c % 256], m, UpTo(n))

strcpy(m, d, s) == Copy(m, d, s, UpTo(strlen(m, s) + 1))

\* The terminator that is copied does not count: one more is written to fill.
strncpy(m, d, s, n) ==
  LET len == strlen(m, s)
      k == Min({len + 1, n})
  IN memset(Copy(m, d, s, UpTo(k)), d + k, 0, IF len < n THEN n - len ELSE 0)

strcat(m, d, s) == strcpy(m, d + strlen(m, d), s)

strncat(m, d, s, n) ==
  LET end == d + strlen(m, d)
      k == Min({strlen(m, s) + 1, n})
      copied == Copy(m, end, s, UpTo(k))
  IN IF strlen(m, s) < n THEN copied ELSE [copied EXCEPT ![end + n] = 0]

-----------------------------------------------------------------------------
(* Tokens *)

\* last is the static variable of strtok; the result has its new value.
strtok_FromTheEnd(m, last, str, delim) ==
  LET start == IF str = NULL THEN last ELSE str
      from == start + strspn(m, start, delim)
      token_end == strpbrk(m, from, delim)
  IN IF start = NULL \/ m[from] = 0 THEN [mem |-> m, last |-> NULL, ret |-> NULL]
     ELSE IF token_end = NULL THEN [mem |-> m, last |-> NULL, ret |-> from]
     ELSE [mem |-> [m EXCEPT ![token_end] = 0], last |-> token_end, ret |-> from]
strtok(m, last, str, delim) ==
  LET start == IF str = NULL THEN last ELSE str
      from == start + strspn(m, start, delim)
      token_end == strpbrk(m, from, delim)
  IN IF start = NULL \/ m[from] = 0 THEN [mem |-> m, last |-> NULL, ret |-> NULL]
     ELSE IF token_end = NULL THEN [mem |-> m, last |-> NULL, ret |-> from]
     ELSE [mem |-> [m EXCEPT ![token_end] = 0], last |-> token_end + 1, ret |-> from]

-----------------------------------------------------------------------------
(* Classes of characters *)

isupper(c) == c \in 65 .. 90
islower(c) == c \in 97 .. 122
isdigit(c) == c \in 48 .. 57
isalpha(c) == isupper(c) \/ islower(c)
isalnum(c) == isalpha(c) \/ isdigit(c)
iscntrl(c) == c \in 0 .. 31 \/ c = 127
isgraph(c) == c \in 33 .. 126
isprint(c) == c \in 32 .. 126
isspace(c) == c = 32 \/ c \in 9 .. 13
ispunct(c) == isprint(c) /\ ~isalnum(c) /\ ~isspace(c)
isxdigit(c) == isdigit(c) \/ c \in 65 .. 70 \/ c \in 97 .. 102
tolower(c) == IF isupper(c) THEN c + 32 ELSE c
toupper(c) == IF islower(c) THEN c - 32 ELSE c

-----------------------------------------------------------------------------
(* Numbers, of a type with W values: int, long or long long *)

Minus == 45
Plus == 43
Wrap(n, W) == ((n + W \div 2) % W) - W \div 2

\* Division of C: the quotient is cut off, the remainder has the dividend's sign.
Quotient(n, base) == IF n < 0 THEN -((-n) \div base) ELSE n \div base
Remainder(n, base) == n - base * Quotient(n, base)

\* Where a number begins, after blanks, and where its digits do.
SignAt(m, str) == str + Until(LAMBDA i : ~isspace(Char(m[str + i])))
DigitsAt(m, str) ==
  LET p == SignAt(m, str) IN IF m[p] \in {Minus, Plus} THEN p + 1 ELSE p
Sign(m, str) == IF m[SignAt(m, str)] = Minus THEN -1 ELSE 1

\* Undefined when it overflows: the multiplication of the processor wraps.
atoi(m, str, W) ==
  LET p == DigitsAt(m, str)
      digits == UpTo(Until(LAMBDA i : ~isdigit(Char(m[p + i]))))
  IN Wrap(Sign(m, str) *
            FoldLeft(LAMBDA res, i : Wrap(res * 10 + (m[p + i] - 48), W), 0, digits), W)

reverse_Shifted(m, str, length) ==
  [a \in DOMAIN m |-> IF a \in str .. str + length - 2 THEN m[2 * str + length - 2 - a] ELSE m[a]]
reverse(m, str, length) ==
  [a \in DOMAIN m |-> IF a \in str .. str + length - 1 THEN m[2 * str + length - 1 - a] ELSE m[a]]

\* -num, undefined for the least number: it stays what it is, or the compiler
\* has made the division an unsigned one.
Negated(num, W) == IF num = -(W \div 2) THEN {num, -num} ELSE {-num}

\* The memories that may be left: several where -num is undefined.
itoa(m, num, str, base, W) ==
  LET negative == num < 0 /\ base = 10
      Digit(rem) == IF rem > 9 THEN rem - 10 + 97 ELSE rem + 48
      digits[n \in Int] == IF n = 0 THEN <<>>
                           ELSE <<Digit(Remainder(n, base))>> \o digits[Quotient(n, base)]
      Text(n) == IF n = 0 THEN <<48>> ELSE digits[n] \o (IF negative THEN <<Minus>> ELSE <<>>)
      Stored(text) == [a \in DOMAIN m |-> IF a \in str .. str + Len(text) - 1
                                          THEN text[a - str + 1]
                                          ELSE IF a = str + Len(text) THEN 0 ELSE m[a]]
  IN {reverse(Stored(Text(n)), str, Len(Text(n))) : n \in IF negative THEN Negated(num, W) ELSE {num}}

\* strtol and strtoll: the value, what *endptr becomes (NULL: it is left
\* alone), and whether the division by base 0 traps.
strtol(m, str, base, W) ==
  LET limit == IF Sign(m, str) = -1 THEN -(W \div 2) ELSE W \div 2 - 1
      DigitOf(c) == CASE isdigit(c) -> c - 48
                      [] isalpha(c) -> tolower(c) - 97 + 10
                      [] OTHER -> base
      Stops(a) == DigitOf(Char(m[a])) >= base
      Overflows(result, digit) ==
        LET overflow_threshold == Quotient(limit, base)
        IN \/ result < overflow_threshold
           \/ result = overflow_threshold /\ digit > Remainder(limit, base)
      read[a \in Nat, result \in Int] ==
        LET digit == DigitOf(Char(m[a]))
        IN IF Stops(a) THEN [value |-> result, end |-> a]
           ELSE IF Overflows(result, digit) THEN [value |-> limit, end |-> a]
           ELSE read[a + 1, Wrap(result * base + digit, W)]
      number == read[DigitsAt(m, str), 0]
  IN IF base < 0 \/ base = 1 \/ base > 36 THEN [value |-> 0, end |-> NULL, trap |-> FALSE]
     ELSE IF base = 0 THEN [value |-> 0, end |-> NULL, trap |-> TRUE]
     ELSE IF Stops(DigitsAt(m, str)) THEN [value |-> 0, end |-> str, trap |-> FALSE]
     ELSE [value |-> Wrap(Sign(m, str) * number.value, W), end |-> number.end, trap |-> FALSE]

=============================================================================
