----------------------------- MODULE StringCalls -----------------------------
(***************************************************************************)
(* Calls of the functions of kernel/std/string.c. The functions keep no    *)
(* state but the static variable of strtok, so a behaviour is one call     *)
(* from a memory, any number of calls of strtok by any callers, or a       *)
(* number that is written and read again. Calls that the C standard leaves *)
(* undefined for these functions (an overlap, no room, no terminator) are  *)
(* not made, except the overflows of the numbers.                          *)
(***************************************************************************)
EXTENDS Strings

CONSTANTS
  Texts,      \* memories for the calls on strings
  Numerals,   \* memories for the calls that read numbers
  Buffer,     \* the memory that numbers are printed into
  Pointers,   \* addresses passed as arguments
  Counts,     \* lengths passed as arguments
  Ints,       \* characters passed as int, for strchr, memset and the classes
  Bases,      \* bases passed to strtol and itoa
  Delim,      \* the address of the delimiters passed to strtok
  Types       \* the numbers of values of int, long and long long

ASSUME TypesAssumption == \A W \in Types : W \in Nat \ {0} /\ W % 2 = 0

\* Every pointer leads to a string that ends in the memory, and a text before
\* the delimiters ends before them.
ASSUME MemoryAssumption ==
  /\ Delim \in Nat /\ Delim > 1 /\ Pointers \subseteq Nat \ {0}
  /\ Counts \subseteq Nat /\ Ints \subseteq Int
  /\ \A m \in Texts : /\ m \in Seq(0 .. 255) /\ Delim <= Len(m)
                      /\ m[Delim - 1] = 0 /\ m[Len(m)] = 0
                      /\ \A p \in Pointers : p <= Len(m)

VARIABLES
  mem,     \* the memory
  last,    \* static variable of strtok
  call,    \* the call made last
  ret,     \* its result
  text,    \* the text handed to strtok last, with its address (history)
  tokens   \* the tokens of it that strtok has returned, likewise (history)

vars == <<mem, last, call, ret, text, tokens>>
history == <<text, tokens>>

NoCall == [fn |-> "none"]
NoText == [at |-> NULL, text |-> <<>>]

Init ==
  /\ mem \in Texts \cup Numerals \cup {Buffer}
  /\ last = NULL /\ call = NoCall /\ ret = 0
  /\ text = NoText /\ tokens = <<>>

\* The first call of a behaviour.
Fresh(memories) == call = NoCall /\ mem \in memories

-----------------------------------------------------------------------------
(* Strings and copies *)

\* The string at an address, without its terminator.
String(m, p) == SubSeq(m, p, Min({a \in p .. Len(m) : m[a] = 0}) - 1)

Room(p, n) == p + n - 1 <= Len(mem)
Apart(p, n, q, k) == p + n <= q \/ q + k <= p

\* What a call may be asked to do.
MayCopy(fn, d, s, n) ==
  LET len == Len(String(mem, s))
      end == d + Len(String(mem, d))
  IN CASE fn = "memcpy" -> Room(d, n) /\ Room(s, n) /\ Apart(d, n, s, n)
       [] fn = "memmove" -> Room(d, n) /\ Room(s, n)
       [] fn = "strcpy" -> Room(d, len + 1) /\ Apart(d, len + 1, s, len + 1)
       [] fn = "strncpy" -> Room(d, n) /\ Apart(d, n, s, Min({len + 1, n}))
       [] fn = "strcat" -> Room(end, len + 1) /\ Apart(d, end + len + 1 - d, s, len + 1)
       [] fn = "strncat" -> LET k == Min({len, n}) + 1
                            IN Room(end, k) /\ Apart(d, end + k - d, s, len + 1)

Copied(fn, d, s, n) ==
  CASE fn = "memcpy" -> memcpy(mem, d, s, n)
    [] fn = "memmove" -> memmove(mem, d, s, n)
    [] fn = "strcpy" -> strcpy(mem, d, s)
    [] fn = "strncpy" -> strncpy(mem, d, s, n)
    [] fn = "strcat" -> strcat(mem, d, s)
    [] fn = "strncat" -> strncat(mem, d, s, n)

CopyCall ==
  /\ Fresh(Texts)
  /\ \E fn \in {"memcpy", "memmove", "strcpy", "strncpy", "strcat", "strncat"} :
       \E d, s \in Pointers, n \in Counts :
         /\ MayCopy(fn, d, s, n)
         /\ mem' = Copied(fn, d, s, n)
         /\ call' = [fn |-> fn, d |-> d, s |-> s, n |-> n]
         /\ ret' = d
  /\ UNCHANGED <<last, history>>

SetCall ==
  /\ Fresh(Texts)
  /\ \E d \in Pointers, c \in Ints, n \in Counts :
       /\ Room(d, n)
       /\ mem' = memset(mem, d, c, n)
       /\ call' = [fn |-> "memset", d |-> d, c |-> c, n |-> n]
       /\ ret' = d
  /\ UNCHANGED <<last, history>>

-----------------------------------------------------------------------------
(* Questions *)

\* The result of a function that asks about the strings at p and q, or the
\* character c, at most n characters of them.
Answer(fn, p, q, c, n) ==
  CASE fn = "strlen" -> strlen(mem, p)
    [] fn = "strnlen" -> strnlen(mem, p, n)
    [] fn = "memcmp" -> memcmp(mem, p, q, n)
    [] fn = "strcmp" -> strcmp(mem, p, q)
    [] fn = "strncmp" -> strncmp(mem, p, q, n)
    [] fn = "memchr" -> memchr(mem, p, c, n)
    [] fn = "strchr" -> strchr(mem, p, c)
    [] fn = "strrchr" -> strrchr(mem, p, c)
    [] fn = "strspn" -> strspn(mem, p, q)
    [] fn = "strcspn" -> strcspn(mem, p, q)
    [] fn = "strpbrk" -> strpbrk(mem, p, q)
    [] fn = "strstr" -> strstr(mem, p, q)

\* An argument that a function does not have is 1.
Ask(fn, p, q, c, n) ==
  /\ ret' = Answer(fn, p, q, c, n)
  /\ call' = [fn |-> fn, p |-> p, q |-> q, c |-> c, n |-> n]
  /\ UNCHANGED <<mem, last, history>>

Question ==
  /\ Fresh(Texts)
  /\ \E p, q \in Pointers, c \in Ints, n \in Counts :
       \/ Ask("strlen", p, 1, 1, 1)
       \/ Ask("strnlen", p, 1, 1, n)
       \/ Room(p, n) /\ Room(q, n) /\ Ask("memcmp", p, q, 1, n)
       \/ Ask("strncmp", p, q, 1, n)
       \/ Room(p, n) /\ Ask("memchr", p, 1, c, n)
       \/ \E fn \in {"strchr", "strrchr"} : Ask(fn, p, 1, c, 1)
       \/ \E fn \in {"strcmp", "strspn", "strcspn", "strpbrk", "strstr"} : Ask(fn, p, q, 1, 1)

\* The classes of a character, and its other cases.
ClassesOf(c) ==
  {f \in {"upper", "lower", "alpha", "digit", "alnum", "cntrl", "graph", "print",
          "space", "punct", "xdigit"} :
     CASE f = "upper" -> isupper(c) [] f = "lower" -> islower(c)
       [] f = "alpha" -> isalpha(c) [] f = "digit" -> isdigit(c)
       [] f = "alnum" -> isalnum(c) [] f = "cntrl" -> iscntrl(c)
       [] f = "graph" -> isgraph(c) [] f = "print" -> isprint(c)
       [] f = "space" -> isspace(c) [] f = "punct" -> ispunct(c)
       [] f = "xdigit" -> isxdigit(c)}

Classify ==
  /\ Fresh({Buffer})
  /\ \E c \in -128 .. 255 :
       /\ ret' = [classes |-> ClassesOf(c), lower |-> tolower(c), upper |-> toupper(c)]
       /\ call' = [fn |-> "ctype", c |-> c]
  /\ UNCHANGED <<mem, last, history>>

-----------------------------------------------------------------------------
(* Tokens *)

\* strtok, for a text of its own or for the one that was begun last.
Tokenise ==
  /\ Fresh(Texts) \/ call.fn = "strtok"
  /\ \E str \in Pointers \cup {NULL} :
       LET result == strtok(mem, last, str, Delim)
           begun == IF str = NULL THEN tokens ELSE <<>>
       IN /\ str < Delim
          /\ mem' = result.mem /\ last' = result.last /\ ret' = result.ret
          /\ call' = [fn |-> "strtok", str |-> str]
          /\ text' = IF str = NULL THEN text ELSE [at |-> str, text |-> String(mem, str)]
          /\ tokens' = IF result.ret = NULL THEN begun
                       ELSE Append(begun, [at |-> result.ret,
                                           text |-> String(result.mem, result.ret)])

-----------------------------------------------------------------------------
(* Numbers *)

\* itoa, ltoa and lltoa.
PrintNumber ==
  /\ Fresh({Buffer})
  /\ \E W \in Types, base \in Bases \cap 2 .. 36 :
       \E num \in -(W \div 2) .. W \div 2 - 1 :
         /\ mem' \in itoa(mem, num, 1, base, W)
         /\ call' = [fn |-> "itoa", num |-> num, base |-> base, W |-> W]
         /\ ret' = 1
  /\ UNCHANGED <<last, history>>

\* atoi, atol and atoll, strtol and strtoll.
ReadNumber ==
  /\ Fresh(Numerals)
  /\ \E W \in Types :
       \/ /\ ret' = atoi(mem, 1, W)
          /\ call' = [fn |-> "atoi", W |-> W]
       \/ \E base \in Bases :
            /\ ret' = strtol(mem, 1, base, W)
            /\ call' = [fn |-> "strtol", base |-> base, W |-> W]
  /\ UNCHANGED <<mem, last, history>>

Done == call # NoCall /\ UNCHANGED vars

Next == CopyCall \/ SetCall \/ Question \/ Classify \/ Tokenise \/ PrintNumber \/ ReadNumber \/ Done

Spec == Init /\ [][Next]_vars

-----------------------------------------------------------------------------
(* Properties *)

First(s, n) == SubSeq(s, 1, Min({n, Len(s)}))
Zeros(n) == [k \in 1 .. n |-> 0]
Overlay(d, bytes) ==
  [a \in DOMAIN mem |-> IF a - d + 1 \in DOMAIN bytes THEN bytes[a - d + 1] ELSE mem[a]]

\* The memory that a copy c must leave.
Left(c) ==
  CASE c.fn \in {"memcpy", "memmove"} -> Overlay(c.d, SubSeq(mem, c.s, c.s + c.n - 1))
    [] c.fn = "memset" -> Overlay(c.d, [k \in 1 .. c.n |-> c.c % 256])
    [] c.fn = "strcpy" -> Overlay(c.d, String(mem, c.s) \o <<0>>)
    [] c.fn = "strcat" -> Overlay(c.d, String(mem, c.d) \o String(mem, c.s) \o <<0>>)
    [] c.fn = "strncat" -> Overlay(c.d, String(mem, c.d) \o First(String(mem, c.s), c.n) \o <<0>>)
    [] c.fn = "strncpy" ->
         LET s == String(mem, c.s)
         IN Overlay(c.d, First(s, c.n) \o Zeros(IF Len(s) < c.n THEN c.n - Len(s) ELSE 0))

\* The byte behind the buffer of strncpy, if the string is shorter than the
\* buffer. string.c:50-55 clears it: the first loop ends without counting the
\* terminator, so that the second writes one byte too many.
Overrun(c) ==
  IF c.fn = "strncpy" /\ Len(String(mem, c.s)) < c.n THEN {c.d + c.n} ELSE {}

\* Every copy leaves exactly the bytes that were at the source before it,
\* where the destination is, and every other byte alone, also when memmove's
\* source and destination overlap in either direction (string.c:15-78). Of the
\* byte that strncpy wrongly clears behind its buffer nothing is claimed: the
\* first n are right, and no other is written.
CopiesAreExact ==
  [][call'.fn \in {"memcpy", "memmove", "memset", "strcpy", "strcat", "strncat", "strncpy"} =>
       /\ DOMAIN mem' = DOMAIN mem
       /\ \A a \in DOMAIN mem \ Overrun(call') : mem'[a] = Left(call')[a]
       /\ ret' = call'.d]_vars

FirstIn(S) == IF S = {} THEN NULL ELSE Min(S)
LastIn(S) == IF S = {} THEN NULL ELSE Max(S)

\* The order of two sequences of bytes.
Precedes(A, B) ==
  \E k \in 0 .. Min({Len(A), Len(B)}) :
    /\ SubSeq(A, 1, k) = SubSeq(B, 1, k)
    /\ k < Len(B)
    /\ k = Len(A) \/ A[k + 1] < B[k + 1]
Orders(r, A, B) == (r < 0 <=> Precedes(A, B)) /\ (r > 0 <=> Precedes(B, A))

\* What the result r of a question c must be, in terms of the whole strings.
\* strchr and strrchr find no c above 127, memchr none below 0: they compare
\* it with a char and with an unsigned char without converting it.
Right(c, r) ==
  LET s == String(mem, c.p)
      t == String(mem, c.q)
      end == c.p + Len(s)
      InT(a) == mem[a] \in ToSet(t)
      IsChar(a) == c.c \in -128 .. 127 /\ mem[a] = c.c % 256
  IN CASE c.fn = "strlen" -> r = Len(s)
       [] c.fn = "strnlen" -> r = Min({Len(s), c.n})
       [] c.fn = "strchr" -> r = FirstIn({a \in c.p .. end : IsChar(a)})
       [] c.fn = "strrchr" -> r = LastIn({a \in c.p .. end : IsChar(a)})
       [] c.fn = "memchr" -> r = FirstIn({a \in c.p .. c.p + c.n - 1 : mem[a] = c.c})
       [] c.fn = "strspn" -> c.p + r = FirstIn({a \in c.p .. end : a = end \/ ~InT(a)})
       [] c.fn = "strcspn" -> c.p + r = FirstIn({a \in c.p .. end : a = end \/ InT(a)})
       [] c.fn = "strpbrk" -> r = FirstIn({a \in c.p .. end - 1 : InT(a)})
       [] c.fn = "strstr" -> r = FirstIn({a \in c.p .. end : IsPrefix(t, SubSeq(mem, a, end - 1))})
       [] c.fn = "strcmp" -> Orders(r, s, t)
       [] c.fn = "strncmp" -> Orders(r, First(s, c.n), First(t, c.n))
       [] c.fn = "memcmp" -> Orders(r, SubSeq(mem, c.p, c.p + c.n - 1), SubSeq(mem, c.q, c.q + c.n - 1))

\* The classes divide the characters as the names of <ctype.h> say.
RightClasses(c, r) ==
  LET Is(f) == f \in r.classes
      OneOf(F) == Cardinality(F \cap r.classes) = 1
  IN /\ c \in 0 .. 127 <=> OneOf({"cntrl", "print"})
     /\ Is("print") <=> (Is("graph") \/ c = 32)
     /\ Is("graph") <=> OneOf({"alnum", "punct"})
     /\ Is("alnum") <=> OneOf({"upper", "lower", "digit"})
     /\ Is("alpha") <=> OneOf({"upper", "lower"})
     /\ Is("digit") \/ (Is("alpha") /\ r.lower \in 97 .. 102) <=> Is("xdigit")
     /\ r.lower = (IF Is("upper") THEN c + 32 ELSE c)
     /\ r.upper = (IF Is("lower") THEN c - 32 ELSE c)

\* Searches find the first (strrchr: the last) place in the whole string or
\* nothing, a search for a string also after a match that broke off, the
\* comparisons order strings as sequences of unsigned bytes, and the classes
\* of characters are consistent (string.c:80-160, 170-227, 250-302).
AnswersAreRight ==
  [][CASE call'.fn = "ctype" -> RightClasses(call'.c, ret')
       [] "q" \in DOMAIN call' -> Right(call', ret')
       [] OTHER -> TRUE]_vars

\* All tokens of a text: its longest stretches without a delimiter.
TokensOf(t) ==
  LET delims == ToSet(String(mem, Delim))
      n == Len(t.text)
      Free(k) == t.text[k] \notin delims
      Runs == {r \in (1 .. n) \X (1 .. n) :
                 /\ r[1] <= r[2] /\ \A k \in r[1] .. r[2] : Free(k)
                 /\ r[1] = 1 \/ ~Free(r[1] - 1)
                 /\ r[2] = n \/ ~Free(r[2] + 1)}
  IN {[at |-> t.at + r[1] - 1, text |-> SubSeq(t.text, r[1], r[2])] : r \in Runs}

\* Whoever calls strtok, it returns the tokens of the text that was begun
\* last, each once and in order, skips none, and returns nothing only when none
\* is left; the tokens it has returned stay strings of their own
\* (string.c:229-248). A caller whose text another one has replaced never sees
\* the rest of it.
TokensComeInOrder ==
  LET returned == ToSet(tokens)
      left == TokensOf(text) \ returned
  IN /\ returned \subseteq TokensOf(text)
     /\ \A k \in DOMAIN tokens :
          /\ String(mem, tokens[k].at) = tokens[k].text
          /\ \A j \in 1 .. k - 1 : tokens[j].at < tokens[k].at
          /\ \A t \in left : tokens[k].at < t.at
     /\ call.fn = "strtok" /\ ret = NULL => left = {}

\* The digits of a base and the number a sequence of them stands for.
DigitIn(c, base) == {k \in 0 .. base - 1 : c \in (IF k < 10 THEN {48 + k} ELSE {55 + k, 87 + k})}
ValueOf(digits, base) ==
  FoldLeft(LAMBDA n, c : n * base + Min(DigitIn(c, base)), 0, digits)
IsNumeral(s, base) == \A k \in DOMAIN s : DigitIn(s[k], base) # {}

\* The parts of a text that begins with a number: blanks, sign, digits.
Parts(s, base) ==
  CHOOSE p \in [digits : 0 .. Len(s), end : 0 .. Len(s), sign : {1, -1}] :
    LET blanks == Min({k \in 0 .. Len(s) : k = Len(s) \/ ~isspace(s[k + 1])})
        signed == blanks < Len(s) /\ s[blanks + 1] \in {Minus, Plus}
    IN /\ p.digits = IF signed THEN blanks + 1 ELSE blanks
       /\ p.sign = IF signed /\ s[blanks + 1] = Minus THEN -1 ELSE 1
       /\ p.end = Max({k \in p.digits .. Len(s) : IsNumeral(SubSeq(s, p.digits + 1, k), base)})

\* Numbers of a type are printed and read without loss. itoa: every number
\* in base 10 but the least one, and the others from 0 on, without zeros in
\* front. atoi: every number of the type. strtol: every number with a minus
\* but the least one, with the rest of the text behind endptr; any other it
\* takes for one that overflows at its first digit, and gives the limit.
\* Without digits both give 0 (string.c:304-552).
NumbersAreRight ==
  [][LET W == call'.W
         s == String(mem, 1)
         base == IF call'.fn = "atoi" THEN 10 ELSE call'.base
         p == Parts(s, base)
         number == p.sign * ValueOf(SubSeq(s, p.digits + 1, p.end), base)
         Fits == number \in -(W \div 2) + 1 .. W \div 2 - 1
     IN CASE call'.fn = "itoa" /\ (call'.num >= 0 \/ base = 10) /\ call'.num # -(W \div 2) ->
               LET printed == String(mem', 1)
                   digits == IF call'.num < 0 THEN Tail(printed) ELSE printed
               IN /\ call'.num < 0 => printed[1] = Minus
                  /\ IsNumeral(digits, base)
                  /\ ValueOf(digits, base) = (IF call'.num < 0 THEN -call'.num ELSE call'.num)
                  /\ Len(digits) > 1 => digits[1] # 48
          [] call'.fn = "atoi" /\ Fits -> ret' = number
          [] call'.fn = "strtol" /\ base \in 2 .. 36 ->
               IF p.end = p.digits THEN ret'.value = 0 /\ ret'.end = 1
               ELSE IF p.sign = -1 THEN Fits => ret'.value = number /\ ret'.end = p.end + 1
               ELSE ret'.value = W \div 2 - 1 /\ ret'.end = p.digits + 1
          [] OTHER -> TRUE]_vars

=============================================================================
