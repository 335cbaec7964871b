-------------------------- MODULE StringCallsProofs --------------------------
(***************************************************************************)
(* Proofs about StringCalls.                                               *)
(***************************************************************************)
EXTENDS StringCalls, RecursionLemmas, SequenceTheorems, FiniteSetTheorems

Byte == 0 .. 255
Letter == 1 .. 255

-----------------------------------------------------------------------------
(* Strings *)

\* A string ends at the first zero from its address on.
Ends(m, p, z) == z \in p .. Len(m) /\ m[z] = 0 /\ \A a \in p .. z - 1 : m[a] # 0

\* An address with a zero at or behind it has a string.
LEMMA StringEnds ==
  ASSUME NEW m \in Seq(Byte), NEW p \in Nat \ {0}, NEW e \in p .. Len(m), m[e] = 0
  PROVE  \E z \in p .. e : Ends(m, p, z)
<1>. DEFINE Zero == {a \in p .. Len(m) : m[a] = 0}
<1>1. Zero \in SUBSET Nat /\ e \in Zero
  OBVIOUS
<1>2. PICK z \in Zero : \A a \in Zero : z <= a
  BY <1>1, Least
<1>3. z \in p .. e /\ z \in p .. Len(m) /\ m[z] = 0
  BY <1>1, <1>2
<1>4. ASSUME NEW a \in p .. z - 1
      PROVE  m[a] # 0
  <2>1. a \in p .. Len(m) /\ ~(z <= a)
    BY <1>3
  <2>. QED  BY <1>2, <2>1
<1>. QED  BY <1>3, <1>4 DEF Ends

\* It is the bytes up to there.
LEMMA StringIs ==
  ASSUME NEW m \in Seq(Byte), NEW p \in Nat \ {0}, NEW z, Ends(m, p, z)
  PROVE  String(m, p) = SubSeq(m, p, z - 1)
<1>. DEFINE Zero == {a \in p .. Len(m) : m[a] = 0}
<1>1. Zero \in SUBSET Int /\ z \in Zero
  BY DEF Ends
<1>2. ASSUME NEW a \in Zero
      PROVE  z <= a
  <2>1. a \in Int /\ z \in Int /\ (a \in p .. z - 1 => m[a] # 0)
    BY <1>1 DEF Ends
  <2>. QED  BY <2>1
<1>3. Min(Zero) = z
  <2>. HIDE DEF Zero
  <2>. QED  BY <1>1, <1>2, MinIs
<1>. QED  BY <1>3 DEF String

\* Its bytes, one by one.
LEMMA StringBytes ==
  ASSUME NEW m \in Seq(Byte), NEW p \in Nat \ {0}, NEW z, Ends(m, p, z)
  PROVE  /\ Len(String(m, p)) = z - p
         /\ String(m, p) \in Seq(Letter)
         /\ \A k \in 1 .. z - p : String(m, p)[k] = m[p + k - 1]
         /\ \A k \in 0 .. z - p - 1 : String(m, p)[k + 1] = m[p + k]
<1>. DEFINE s == SubSeq(m, p, z - 1)
<1>1. z \in Nat /\ z \in p .. Len(m) /\ z - p \in Nat /\ z - 1 \in Int /\ p \in Int
  BY DEF Ends
<1>2. \A a \in p .. z - 1 : m[a] \in Letter
  <2>1. ASSUME NEW a \in p .. z - 1
        PROVE  m[a] \in Letter
    <3>1. a \in 1 .. Len(m) /\ m[a] # 0
      BY <1>1 DEF Ends
    <3>2. m[a] \in Byte
      BY <3>1
    <3>. QED  BY <3>1, <3>2 DEF Byte, Letter
  <2>. QED  BY <2>1
<1>3. /\ s \in Seq(Letter)
      /\ Len(s) = IF p <= z - 1 THEN (z - 1) - p + 1 ELSE 0
      /\ \A k \in 1 .. (z - 1) - p + 1 : s[k] = m[p + k - 1]
  <2>1. PICK e \in Int : e = z - 1
    BY <1>1
  <2>2. /\ SubSeq(m, p, e) \in Seq(Letter)
        /\ Len(SubSeq(m, p, e)) = IF p <= e THEN e - p + 1 ELSE 0
        /\ \A k \in 1 .. e - p + 1 : SubSeq(m, p, e)[k] = m[p + k - 1]
    BY <1>1, <1>2, <2>1, SubSeqProperties
  <2>. QED  BY <2>1, <2>2
<1>4. Len(s) = z - p
  BY <1>1, <1>3
<1>5. \A k \in 1 .. z - p : s[k] = m[p + k - 1]
  BY <1>1, <1>3
<1>6. \A k \in 0 .. z - p - 1 : k + 1 \in 1 .. z - p /\ p + (k + 1) - 1 = p + k
  BY <1>1
<1>7. \A k \in 0 .. z - p - 1 : s[k + 1] = m[p + k]
  BY <1>5, <1>6
<1>8. String(m, p) = s
  BY StringIs
<1>. QED  BY <1>3, <1>4, <1>5, <1>7, <1>8

\* strlen counts them.
LEMMA StrlenIs ==
  ASSUME NEW m \in Seq(Byte), NEW p \in Nat \ {0}, NEW z, Ends(m, p, z)
  PROVE  strlen(m, p) = z - p
<1>. DEFINE S == {i \in Nat : m[p + i] = 0}
<1>1. strlen(m, p) = FirstOf(S)
  BY DEF strlen, Until, FirstOf
<1>2. z - p \in S
  BY DEF Ends
<1>3. ASSUME NEW i \in S
      PROVE  z - p <= i
  <2>1. i \in Nat /\ z \in Int /\ (p + i \in p .. z - 1 => m[p + i] # 0)
    BY DEF Ends
  <2>. QED  BY <2>1
<1>. HIDE DEF S
<1>4. S \in SUBSET Nat
  BY DEF S
<1>. QED  BY <1>1, <1>2, <1>3, <1>4, FirstOfIs

\* The characters strspn and strcspn look for are those of the string.
LEMMA CharsOfIs ==
  ASSUME NEW m \in Seq(Byte), NEW p \in Nat \ {0}, NEW z, Ends(m, p, z)
  PROVE  CharsOf(m, p) = ToSet(String(m, p)) /\ CharsOf(m, p) \subseteq Letter
<1>0. PICK s, n : s = String(m, p) /\ n = z - p
  OBVIOUS
<1>1. /\ n \in Nat /\ Len(s) = n /\ s \in Seq(Letter)
      /\ \A k \in 0 .. n - 1 : s[k + 1] = m[p + k]
  <2>1. n \in Nat
    BY <1>0 DEF Ends
  <2>. QED  BY <1>0, <2>1, StringBytes
<1>2. CharsOf(m, p) = {m[p + i] : i \in 0 .. n - 1}
  BY <1>0, StrlenIs DEF CharsOf
<1>3. DOMAIN s = 1 .. n
  BY <1>1
<1>4. ToSet(s) = {s[k] : k \in 1 .. n}
  BY <1>3 DEF ToSet
<1>5. \A k \in 1 .. n : k - 1 \in 0 .. n - 1 /\ s[k] = m[p + (k - 1)] /\ s[k] \in Letter
  <2>1. ASSUME NEW k \in 1 .. n
        PROVE  k - 1 \in 0 .. n - 1 /\ s[k] = m[p + (k - 1)] /\ s[k] \in Letter
    <3>1. PICK j \in 0 .. n - 1 : j = k - 1
      BY <1>1
    <3>2. s[j + 1] = m[p + j]
      BY <1>1, Zenon
    <3>3. j + 1 = k /\ k \in 1 .. Len(s)
      BY <1>1, <3>1
    <3>4. s[k] \in Letter
      <4>1. s \in Seq(Letter)
        BY <1>1
      <4>. QED  BY <3>3, <4>1
    <3>. QED  BY <3>1, <3>2, <3>3, <3>4
  <2>. QED  BY <2>1
<1>6. \A i \in 0 .. n - 1 : i + 1 \in 1 .. n /\ s[i + 1] = m[p + i]
  BY <1>1
<1>7. CharsOf(m, p) = ToSet(s)
  BY <1>2, <1>4, <1>5, <1>6
<1>8. ToSet(s) \subseteq Letter
  BY <1>4, <1>5
<1>. QED  BY <1>0, <1>7, <1>8

-----------------------------------------------------------------------------
(* strtok *)

\* strspn ends at the first byte that is none of the characters.
LEMMA StrspnIs ==
  ASSUME NEW m, NEW s, NEW accept, NEW k \in Nat, m[s + k] \notin CharsOf(m, accept),
         \A i \in 0 .. k - 1 : m[s + i] \in CharsOf(m, accept)
  PROVE  strspn(m, s, accept) = k
<1>. DEFINE S == {i \in Nat : m[s + i] \notin CharsOf(m, accept)}
<1>1. strspn(m, s, accept) = FirstOf(S)
  BY DEF strspn, Until, FirstOf
<1>2. S \in SUBSET Nat /\ k \in S
  OBVIOUS
<1>3. ASSUME NEW i \in S
      PROVE  k <= i
  <2>1. i \in Nat /\ i \notin 0 .. k - 1
    OBVIOUS
  <2>. QED  BY <2>1
<1>. HIDE DEF S
<1>. QED  BY <1>1, <1>2, <1>3, FirstOfIs

\* strcspn ends at the first that is one of them or the terminator.
LEMMA StrcspnIs ==
  ASSUME NEW m, NEW s, NEW reject, NEW k \in Nat,
         m[s + k] = 0 \/ m[s + k] \in CharsOf(m, reject),
         \A i \in 0 .. k - 1 : m[s + i] # 0 /\ m[s + i] \notin CharsOf(m, reject)
  PROVE  /\ strcspn(m, s, reject) = k
         /\ strpbrk(m, s, reject) = IF m[s + k] = 0 THEN NULL ELSE s + k
<1>. DEFINE S == {i \in Nat : m[s + i] = 0 \/ m[s + i] \in CharsOf(m, reject)}
<1>1. strcspn(m, s, reject) = FirstOf(S)
  BY DEF strcspn, Until, FirstOf
<1>2. S \in SUBSET Nat /\ k \in S
  OBVIOUS
<1>3. ASSUME NEW i \in S
      PROVE  k <= i
  <2>1. i \in Nat /\ i \notin 0 .. k - 1
    OBVIOUS
  <2>. QED  BY <2>1
<1>4. strcspn(m, s, reject) = k
  <2>. HIDE DEF S
  <2>. QED  BY <1>1, <1>2, <1>3, FirstOfIs
<1>. QED  BY <1>4 DEF strpbrk

\* What one call does to a string from start to end: it skips delimiters, and
\* a token goes to the next delimiter or the end.
LEMMA StrtokIs ==
  ASSUME NEW m, NEW before, NEW str, NEW delim, NEW start \in Nat \ {0},
         start = IF str = NULL THEN before ELSE str,
         NEW C, C = CharsOf(m, delim), 0 \notin C,
         NEW end \in Nat, start <= end, m[end] = 0, \A a \in start .. end - 1 : m[a] # 0
  PROVE  \E from \in start .. end :
           /\ \A a \in start .. from - 1 : m[a] \in C
           /\ from = end =>
                strtok(m, before, str, delim) = [mem |-> m, last |-> NULL, ret |-> NULL]
           /\ from # end =>
                \E te \in from + 1 .. end :
                  /\ \A a \in from .. te - 1 : m[a] \notin C
                  /\ te = end => strtok(m, before, str, delim)
                                   = [mem |-> m, last |-> NULL, ret |-> from]
                  /\ te # end => /\ m[te] \in C
                                 /\ strtok(m, before, str, delim)
                                      = [mem |-> [m EXCEPT ![te] = 0], last |-> te + 1,
                                         ret |-> from]
<1>. DEFINE Others == {a \in start .. end : m[a] \notin C}
<1>1. Others \in SUBSET Nat /\ end \in Others
  OBVIOUS
<1>2. PICK from \in Others : \A a \in Others : from <= a
  BY <1>1, Least
<1>3. from \in start .. end /\ m[from] \notin C /\ from \in Nat
  OBVIOUS
<1>4. ASSUME NEW a \in start .. from - 1
      PROVE  m[a] \in C
  <2>1. a \in start .. end /\ ~(from <= a)
    BY <1>3
  <2>. QED  BY <1>2, <2>1
<1>5. start + strspn(m, start, delim) = from
  <2>1. PICK k \in Nat : k = from - start
    <3>1. from - start \in Nat
      BY <1>3
    <3>. QED  BY <3>1
  <2>2. start + k = from
    BY <1>3, <2>1
  <2>3. \A i \in 0 .. k - 1 : m[start + i] \in C
    <3>1. \A i \in 0 .. k - 1 : start + i \in start .. from - 1
      BY <2>2
    <3>. QED  BY <1>4, <3>1
  <2>4. strspn(m, start, delim) = k
    BY <1>3, <2>2, <2>3, StrspnIs
  <2>. QED  BY <2>2, <2>4
<1>6. start # NULL
  BY DEF NULL
<1>7. CASE from = end
  <2>1. strtok(m, before, str, delim) = [mem |-> m, last |-> NULL, ret |-> NULL]
    BY <1>5, <1>7 DEF strtok
  <2>. QED  BY <1>3, <1>4, <1>7, <2>1
<1>8. CASE from # end
  <2>. DEFINE Limits == {a \in from .. end : a = end \/ m[a] \in C}
  <2>1. Limits \in SUBSET Nat /\ end \in Limits
    BY <1>3
  <2>2. PICK te \in Limits : \A a \in Limits : te <= a
    BY <2>1, Least
  <2>3. te \in from + 1 .. end /\ (te # end => m[te] \in C)
    <3>1. te \in from .. end /\ (te = end \/ m[te] \in C)
      OBVIOUS
    <3>. QED  BY <1>3, <1>8, <3>1
  <2>4. ASSUME NEW a \in from .. te - 1
        PROVE  m[a] \notin C /\ m[a] # 0
    <3>1. a \in from .. end /\ ~(te <= a) /\ a \in start .. end - 1
      BY <1>3, <2>3
    <3>. QED  BY <2>2, <3>1
  <2>5. strpbrk(m, from, delim) = IF m[te] = 0 THEN NULL ELSE te
    <3>1. PICK k \in Nat : k = te - from
      BY <1>3, <2>3
    <3>2. from + k = te
      BY <1>3, <2>3, <3>1
    <3>3. \A i \in 0 .. k - 1 : m[from + i] # 0 /\ m[from + i] \notin C
      <4>1. \A i \in 0 .. k - 1 : from + i \in from .. te - 1
        BY <1>3, <3>2
      <4>. QED  BY <2>4, <4>1
    <3>4. m[from + k] = 0 \/ m[from + k] \in C
      BY <2>3, <3>2
    <3>5. strpbrk(m, from, delim) = IF m[from + k] = 0 THEN NULL ELSE from + k
      <4>1. m[from + k] = 0 \/ m[from + k] \in CharsOf(m, delim)
        BY <2>3, <3>2
      <4>2. \A i \in 0 .. k - 1 : m[from + i] # 0 /\ m[from + i] \notin CharsOf(m, delim)
        BY <3>3
      <4>. HIDE DEF Others, Limits
      <4>. QED  BY ONLY k \in Nat, <4>1, <4>2, StrcspnIs
    <3>. QED  BY <3>2, <3>5
  <2>6. m[from] # 0
    BY <1>3, <1>8
  <2>7. te = end => strtok(m, before, str, delim) = [mem |-> m, last |-> NULL, ret |-> from]
    BY <1>5, <1>6, <2>5, <2>6 DEF strtok
  <2>8. te # end => strtok(m, before, str, delim)
                      = [mem |-> [m EXCEPT ![te] = 0], last |-> te + 1, ret |-> from]
    <3>1. te # end => m[te] # 0 /\ te # NULL
      BY <1>3, <2>3 DEF NULL
    <3>. QED  BY <1>5, <1>6, <2>5, <2>6, <3>1 DEF strtok
  <2>. QED  BY <1>3, <1>4, <1>8, <2>3, <2>4, <2>7, <2>8
<1>. QED  BY <1>7, <1>8

-----------------------------------------------------------------------------
(* The tokens of a text *)

Delims(m) == CharsOf(m, Delim)

\* The stretches without a delimiter, as first and last index.
RunsOf(t, C) ==
  {r \in (1 .. Len(t)) \X (1 .. Len(t)) :
     /\ r[1] <= r[2] /\ \A k \in r[1] .. r[2] : t[k] \notin C
     /\ r[1] = 1 \/ t[r[1] - 1] \in C
     /\ r[2] = Len(t) \/ t[r[2] + 1] \in C}
TokenOf(tx, r) == [at |-> tx.at + r[1] - 1, text |-> SubSeq(tx.text, r[1], r[2])]

\* A memory in which strtok is called.
MemoryOK(m) ==
  /\ m \in Seq(Byte) /\ Delim \in Nat /\ Delim > 1 /\ Delim <= Len(m)
  /\ m[Delim - 1] = 0 /\ m[Len(m)] = 0
  /\ \A p \in Pointers : p \in 1 .. Len(m)

\* Text tx is in the memory, from its p-th character on as it was and before
\* that but for delimiters; a token that begins before p ends there.
Ready(m, tx, p) ==
  LET t == tx.text
      n == Len(t)
  IN /\ tx.at \in Nat \ {0} /\ t \in Seq(Letter)
     /\ tx.at + n < Delim /\ m[tx.at + n] = 0
     /\ p \in 1 .. n + 1
     /\ \A k \in 1 .. n : k >= p \/ t[k] \notin Delims(m) => m[tx.at + k - 1] = t[k]
     /\ p = 1 \/ p = n + 1 \/ t[p - 1] \in Delims(m)

\* The tokens returned are those that begin before p, in order, and there is
\* a terminator behind each.
RunsBefore(m, tx, p) == {r \in RunsOf(tx.text, Delims(m)) : r[1] < p}
Returned(m, tx, toks, p) ==
  LET R == RunsBefore(m, tx, p)
  IN /\ toks \in Seq({TokenOf(tx, r) : r \in R})
     /\ \A r \in R : \E k \in DOMAIN toks : toks[k] = TokenOf(tx, r)
     /\ \A k \in DOMAIN toks : \A j \in 1 .. k - 1 : toks[j].at < toks[k].at
     /\ \A r \in R : m[tx.at + r[2]] = 0

\* Where strtok goes on.
GoesOnAt(tx, l, p) == IF l = NULL THEN p = Len(tx.text) + 1 ELSE l = tx.at + p - 1

\* The delimiters are a string, so that there is no terminator among them.
LEMMA DelimsAre ==
  ASSUME NEW m, MemoryOK(m)
  PROVE  /\ Delims(m) = ToSet(String(m, Delim)) /\ Delims(m) \subseteq Letter
         /\ 0 \notin Delims(m)
<1>1. PICK z \in Delim .. Len(m) : Ends(m, Delim, z)
  <2>1. m \in Seq(Byte) /\ Delim \in Nat \ {0} /\ Len(m) \in Delim .. Len(m) /\ m[Len(m)] = 0
    BY DEF MemoryOK
  <2>. QED  BY <2>1, StringEnds
<1>2. Delims(m) = ToSet(String(m, Delim)) /\ Delims(m) \subseteq Letter
  <2>1. m \in Seq(Byte) /\ Delim \in Nat \ {0}
    BY DEF MemoryOK
  <2>. QED  BY <1>1, <2>1, CharsOfIs DEF Delims
<1>3. 0 \notin Letter
  BY DEF Letter
<1>. QED  BY <1>2, <1>3

\* A terminator written into a text leaves the memory as strtok needs it.
LEMMA TextWritten ==
  ASSUME NEW m, MemoryOK(m), NEW a \in 1 .. Delim - 1, NEW w, w = [m EXCEPT ![a] = 0]
  PROVE  MemoryOK(w) /\ Delims(w) = Delims(m)
<1>1. /\ m \in Seq(Byte) /\ Delim \in Nat \ {0} /\ Delim <= Len(m) /\ a \in 1 .. Len(m)
  BY DEF MemoryOK
<1>2. w \in Seq(Byte) /\ Len(w) = Len(m) /\ w[a] = 0
      /\ \A b \in 1 .. Len(m) : b # a => w[b] = m[b]
  <2>1. 0 \in Byte
    BY DEF Byte
  <2>. QED  BY <1>1, <2>1, ExceptSeq
<1>3. MemoryOK(w)
  <2>1. m[Delim - 1] = 0 /\ m[Len(m)] = 0 /\ Delim > 1 /\ \A p \in Pointers : p \in 1 .. Len(m)
    BY DEF MemoryOK
  <2>2. \A b \in 1 .. Len(m) : m[b] = 0 => w[b] = 0
    BY <1>2
  <2>3. Delim - 1 \in 1 .. Len(m) /\ Len(m) \in 1 .. Len(m)
    BY <1>1, <2>1
  <2>4. w[Delim - 1] = 0 /\ w[Len(m)] = 0
    BY <2>1, <2>2, <2>3
  <2>. QED  BY <1>1, <1>2, <2>1, <2>4 DEF MemoryOK
<1>4. PICK z \in Delim .. Len(m) : Ends(m, Delim, z)
  <2>1. m[Len(m)] = 0 /\ Len(m) \in Delim .. Len(m)
    BY <1>1 DEF MemoryOK
  <2>. QED  BY <1>1, <2>1, StringEnds
<1>5. \A b \in Delim .. Len(m) : w[b] = m[b]
  BY <1>1, <1>2
<1>6. Ends(w, Delim, z)
  BY <1>1, <1>2, <1>4, <1>5 DEF Ends
<1>7. strlen(m, Delim) = z - Delim /\ strlen(w, Delim) = z - Delim
  BY <1>1, <1>2, <1>4, <1>6, StrlenIs
<1>8. \A i \in 0 .. z - Delim - 1 : w[Delim + i] = m[Delim + i]
  <2>1. \A i \in 0 .. z - Delim - 1 : Delim + i \in Delim .. Len(m)
    BY <1>1
  <2>. QED  BY <1>5, <2>1
<1>9. CharsOf(w, Delim) = CharsOf(m, Delim)
  BY <1>7, <1>8 DEF CharsOf
<1>. QED  BY <1>3, <1>9 DEF Delims

\* A token that begins before p ends before it.
LEMMA RunsEndBefore ==
  ASSUME NEW m, NEW tx, NEW p, Ready(m, tx, p), NEW r \in RunsBefore(m, tx, p)
  PROVE  r[1] \in 1 .. r[2] /\ r[2] < p /\ r[2] \in 1 .. Len(tx.text)
<1>. DEFINE n == Len(tx.text)
<1>1. /\ r[1] \in 1 .. n /\ r[2] \in 1 .. n /\ r[1] <= r[2] /\ r[1] < p
      /\ \A k \in r[1] .. r[2] : tx.text[k] \notin Delims(m)
  BY DEF RunsBefore, RunsOf
<1>2. p \in 1 .. n + 1 /\ n \in Nat /\ (p = 1 \/ p = n + 1 \/ tx.text[p - 1] \in Delims(m))
  BY DEF Ready
<1>3. ASSUME r[2] >= p
      PROVE  FALSE
  <2>1. p - 1 \in r[1] .. r[2] /\ p # 1 /\ p # n + 1
    BY <1>1, <1>2, <1>3
  <2>. QED  BY <1>1, <1>2, <2>1
<1>. QED  BY <1>1, <1>2, <1>3

\* What a token that begins before p is in memory.
LEMMA TokensAreStrings ==
  ASSUME NEW m, MemoryOK(m), NEW tx, NEW p, Ready(m, tx, p), NEW r \in RunsBefore(m, tx, p),
         m[tx.at + r[2]] = 0
  PROVE  String(m, TokenOf(tx, r).at) = TokenOf(tx, r).text
<1>. DEFINE t == tx.text
            n == Len(t)
            first == tx.at + r[1] - 1
            behind == tx.at + r[2]
<1>1. r[1] \in 1 .. r[2] /\ r[2] \in 1 .. n
  BY RunsEndBefore
<1>2. /\ tx.at \in Nat \ {0} /\ t \in Seq(Letter) /\ n \in Nat /\ tx.at + n < Delim
      /\ \A k \in 1 .. n : t[k] \notin Delims(m) => m[tx.at + k - 1] = t[k]
  <2>1. tx.at \in Nat \ {0} /\ t \in Seq(Letter) /\ tx.at + n < Delim
    BY DEF Ready
  <2>2. \A k \in 1 .. n : t[k] \notin Delims(m) => m[tx.at + k - 1] = t[k]
    BY DEF Ready
  <2>. QED  BY <2>1, <2>2
<1>3. m \in Seq(Byte) /\ Delim \in Nat /\ Delim <= Len(m) /\ Len(m) \in Nat
  BY DEF MemoryOK
<1>4. m[behind] = 0
  OBVIOUS
<1>5. \A k \in r[1] .. r[2] : k \in 1 .. n /\ m[tx.at + k - 1] = t[k] /\ t[k] \in Letter
  <2>1. \A k \in r[1] .. r[2] : k \in 1 .. n /\ t[k] \notin Delims(m)
    BY <1>1 DEF RunsBefore, RunsOf
  <2>. QED  BY <1>2, <2>1
<1>6. Ends(m, first, behind)
  <2>1. behind \in first .. Len(m) /\ first \in Nat
    <3>1. PICK x, i, j \in Nat : x = tx.at /\ i = r[1] /\ j = r[2]
      BY <1>1, <1>2
    <3>2. i >= 1 /\ i <= j /\ j <= n /\ x >= 1
      BY <1>1, <1>2, <3>1
    <3>3. x + n < Delim
      BY <1>2, <3>1
    <3>4. first = x + i - 1 /\ behind = x + j
      BY <3>1
    <3>. QED  BY <1>2, <1>3, <3>2, <3>3, <3>4
  <2>2. ASSUME NEW a \in first .. behind - 1
        PROVE  m[a] # 0
    <3>1. PICK k \in r[1] .. r[2] : k = a - tx.at + 1
      <4>1. PICK x, i, j \in Nat : x = tx.at /\ i = r[1] /\ j = r[2]
        BY <1>1, <1>2
      <4>2. a \in x + i - 1 .. x + j - 1
        BY <4>1
      <4>3. a - x + 1 \in i .. j
        BY <4>2
      <4>. QED  BY <4>1, <4>3
    <3>2. tx.at + k - 1 = a
      <4>1. PICK x, b \in Nat : x = tx.at /\ b = a
        BY <1>2, <2>1
      <4>2. k = b - x + 1
        BY <3>1, <4>1
      <4>. QED  BY <4>1, <4>2
    <3>3. m[a] \in Letter
      BY <1>5, <3>2
    <3>. QED  BY <3>3 DEF Letter
  <2>. QED  BY <1>4, <2>1, <2>2 DEF Ends
<1>7. /\ String(m, first) \in Seq(Letter) /\ Len(String(m, first)) = behind - first
      /\ \A k \in 1 .. behind - first : String(m, first)[k] = m[first + k - 1]
  <2>1. first \in Nat \ {0}
    BY <1>1, <1>2
  <2>. HIDE DEF first, behind
  <2>. QED  BY <1>3, <1>6, <2>1, StringBytes
<1>8. PICK len \in Nat : len = r[2] - r[1] + 1
  BY <1>1
<1>9. /\ SubSeq(t, r[1], r[2]) \in Seq(Letter) /\ Len(SubSeq(t, r[1], r[2])) = len
      /\ \A k \in 1 .. len : SubSeq(t, r[1], r[2])[k] = t[r[1] + k - 1]
  <2>1. \A k \in r[1] .. r[2] : t[k] \in Letter
    BY <1>5
  <2>2. r[1] \in Int /\ r[2] \in Int /\ r[1] <= r[2]
    BY <1>1
  <2>. HIDE DEF t
  <2>3. PICK i, j \in Int : i = r[1] /\ j = r[2] /\ i <= j
    BY ONLY <2>2
  <2>4. \A k \in i .. j : t[k] \in Letter
    BY ONLY <2>1, <2>3
  <2>5. /\ SubSeq(t, i, j) \in Seq(Letter)
        /\ Len(SubSeq(t, i, j)) = IF i <= j THEN j - i + 1 ELSE 0
        /\ \A k \in 1 .. j - i + 1 : SubSeq(t, i, j)[k] = t[i + k - 1]
    BY ONLY <2>3, <2>4, SubSeqProperties
  <2>. QED  BY ONLY <1>8, <2>3, <2>5
<1>10. behind - first = len
  BY <1>1, <1>2, <1>8
<1>11. ASSUME NEW k \in 1 .. len
       PROVE  String(m, first)[k] = SubSeq(t, r[1], r[2])[k]
  <2>1. PICK i \in r[1] .. r[2] : i = r[1] + k - 1
    <3>1. PICK x, y \in Nat : x = r[1] /\ y = r[2] /\ len = y - x + 1
      BY <1>1, <1>8
    <3>2. x + k - 1 \in x .. y
      BY ONLY <3>1, k \in 1 .. len, x \in Nat, y \in Nat
    <3>. QED  BY ONLY <3>1, <3>2
  <2>2. tx.at + i - 1 = first + k - 1
    BY <1>1, <1>2, <2>1
  <2>3. m[first + k - 1] = t[i]
    BY <1>5, <2>2
  <2>. QED  BY <1>7, <1>9, <1>10, <2>1, <2>3
<1>12. String(m, first) = SubSeq(t, r[1], r[2])
  <2>. HIDE DEF first, behind, t
  <2>. QED  BY <1>7, <1>9, <1>10, <1>11, SeqEqual
<1>. QED  BY <1>12 DEF TokenOf

\* Nothing is left behind p: the call returns none.
LEMMA NoneLeft ==
  ASSUME NEW m, MemoryOK(m), NEW tx, NEW p, Ready(m, tx, p), NEW toks, Returned(m, tx, toks, p),
         \A k \in p .. Len(tx.text) : tx.text[k] \in Delims(m)
  PROVE  /\ Ready(m, tx, Len(tx.text) + 1)
         /\ Returned(m, tx, toks, Len(tx.text) + 1)
<1>. DEFINE n == Len(tx.text)
<1>1. /\ tx.at \in Nat \ {0} /\ tx.text \in Seq(Letter) /\ n \in Nat
      /\ tx.at + n < Delim /\ m[tx.at + n] = 0
      /\ p \in 1 .. n + 1
  BY DEF Ready
<1>2. \A k \in 1 .. n : tx.text[k] \notin Delims(m) => m[tx.at + k - 1] = tx.text[k]
  BY DEF Ready
<1>3. Ready(m, tx, n + 1)
  <2>1. \A k \in 1 .. n : ~(k >= n + 1)
    BY <1>1
  <2>2. n + 1 \in 1 .. n + 1
    BY <1>1
  <2>. QED  BY <1>1, <1>2, <2>1, <2>2 DEF Ready
<1>4. RunsBefore(m, tx, n + 1) = RunsBefore(m, tx, p)
  <2>1. ASSUME NEW r \in RunsOf(tx.text, Delims(m))
        PROVE  r[1] < n + 1 <=> r[1] < p
    <3>1. r[1] \in 1 .. n /\ r[2] \in 1 .. n /\ r[1] <= r[2]
          /\ \A k \in r[1] .. r[2] : tx.text[k] \notin Delims(m)
      BY DEF RunsOf
    <3>2. tx.text[r[1]] \notin Delims(m)
      BY <3>1
    <3>3. r[1] \notin p .. n
      BY <3>2
    <3>. QED  BY <1>1, <3>1, <3>3
  <2>. QED  BY <2>1 DEF RunsBefore
<1>5. Returned(m, tx, toks, n + 1)
  BY <1>4 DEF Returned
<1>. QED  BY <1>3, <1>5

\* The next token of a text goes from its f-th character to the one before
\* its e-th, which is a delimiter or the end.
NextToken(m, tx, p, f, e) ==
  LET n == Len(tx.text)
  IN /\ f \in p .. n /\ e \in f + 1 .. n + 1
     /\ \A k \in p .. f - 1 : tx.text[k] \in Delims(m)
     /\ \A k \in f .. e - 1 : tx.text[k] \notin Delims(m)
     /\ e # n + 1 => tx.text[e] \in Delims(m)

\* What is left when it is found: the memory, and where strtok goes on.
Cut(m, tx, e) == IF e = Len(tx.text) + 1 THEN m ELSE [m EXCEPT ![tx.at + e - 1] = 0]
Behind(tx, e) == IF e = Len(tx.text) + 1 THEN Len(tx.text) + 1 ELSE e + 1

\* The stretch from f to e - 1 is the one that begins from p on and before
\* the place behind it.
LEMMA NextRun ==
  ASSUME NEW m, NEW tx, NEW p, Ready(m, tx, p), NEW f, NEW e, NextToken(m, tx, p, f, e),
         NEW q, q = Behind(tx, e)
  PROVE  /\ <<f, e - 1>> \in RunsOf(tx.text, Delims(m))
         /\ \A r \in RunsOf(tx.text, Delims(m)) : r[1] < q <=> r[1] < p \/ r = <<f, e - 1>>
<1>. DEFINE t == tx.text
            C == Delims(m)
<1>. PICK n \in Nat : n = Len(tx.text)
  BY DEF Ready
<1>. /\ f \in p .. n /\ e \in f + 1 .. n + 1
     /\ \A k \in p .. f - 1 : tx.text[k] \in Delims(m)
     /\ \A k \in f .. e - 1 : tx.text[k] \notin Delims(m)
     /\ e # n + 1 => tx.text[e] \in Delims(m)
     /\ q = IF e = n + 1 THEN n + 1 ELSE e + 1
  BY DEF NextToken, Behind
<1>1. p \in 1 .. n + 1 /\ (p = 1 \/ p = n + 1 \/ t[p - 1] \in C)
  BY DEF Ready
<1>2. f \in 1 .. n /\ e \in 2 .. n + 1 /\ p <= f /\ q \in f + 1 .. n + 2 /\ e <= q /\ q <= e + 1
  <2>1. p \in Nat /\ p >= 1 /\ f \in Nat /\ p <= f /\ f <= n
    BY <1>1
  <2>2. e \in Nat /\ f + 1 <= e /\ e <= n + 1
    BY <2>1
  <2>3. (q = n + 1 /\ e = n + 1) \/ (q = e + 1 /\ e # n + 1)
    OBVIOUS
  <2>. QED  BY <2>1, <2>2, <2>3
<1>3. <<f, e - 1>> \in RunsOf(t, C)
  <2>1. f = 1 \/ t[f - 1] \in C
    <3>1. CASE f = p
      BY <1>1, <1>2, <3>1
    <3>2. CASE f # p
      <4>1. f - 1 \in p .. f - 1
        BY <1>1, <1>2, <3>2
      <4>. QED  BY <4>1
    <3>. QED  BY <3>1, <3>2
  <2>2. e - 1 = n \/ t[(e - 1) + 1] \in C
    <3>1. (e - 1) + 1 = e
      BY <1>2
    <3>. QED  BY <1>2, <3>1
  <2>3. e - 1 \in 1 .. n /\ f <= e - 1
    BY <1>2
  <2>4. <<f, e - 1>>[1] = f /\ <<f, e - 1>>[2] = e - 1
    OBVIOUS
  <2>. HIDE DEF C, t
  <2>. QED  BY <1>2, <2>1, <2>2, <2>3, <2>4 DEF RunsOf, t, C
<1>4. ASSUME NEW r \in RunsOf(t, C)
      PROVE  r[1] < q <=> r[1] < p \/ r = <<f, e - 1>>
  <2>1. PICK a, b \in 1 .. n : r = <<a, b>>
    BY DEF RunsOf
  <2>2. r[1] = a /\ r[2] = b
    BY <2>1
  <2>3. /\ a <= b /\ \A k \in a .. b : t[k] \notin C
        /\ a = 1 \/ t[a - 1] \in C
        /\ b = n \/ t[b + 1] \in C
    BY <2>2 DEF RunsOf
  <2>4. ASSUME a >= p, a < q
        PROVE  a = f /\ b = e - 1
    <3>1. t[a] \notin C
      BY <2>3
    <3>2. a \notin p .. f - 1
      BY <3>1
    <3>3. a # e
      <4>1. CASE e = n + 1
        BY <1>2, <4>1
      <4>2. CASE e # n + 1
        BY <3>1, <4>2
      <4>. QED  BY <4>1, <4>2
    <3>4. a \notin f + 1 .. e - 1
      <4>1. ASSUME a \in f + 1 .. e - 1
            PROVE  FALSE
        <5>1. a - 1 \in f .. e - 1 /\ a # 1
          BY <1>2, <4>1
        <5>. QED  BY <2>3, <5>1
      <4>. QED  BY <4>1
    <3>5. a = f
      BY <1>1, <1>2, <2>4, <3>2, <3>3, <3>4
    <3>6. ~(b < e - 1)
      <4>1. ASSUME b < e - 1
            PROVE  FALSE
        <5>1. b + 1 \in f .. e - 1 /\ b # n
          BY <1>2, <2>3, <3>5, <4>1
        <5>. QED  BY <2>3, <5>1
      <4>. QED  BY <4>1
    <3>7. ~(b >= e)
      <4>1. ASSUME b >= e
            PROVE  FALSE
        <5>1. e \in a .. b /\ e # n + 1
          BY <1>2, <3>5, <4>1
        <5>. QED  BY <2>3, <5>1
      <4>. QED  BY <4>1
    <3>8. b \in Nat /\ e \in Nat
      BY <1>2
    <3>. QED  BY ONLY <3>5, <3>6, <3>7, <3>8
  <2>5. f < q
    BY <1>2
  <2>6. a < p => a < q
    BY <1>1, <1>2
  <2>7. ASSUME a < q
        PROVE  a < p \/ r = <<f, e - 1>>
    <3>1. a < p \/ a >= p
      BY <1>1
    <3>. QED  BY <2>1, <2>4, <2>7, <3>1
  <2>8. r = <<f, e - 1>> => a < q
    BY <2>2, <2>5
  <2>. QED  BY <2>2, <2>6, <2>7, <2>8
<1>. QED  BY <1>3, <1>4

\* A token is found: the memory, the text and the tokens after the call.
LEMMA TokenFound ==
  ASSUME NEW m, MemoryOK(m), NEW tx, NEW p, Ready(m, tx, p), NEW toks, Returned(m, tx, toks, p),
         NEW f, NEW e, NextToken(m, tx, p, f, e),
         NEW w, w = Cut(m, tx, e), NEW q, q = Behind(tx, e)
  PROVE  /\ MemoryOK(w) /\ Ready(w, tx, q)
         /\ Returned(w, tx, Append(toks, [at |-> tx.at + f - 1,
                                          text |-> String(w, tx.at + f - 1)]), q)
<1>. DEFINE t == tx.text
            C == Delims(m)
            run == <<f, e - 1>>
            Old == RunsBefore(m, tx, p)
            New == RunsBefore(w, tx, q)
            token == TokenOf(tx, run)
<1>. PICK n \in Nat : n = Len(tx.text)
  BY DEF Ready
<1>. /\ f \in p .. n /\ e \in f + 1 .. n + 1
     /\ \A k \in p .. f - 1 : tx.text[k] \in Delims(m)
     /\ \A k \in f .. e - 1 : tx.text[k] \notin Delims(m)
     /\ e # n + 1 => tx.text[e] \in Delims(m)
     /\ q = IF e = n + 1 THEN n + 1 ELSE e + 1
     /\ w = IF e = n + 1 THEN m ELSE [m EXCEPT ![tx.at + e - 1] = 0]
  BY DEF NextToken, Behind, Cut
<1>1. PICK at \in Nat \ {0} : at = tx.at
  BY DEF Ready
<1>2. /\ t \in Seq(Letter) /\ at + n < Delim /\ m[at + n] = 0 /\ p \in 1 .. n + 1
      /\ \A k \in 1 .. n : k >= p \/ t[k] \notin C => m[at + k - 1] = t[k]
  <2>1. t \in Seq(Letter) /\ at + n < Delim /\ m[at + n] = 0 /\ p \in 1 .. n + 1
    BY <1>1 DEF Ready
  <2>2. \A k \in 1 .. n : k >= p \/ t[k] \notin C => m[at + k - 1] = t[k]
    BY <1>1 DEF Ready
  <2>. QED  BY <2>1, <2>2
<1>3. p \in Nat /\ p >= 1 /\ f \in Nat /\ p <= f /\ f <= n /\ e \in Nat /\ f + 1 <= e /\ e <= n + 1
  <2>1. p \in Nat /\ p >= 1
    BY <1>2
  <2>2. f \in Nat /\ p <= f /\ f <= n
    BY <2>1
  <2>. QED  BY <2>1, <2>2
<1>4. (e = n + 1 /\ q = n + 1) \/ (e # n + 1 /\ e <= n /\ q = e + 1)
  <2>1. (e = n + 1 /\ q = n + 1) \/ (e # n + 1 /\ q = e + 1)
    OBVIOUS
  <2>2. e # n + 1 => e <= n
    BY <1>3
  <2>. QED  BY <2>1, <2>2
<1>5. m \in Seq(Byte) /\ Len(m) \in Nat /\ Delim \in Nat /\ Delim <= Len(m)
  BY DEF MemoryOK
<1>6. PICK te \in 1 .. Delim - 1 : te = at + e - 1
  <2>1. at + e - 1 \in 1 .. Delim - 1
    BY <1>2, <1>3, <1>5
  <2>. QED  BY <2>1
<1>7. /\ MemoryOK(w) /\ Delims(w) = C /\ w[te] = 0
      /\ \A b \in 1 .. Len(m) : b # te => w[b] = m[b]
  <2>1. CASE e = n + 1
    <3>1. w = m /\ te = at + n
      BY <1>6, <2>1
    <3>. QED  BY <1>2, <3>1
  <2>2. CASE e # n + 1
    <3>1. w = [m EXCEPT ![te] = 0]
      BY <1>1, <1>6, <2>2
    <3>2. MemoryOK(w) /\ Delims(w) = C
      BY ONLY MemoryOK(m), <3>1, TextWritten DEF C
    <3>3. te \in 1 .. Len(m) /\ 0 \in Byte
      BY <1>5 DEF Byte
    <3>4. \A b \in 1 .. Len(m) : w[b] = IF b = te THEN 0 ELSE m[b]
      BY <1>5, <3>1, <3>3, ExceptSeq
    <3>. QED  BY <3>2, <3>3, <3>4
  <2>. QED  BY <2>1, <2>2
<1>8. \A b \in 1 .. Len(m) : m[b] = 0 => w[b] = 0
  <2>1. ASSUME NEW b \in 1 .. Len(m), m[b] = 0
        PROVE  w[b] = 0
    <3>1. w[te] = 0 /\ (b # te => w[b] = m[b])
      BY <1>7
    <3>. QED  BY <2>1, <3>1
  <2>. QED  BY <2>1
<1>9. Ready(w, tx, q)
  <2>1. at + n \in 1 .. Len(m)
    <3>1. at + n < Delim
      BY <1>2
    <3>. QED  BY <1>5, <3>1
  <2>2. w[at + n] = 0
    BY <1>2, <1>8, <2>1
  <2>3. q \in 1 .. n + 1 /\ p <= q
    BY <1>3, <1>4
  <2>4. q = n + 1 \/ t[q - 1] \in C
    <3>1. CASE e # n + 1
      <4>1. q - 1 = e
        BY <1>3, <1>4, <3>1
      <4>. QED  BY <3>1, <4>1
    <3>. QED  BY <1>4, <3>1
  <2>5. ASSUME NEW k \in 1 .. n, k >= q \/ t[k] \notin C
        PROVE  w[at + k - 1] = t[k]
    <3>1. k # e
      <4>1. CASE e = n + 1
        BY <4>1
      <4>2. CASE e # n + 1
        <5>1. CASE k >= q
          BY <1>3, <1>4, <4>2, <5>1
        <5>2. CASE t[k] \notin C
          BY <4>2, <5>2
        <5>. QED  BY <2>5, <5>1, <5>2
      <4>. QED  BY <4>1, <4>2
    <3>2. k >= p \/ t[k] \notin C
      BY <1>3, <2>3, <2>5
    <3>3. PICK b \in 1 .. Len(m) : b = at + k - 1 /\ b # te
      <4>1. at + k - 1 \in 1 .. Len(m)
        BY <1>2, <1>5
      <4>2. at + k - 1 # te
        BY <1>3, <1>6, <3>1
      <4>. QED  BY <4>1, <4>2
    <3>4. m[b] = t[k]
      BY <1>2, <3>2, <3>3
    <3>. QED  BY <1>7, <3>3, <3>4
  <2>6. tx.at \in Nat \ {0} /\ tx.text \in Seq(Letter) /\ tx.at + n < Delim /\ w[tx.at + n] = 0
    BY <1>1, <1>2, <2>2
  <2>7. \A k \in 1 .. n : k >= q \/ tx.text[k] \notin Delims(w) => w[tx.at + k - 1] = tx.text[k]
    BY <1>1, <1>7, <2>5
  <2>8. q = 1 \/ q = n + 1 \/ tx.text[q - 1] \in Delims(w)
    BY <1>7, <2>4
  <2>. QED  BY <2>3, <2>6, <2>7, <2>8 DEF Ready
<1>10. New = Old \cup {run}
  <2>1. run \in RunsOf(t, C) /\ \A r \in RunsOf(t, C) : r[1] < q <=> r[1] < p \/ r = run
    BY NextRun
  <2>2. New = {r \in RunsOf(t, C) : r[1] < q} /\ Old = {r \in RunsOf(t, C) : r[1] < p}
    BY <1>7 DEF RunsBefore
  <2>. HIDE DEF New, Old, run, t, C
  <2>. QED  BY <2>1, <2>2
<1>11. ASSUME NEW r \in New
       PROVE  w[tx.at + r[2]] = 0
  <2>1. CASE r = run
    <3>1. tx.at + r[2] = te
      BY <1>1, <1>3, <1>6, <2>1
    <3>. QED  BY <1>7, <3>1
  <2>2. CASE r \in Old
    <3>1. r[2] \in 1 .. n
      BY <2>2, RunsEndBefore
    <3>2. PICK b \in 1 .. Len(m) : b = tx.at + r[2]
      <4>1. PICK j \in 1 .. n : j = r[2]
        BY <3>1
      <4>2. at + j \in 1 .. Len(m)
        BY <1>2, <1>5
      <4>. QED  BY <1>1, <4>1, <4>2
    <3>3. m[b] = 0
      BY <2>2, <3>2 DEF Returned
    <3>. QED  BY <1>8, <3>2, <3>3
  <2>. HIDE DEF New, Old
  <2>. QED  BY <1>10, <2>1, <2>2
<1>12. String(w, tx.at + f - 1) = token.text
  <2>1. run \in New /\ w[tx.at + run[2]] = 0
    BY <1>10, <1>11
  <2>2. String(w, TokenOf(tx, run).at) = TokenOf(tx, run).text
    <3>1. PICK r : r = run
      OBVIOUS
    <3>2. r \in RunsBefore(w, tx, q) /\ w[tx.at + r[2]] = 0
      BY <2>1, <3>1
    <3>3. String(w, TokenOf(tx, r).at) = TokenOf(tx, r).text
      BY ONLY <1>7, <1>9, <3>2, TokensAreStrings
    <3>. QED  BY <3>1, <3>3
  <2>3. TokenOf(tx, run).at = tx.at + f - 1
    BY DEF TokenOf
  <2>. QED  BY <2>2, <2>3
<1>13. [at |-> tx.at + f - 1, text |-> String(w, tx.at + f - 1)] = token
  BY <1>12 DEF TokenOf
<1>14. Returned(w, tx, Append(toks, token), q)
  <2>. DEFINE Few == {TokenOf(tx, r) : r \in Old}
              Many == {TokenOf(tx, r) : r \in New}
              more == Append(toks, token)
  <2>1. toks \in Seq(Few) /\ \A r \in Old : \E k \in DOMAIN toks : toks[k] = TokenOf(tx, r)
    BY DEF Returned
  <2>2. Few \subseteq Many /\ token \in Many
    BY <1>10
  <2>3. toks \in Seq(Many)
    <3>. HIDE DEF Few, Many
    <3>. QED  BY <2>1, <2>2, SeqMonotonic
  <2>. DEFINE l == Len(toks)
  <2>4. /\ l \in Nat /\ DOMAIN toks = 1 .. l /\ more \in Seq(Many)
        /\ DOMAIN more = 1 .. l + 1
        /\ \A k \in 1 .. l : more[k] = toks[k]
        /\ more[l + 1] = token
    <3>. HIDE DEF Many, token
    <3>. QED  BY <2>2, <2>3, AppendProperties
  <2>. HIDE DEF l, more
  <2>5. ASSUME NEW r \in New
        PROVE  \E k \in DOMAIN more : more[k] = TokenOf(tx, r)
    <3>. HIDE DEF New, Old, run
    <3>1. CASE r = run
      <4>1. l + 1 \in DOMAIN more /\ more[l + 1] = TokenOf(tx, r)
        BY <2>4, <3>1
      <4>. QED  BY <4>1
    <3>2. CASE r \in Old
      <4>1. PICK k \in DOMAIN toks : toks[k] = TokenOf(tx, r)
        BY <2>1, <3>2
      <4>2. k \in 1 .. l /\ k \in 1 .. l + 1
        BY <2>4, <4>1
      <4>3. more[k] = toks[k] /\ k \in DOMAIN more
        BY <2>4, <4>2
      <4>. QED  BY <4>1, <4>3
    <3>. QED  BY <1>10, <3>1, <3>2
  <2>6. ASSUME NEW k \in DOMAIN more, NEW j \in 1 .. k - 1
        PROVE  more[j].at < more[k].at
    <3>1. j \in 1 .. l /\ more[j] = toks[j]
      BY <2>4
    <3>2. CASE k \in 1 .. l
      BY <2>4, <3>1, <3>2 DEF Returned
    <3>3. CASE k = l + 1
      <4>1. toks[j] \in Few
        BY <2>1, <2>4, <3>1
      <4>2. PICK r \in Old : toks[j] = TokenOf(tx, r)
        BY <4>1
      <4>3. r[1] < p /\ r[1] \in Nat
        BY DEF RunsBefore, RunsOf
      <4>4. more[j].at = tx.at + r[1] - 1
        BY <3>1, <4>2 DEF TokenOf
      <4>5. more[k].at = tx.at + f - 1
        BY <2>4, <3>3 DEF TokenOf
      <4>. QED  BY <1>1, <1>3, <4>3, <4>4, <4>5
    <3>. QED  BY <2>4, <3>2, <3>3
  <2>. QED  BY <1>11, <2>4, <2>5, <2>6 DEF Returned, more
<1>. QED  BY <1>7, <1>9, <1>13, <1>14

\* A call of strtok goes on from the p-th character of a text.
LEMMA CallGoesOn ==
  ASSUME NEW m, MemoryOK(m), NEW tx, NEW p, Ready(m, tx, p), NEW toks, Returned(m, tx, toks, p),
         NEW before, NEW str, tx.at + p - 1 = IF str = NULL THEN before ELSE str,
         NEW res, res = strtok(m, before, str, Delim),
         NEW more, more = IF res.ret = NULL THEN toks
                          ELSE Append(toks, [at |-> res.ret, text |-> String(res.mem, res.ret)])
  PROVE  /\ MemoryOK(res.mem)
         /\ \E q \in Nat : /\ Ready(res.mem, tx, q) /\ Returned(res.mem, tx, more, q)
                           /\ GoesOnAt(tx, res.last, q)
         /\ res.ret = NULL => res.last = NULL
<1>. DEFINE C == Delims(m)
<1>1. PICK at, n \in Nat : at = tx.at /\ n = Len(tx.text)
  BY DEF Ready
<1>2. /\ at # 0 /\ at + n < Delim /\ m[at + n] = 0
      /\ p \in 1 .. n + 1 /\ tx.text \in Seq(Letter)
  BY <1>1 DEF Ready
<1>3. \A k \in p .. n : m[at + k - 1] = tx.text[k] /\ tx.text[k] # 0
  <2>1. ASSUME NEW k \in p .. n
        PROVE  m[at + k - 1] = tx.text[k] /\ tx.text[k] # 0
    <3>1. k \in 1 .. n /\ k >= p
      BY <1>2
    <3>2. m[at + k - 1] = tx.text[k]
      BY <1>1, <3>1 DEF Ready
    <3>3. tx.text[k] \in Letter
      BY <1>1, <1>2, <3>1
    <3>4. tx.text[k] # 0
      <4>1. 0 \notin Letter
        BY DEF Letter
      <4>. QED  BY <3>3, <4>1
    <3>. QED  BY <3>2, <3>4
  <2>. QED  BY <2>1
<1>4. PICK start, end \in Nat : start = at + p - 1 /\ end = at + n /\ start # 0 /\ start <= end
  BY <1>2
<1>5. \A a \in start .. end : a - at + 1 \in p .. n + 1 /\ at + (a - at + 1) - 1 = a
  BY <1>2, <1>4
<1>6. \A a \in start .. end - 1 : m[a] # 0
  <2>1. ASSUME NEW a \in start .. end - 1
        PROVE  m[a] # 0
    <3>1. PICK k \in p .. n : k = a - at + 1
      BY <1>2, <1>4
    <3>2. at + k - 1 = a
      BY <1>4, <3>1
    <3>. QED  BY <1>3, <3>2
  <2>. QED  BY <2>1
<1>7. 0 \notin C /\ C = CharsOf(m, Delim)
  BY DelimsAre DEF Delims
<1>8. start = IF str = NULL THEN before ELSE str
  BY <1>1, <1>4
<1>9. PICK from \in start .. end :
        /\ \A a \in start .. from - 1 : m[a] \in C
        /\ from = end => res = [mem |-> m, last |-> NULL, ret |-> NULL]
        /\ from # end =>
             \E te \in from + 1 .. end :
               /\ \A a \in from .. te - 1 : m[a] \notin C
               /\ te = end => res = [mem |-> m, last |-> NULL, ret |-> from]
               /\ te # end => /\ m[te] \in C
                              /\ res = [mem |-> [m EXCEPT ![te] = 0], last |-> te + 1,
                                        ret |-> from]
  <2>1. start \in Nat \ {0} /\ m[end] = 0
    BY <1>2, <1>4
  <2>. HIDE DEF C
  <2>2. \E from \in start .. end :
          /\ \A a \in start .. from - 1 : m[a] \in C
          /\ from = end =>
               strtok(m, before, str, Delim) = [mem |-> m, last |-> NULL, ret |-> NULL]
          /\ from # end =>
               \E te \in from + 1 .. end :
                 /\ \A a \in from .. te - 1 : m[a] \notin C
                 /\ te = end => strtok(m, before, str, Delim)
                                  = [mem |-> m, last |-> NULL, ret |-> from]
                 /\ te # end => /\ m[te] \in C
                                /\ strtok(m, before, str, Delim)
                                     = [mem |-> [m EXCEPT ![te] = 0], last |-> te + 1,
                                        ret |-> from]
    BY ONLY <1>4, <1>6, <1>7, <1>8, <2>1, StrtokIs
  <2>3. res = strtok(m, before, str, Delim)
    OBVIOUS
  <2>. QED  BY ONLY <2>2, <2>3
<1>10. PICK f \in p .. n + 1 : f = from - at + 1 /\ from = at + f - 1
  BY <1>5
<1>11. \A k \in p .. f - 1 : tx.text[k] \in C
  <2>1. ASSUME NEW k \in p .. f - 1
        PROVE  tx.text[k] \in C
    <3>1. PICK a \in start .. from - 1 : a = at + k - 1
      <4>1. at + k - 1 \in start .. from - 1
        BY <1>2, <1>4, <1>10
      <4>. QED  BY <4>1
    <3>2. k \in p .. n
      BY <1>2, <1>10
    <3>. QED  BY <1>3, <1>9, <3>1, <3>2
  <2>. QED  BY <2>1
<1>12. CASE from = end
  <2>1. res.mem = m /\ res.last = NULL /\ res.ret = NULL
    BY <1>9, <1>12
  <2>2. f = n + 1
    BY <1>4, <1>10, <1>12
  <2>3. \A k \in p .. n : tx.text[k] \in C
    <3>1. f - 1 = n
      BY <2>2
    <3>. QED  BY <1>11, <3>1
  <2>4. Ready(m, tx, n + 1) /\ Returned(m, tx, toks, n + 1)
    BY <1>1, <2>3, NoneLeft
  <2>5. GoesOnAt(tx, NULL, n + 1) /\ n + 1 \in Nat
    BY <1>1 DEF GoesOnAt
  <2>. QED  BY <2>1, <2>4, <2>5
<1>13. CASE from # end
  <2>1. PICK te \in from + 1 .. end :
          /\ \A a \in from .. te - 1 : m[a] \notin C
          /\ te = end => res = [mem |-> m, last |-> NULL, ret |-> from]
          /\ te # end => /\ m[te] \in C
                         /\ res = [mem |-> [m EXCEPT ![te] = 0], last |-> te + 1, ret |-> from]
    BY <1>9, <1>13
  <2>2. PICK e \in f + 1 .. n + 1 : e = te - at + 1 /\ te = at + e - 1
    BY <1>4, <1>10
  <2>3. f \in p .. n /\ (te = end <=> e = n + 1)
    BY <1>2, <1>4, <1>10, <1>13, <2>2
  <2>4. \A k \in f .. e - 1 : tx.text[k] \notin C
    <3>1. ASSUME NEW k \in f .. e - 1
          PROVE  tx.text[k] \notin C
      <4>1. PICK a \in from .. te - 1 : a = at + k - 1
        <5>1. at + k - 1 \in from .. te - 1
          BY <1>2, <1>10, <2>2
        <5>. QED  BY <5>1
      <4>2. k \in p .. n
        BY <1>2, <1>10, <2>2
      <4>. QED  BY <1>3, <2>1, <4>1, <4>2
    <3>. QED  BY <3>1
  <2>5. e # n + 1 => tx.text[e] \in C
    <3>1. ASSUME e # n + 1
          PROVE  tx.text[e] \in C
      <4>1. e \in p .. n
        BY <1>2, <1>10, <2>2, <3>1
      <4>2. m[te] \in C
        BY <2>1, <2>3, <3>1
      <4>. QED  BY <1>3, <2>2, <4>1, <4>2
    <3>. QED  BY <3>1
  <2>6. PICK w, q : w = Cut(m, tx, e) /\ q = Behind(tx, e)
    OBVIOUS
  <2>. DEFINE token == [at |-> tx.at + f - 1, text |-> String(w, tx.at + f - 1)]
  <2>a. MemoryOK(w) /\ Ready(w, tx, q) /\ Returned(w, tx, Append(toks, token), q)
    <3>1. MemoryOK(m) /\ Ready(m, tx, p) /\ Returned(m, tx, toks, p)
      OBVIOUS
    <3>2. NextToken(m, tx, p, f, e)
      BY <1>1, <1>11, <2>3, <2>4, <2>5 DEF NextToken
    <3>. HIDE DEF C
    <3>. QED  BY ONLY <2>6, <3>1, <3>2, TokenFound
  <2>b. /\ e = n + 1 => w = m /\ q = n + 1
        /\ e # n + 1 => w = [m EXCEPT ![tx.at + e - 1] = 0] /\ q = e + 1
    BY <1>1, <2>6 DEF Cut, Behind
  <2>7. res.mem = w /\ res.ret = from /\ from # NULL
    <3>1. tx.at + e - 1 = te
      BY <1>1, <2>2
    <3>2. from # NULL
      BY <1>4 DEF NULL
    <3>3. CASE e = n + 1
      BY <2>1, <2>3, <2>b, <3>2, <3>3
    <3>4. CASE e # n + 1
      BY <2>1, <2>3, <2>b, <3>1, <3>2, <3>4
    <3>. QED  BY <3>3, <3>4
  <2>8. more = Append(toks, token)
    <3>1. tx.at + f - 1 = from
      BY <1>1, <1>10
    <3>. QED  BY <2>7, <3>1
  <2>9. q \in Nat /\ GoesOnAt(tx, res.last, q)
    <3>1. CASE e = n + 1
      <4>1. res.last = NULL /\ q = n + 1
        BY <2>1, <2>3, <2>b, <3>1
      <4>. QED  BY <1>1, <4>1 DEF GoesOnAt
    <3>2. CASE e # n + 1
      <4>1. res.last = te + 1 /\ q = e + 1
        BY <2>1, <2>3, <2>b, <3>2
      <4>2. te \in Nat /\ e \in Nat
        <5>1. from \in Nat /\ p \in Nat
          BY <1>2, <1>4
        <5>2. f \in Nat
          BY <5>1
        <5>. QED  BY <5>1, <5>2
      <4>3. te + 1 # NULL /\ te + 1 = tx.at + (e + 1) - 1 /\ e + 1 \in Nat
        <5>1. te + 1 # NULL
          BY <4>2 DEF NULL
        <5>2. te + 1 = at + (e + 1) - 1
          BY <2>2, <4>2
        <5>. QED  BY <1>1, <4>2, <5>1, <5>2
      <4>. QED  BY <4>1, <4>3 DEF GoesOnAt
    <3>. QED  BY <3>1, <3>2
  <2>. HIDE DEF token
  <2>. QED  BY <2>7, <2>8, <2>9, <2>a
<1>. QED  BY <1>12, <1>13

\* A text is handed over: all of its tokens are left.
LEMMA TextBegins ==
  ASSUME NEW m, MemoryOK(m), NEW str \in Pointers, str < Delim,
         NEW tx, tx = [at |-> str, text |-> String(m, str)]
  PROVE  Ready(m, tx, 1) /\ Returned(m, tx, <<>>, 1)
<1>1. m \in Seq(Byte) /\ Delim \in Nat /\ Delim <= Len(m) /\ Len(m) \in Nat /\ str \in 1 .. Len(m)
  BY DEF MemoryOK
<1>2. PICK z \in str .. Delim - 1 : Ends(m, str, z)
  <2>1. Delim - 1 \in str .. Len(m) /\ m[Delim - 1] = 0
    BY <1>1 DEF MemoryOK
  <2>. QED  BY <1>1, <2>1, StringEnds
<1>3. PICK n \in Nat : n = z - str
  BY <1>1
<1>4. tx.at = str /\ tx.text = String(m, str)
  OBVIOUS
<1>5. /\ tx.text \in Seq(Letter) /\ Len(tx.text) = n
      /\ \A k \in 1 .. n : tx.text[k] = m[str + k - 1]
  <2>1. str \in Nat \ {0}
    BY <1>1
  <2>2. /\ Len(String(m, str)) = z - str /\ String(m, str) \in Seq(Letter)
        /\ \A k \in 1 .. z - str : String(m, str)[k] = m[str + k - 1]
    <3>1. m \in Seq(Byte)
      BY <1>1
    <3>. QED  BY ONLY <1>2, <2>1, <3>1, StringBytes
  <2>. QED  BY ONLY <1>3, <1>4, <2>2
<1>6. Ready(m, tx, 1)
  <2>1. str + n = z /\ z < Delim /\ m[z] = 0 /\ 1 \in 1 .. n + 1 /\ str \in Nat \ {0}
    BY <1>1, <1>2, <1>3 DEF Ends
  <2>2. \A k \in 1 .. n : m[str + k - 1] = tx.text[k]
    BY <1>5
  <2>. QED  BY <1>4, <1>5, <2>1, <2>2 DEF Ready
<1>7. RunsBefore(m, tx, 1) = {}
  <2>1. ASSUME NEW r \in RunsOf(tx.text, Delims(m))
        PROVE  ~(r[1] < 1)
    BY DEF RunsOf
  <2>. QED  BY <2>1 DEF RunsBefore
<1>8. Returned(m, tx, <<>>, 1)
  BY <1>7 DEF Returned
<1>. QED  BY <1>6, <1>8


-----------------------------------------------------------------------------
(* The invariant *)

\* The caller of strtok has not handed over a text yet.
Untouched == text = NoText /\ tokens = <<>> /\ last = NULL

\* A text has been begun, and strtok goes on where the tokens it has
\* returned end.
InText ==
  \E p \in Nat : Ready(mem, text, p) /\ Returned(mem, text, tokens, p) /\ GoesOnAt(text, last, p)

TokensInv ==
  /\ call.fn # "strtok" => Untouched
  /\ call.fn = "strtok" => MemoryOK(mem) /\ (Untouched \/ InText) /\ (ret = NULL => last = NULL)

\* The memories that strtok is first called in are such.
LEMMA TextsAreOK ==
  ASSUME NEW m \in Texts
  PROVE  MemoryOK(m)
<1>1. /\ m \in Seq(0 .. 255) /\ Delim <= Len(m) /\ m[Delim - 1] = 0 /\ m[Len(m)] = 0
      /\ \A p \in Pointers : p <= Len(m)
      /\ Delim \in Nat /\ Delim > 1 /\ Pointers \subseteq Nat \ {0}
  BY MemoryAssumption
<1>2. \A p \in Pointers : p \in 1 .. Len(m)
  <2>1. ASSUME NEW p \in Pointers
        PROVE  p \in 1 .. Len(m)
    <3>1. p \in Nat /\ p # 0 /\ p <= Len(m) /\ Len(m) \in Nat
      BY <1>1
    <3>. QED  BY <3>1
  <2>. QED  BY <2>1
<1>. QED  BY <1>1, <1>2 DEF MemoryOK, Byte

\* A call that is not one of strtok leaves the history alone.
LEMMA OtherCall ==
  ASSUME TokensInv, call.fn # "strtok", call'.fn # "strtok", UNCHANGED <<last, text, tokens>>
  PROVE  TokensInv'
BY DEF TokensInv, Untouched

\* A call of strtok, in a memory that it may be called in.
LEMMA TokeniseStep ==
  ASSUME TokensInv, MemoryOK(mem), Tokenise
  PROVE  TokensInv'
<1>1. PICK str \in Pointers \cup {NULL} :
        LET result == strtok(mem, last, str, Delim)
            begun == IF str = NULL THEN tokens ELSE <<>>
        IN /\ str < Delim
           /\ mem' = result.mem /\ last' = result.last /\ ret' = result.ret
           /\ call' = [fn |-> "strtok", str |-> str]
           /\ text' = IF str = NULL THEN text ELSE [at |-> str, text |-> String(mem, str)]
           /\ tokens' = IF result.ret = NULL THEN begun
                        ELSE Append(begun, [at |-> result.ret,
                                            text |-> String(result.mem, result.ret)])
  BY DEF Tokenise
<1>. DEFINE result == strtok(mem, last, str, Delim)
<1>2. call'.fn = "strtok"
  BY <1>1
<1>3. Untouched \/ InText
  BY DEF TokensInv
<1>4. CASE str = NULL /\ last = NULL
  <2>1. result = [mem |-> mem, last |-> NULL, ret |-> NULL]
    BY <1>4 DEF strtok
  <2>2. mem' = mem /\ last' = NULL /\ ret' = NULL
    BY <1>1, <2>1
  <2>3. text' = text /\ tokens' = tokens
    BY <1>1, <1>4, <2>1
  <2>4. Untouched' \/ InText'
    BY <1>3, <1>4, <2>2, <2>3 DEF Untouched, InText
  <2>. QED  BY <1>2, <2>2, <2>4 DEF TokensInv
<1>5. ASSUME NEW tx, NEW p \in Nat, NEW toks,
             Ready(mem, tx, p), Returned(mem, tx, toks, p),
             tx.at + p - 1 = IF str = NULL THEN last ELSE str,
             text' = tx, toks = IF str = NULL THEN tokens ELSE <<>>
      PROVE  TokensInv'
  <2>1. PICK more : more = IF result.ret = NULL THEN toks
                           ELSE Append(toks, [at |-> result.ret,
                                              text |-> String(result.mem, result.ret)])
    OBVIOUS
  <2>2. /\ MemoryOK(result.mem)
        /\ \E q \in Nat : /\ Ready(result.mem, tx, q) /\ Returned(result.mem, tx, more, q)
                          /\ GoesOnAt(tx, result.last, q)
        /\ result.ret = NULL => result.last = NULL
    <3>1. PICK res : res = result
      OBVIOUS
    <3>2. res = strtok(mem, last, str, Delim)
      BY <3>1
    <3>3. more = IF res.ret = NULL THEN toks
                 ELSE Append(toks, [at |-> res.ret, text |-> String(res.mem, res.ret)])
      BY <2>1, <3>1
    <3>4. MemoryOK(mem)
      OBVIOUS
    <3>5. /\ MemoryOK(res.mem)
          /\ \E q \in Nat : /\ Ready(res.mem, tx, q) /\ Returned(res.mem, tx, more, q)
                            /\ GoesOnAt(tx, res.last, q)
          /\ res.ret = NULL => res.last = NULL
      BY ONLY <1>5, <3>2, <3>3, <3>4, CallGoesOn
    <3>. QED  BY <3>1, <3>5
  <2>3. mem' = result.mem /\ last' = result.last /\ ret' = result.ret /\ text' = tx
        /\ tokens' = more
    BY <1>1, <1>5, <2>1
  <2>. HIDE DEF result
  <2>4. InText'
    BY <2>2, <2>3 DEF InText
  <2>. QED  BY <1>2, <2>2, <2>3, <2>4 DEF TokensInv
<1>6. CASE str = NULL /\ last # NULL
  <2>1. PICK p \in Nat : /\ Ready(mem, text, p) /\ Returned(mem, text, tokens, p)
                         /\ GoesOnAt(text, last, p)
    BY <1>3, <1>6 DEF Untouched, InText
  <2>2. text.at + p - 1 = IF str = NULL THEN last ELSE str
    BY <1>6, <2>1 DEF GoesOnAt
  <2>3. text' = text /\ tokens = IF str = NULL THEN tokens ELSE <<>>
    BY <1>1, <1>6
  <2>. QED  BY <1>5, <2>1, <2>2, <2>3
<1>7. CASE str # NULL
  <2>1. PICK tx : tx = [at |-> str, text |-> String(mem, str)]
    OBVIOUS
  <2>2. str \in Pointers /\ str < Delim
    BY <1>1, <1>7
  <2>3. Ready(mem, tx, 1) /\ Returned(mem, tx, <<>>, 1)
    BY <2>1, <2>2, TextBegins
  <2>4. tx.at + 1 - 1 = IF str = NULL THEN last ELSE str
    <3>1. str \in Nat
      BY <2>2, MemoryAssumption
    <3>. QED  BY <1>7, <2>1, <3>1
  <2>5. text' = tx /\ <<>> = IF str = NULL THEN tokens ELSE <<>>
    BY <1>1, <1>7, <2>1
  <2>. QED  BY <1>5, <2>3, <2>4, <2>5
<1>. QED  BY <1>4, <1>6, <1>7

\* Initially and after every step the tokens returned are those before the
\* place where strtok goes on.
LEMMA TokensInvHolds == Spec => []TokensInv
<1>1. Init => TokensInv
  BY DEF Init, NoCall, TokensInv, Untouched
<1>2. ASSUME TokensInv, [Next]_vars
      PROVE  TokensInv'
  <2>1. ASSUME NEW M, Fresh(M)
        PROVE  call.fn # "strtok"
    BY <2>1 DEF Fresh, NoCall
  <2>2. CASE CopyCall
    <3>1. call'.fn # "strtok"
      BY <2>2 DEF CopyCall
    <3>2. call.fn # "strtok" /\ UNCHANGED <<last, text, tokens>>
      BY <2>1, <2>2 DEF CopyCall, history
    <3>. QED  BY <1>2, <3>1, <3>2, OtherCall
  <2>3. CASE SetCall
    <3>1. call'.fn # "strtok"
      BY <2>3 DEF SetCall
    <3>2. call.fn # "strtok" /\ UNCHANGED <<last, text, tokens>>
      BY <2>1, <2>3 DEF SetCall, history
    <3>. QED  BY <1>2, <3>1, <3>2, OtherCall
  <2>4. CASE Question
    <3>1. ASSUME NEW fn, NEW p, NEW q, NEW c, NEW n, Ask(fn, p, q, c, n), fn # "strtok"
          PROVE  call'.fn # "strtok" /\ UNCHANGED <<last, text, tokens>>
      BY <3>1 DEF Ask, history
    <3>2. call'.fn # "strtok" /\ UNCHANGED <<last, text, tokens>>
      BY <2>4, <3>1 DEF Question
    <3>3. call.fn # "strtok"
      BY <2>1, <2>4 DEF Question
    <3>. QED  BY <1>2, <3>2, <3>3, OtherCall
  <2>5. CASE Classify
    <3>1. call'.fn # "strtok"
      BY <2>5 DEF Classify
    <3>2. call.fn # "strtok" /\ UNCHANGED <<last, text, tokens>>
      BY <2>1, <2>5 DEF Classify, history
    <3>. QED  BY <1>2, <3>1, <3>2, OtherCall
  <2>6. CASE Tokenise
    <3>1. MemoryOK(mem)
      BY <1>2, <2>6, TextsAreOK DEF Tokenise, Fresh, TokensInv
    <3>. QED  BY <1>2, <2>6, <3>1, TokeniseStep
  <2>7. CASE PrintNumber
    <3>1. call'.fn # "strtok"
      BY <2>7 DEF PrintNumber
    <3>2. call.fn # "strtok" /\ UNCHANGED <<last, text, tokens>>
      BY <2>1, <2>7 DEF PrintNumber, history
    <3>. QED  BY <1>2, <3>1, <3>2, OtherCall
  <2>8. CASE ReadNumber
    <3>1. call'.fn # "strtok"
      BY <2>8 DEF ReadNumber
    <3>2. call.fn # "strtok" /\ UNCHANGED <<last, text, tokens>>
      BY <2>1, <2>8 DEF ReadNumber, history
    <3>. QED  BY <1>2, <3>1, <3>2, OtherCall
  <2>9. CASE Done \/ UNCHANGED vars
    <3>1. UNCHANGED vars
      BY <2>9 DEF Done
    <3>. QED  BY <1>2, <3>1 DEF vars, TokensInv, Untouched, InText
  <2>. QED  BY <1>2, <2>2, <2>3, <2>4, <2>5, <2>6, <2>7, <2>8, <2>9 DEF Next
<1>. QED  BY <1>1, <1>2, PTL DEF Spec

\* The tokens of a text are those of its stretches without a delimiter.
LEMMA TokensOfIs ==
  ASSUME MemoryOK(mem), NEW tx, NEW p, Ready(mem, tx, p)
  PROVE  TokensOf(tx) = {TokenOf(tx, r) : r \in RunsOf(tx.text, Delims(mem))}
<1>1. \A k : tx.text[k] \notin Delims(mem) <=> ~(tx.text[k] \in Delims(mem))
  OBVIOUS
<1>2. ToSet(String(mem, Delim)) = Delims(mem)
  BY DelimsAre
<1>. QED  BY <1>2 DEF TokensOf, RunsOf, TokenOf

\* What the invariant says of a text that has been begun.
LEMMA InOrder ==
  ASSUME MemoryOK(mem), InText, call.fn = "strtok" /\ ret = NULL => last = NULL
  PROVE  TokensComeInOrder
<1>1. PICK p \in Nat : Ready(mem, text, p) /\ Returned(mem, text, tokens, p) /\ GoesOnAt(text, last, p)
  BY DEF InText
<1>. DEFINE All == RunsOf(text.text, Delims(mem))
            Some == RunsBefore(mem, text, p)
            returned == ToSet(tokens)
            rest == TokensOf(text) \ returned
<1>2. TokensOf(text) = {TokenOf(text, r) : r \in All}
  BY <1>1, TokensOfIs
<1>3. Some = {r \in All : r[1] < p}
  BY DEF RunsBefore
<1>4. tokens \in Seq({TokenOf(text, r) : r \in Some})
  BY <1>1 DEF Returned
<1>5. ASSUME NEW k \in DOMAIN tokens
      PROVE  \E r \in Some : tokens[k] = TokenOf(text, r)
  <2>1. tokens[k] \in {TokenOf(text, r) : r \in Some}
    <3>. DEFINE Few == {TokenOf(text, r) : r \in Some}
    <3>1. tokens \in Seq(Few)
      BY <1>4
    <3>. HIDE DEF Few
    <3>2. tokens[k] \in Few
      BY <3>1
    <3>. QED  BY <3>2 DEF Few
  <2>. QED  BY <2>1
<1>6. returned = {tokens[k] : k \in DOMAIN tokens}
  BY DEF ToSet
<1>. HIDE DEF All, Some
<1>7. returned = {TokenOf(text, r) : r \in Some}
  <2>1. \A r \in Some : \E k \in DOMAIN tokens : tokens[k] = TokenOf(text, r)
    BY <1>1 DEF Returned, Some
  <2>. QED  BY <1>5, <1>6, <2>1
<1>8. returned \subseteq TokensOf(text)
  BY <1>2, <1>3, <1>7
<1>9. \A r \in All : r[1] \in 1 .. Len(text.text)
  BY DEF All, RunsOf
<1>10. PICK at, n \in Nat : at = text.at /\ n = Len(text.text)
  BY <1>1 DEF Ready
<1>11. ASSUME NEW k \in DOMAIN tokens
       PROVE  /\ String(mem, tokens[k].at) = tokens[k].text
              /\ \A j \in 1 .. k - 1 : tokens[j].at < tokens[k].at
              /\ \A t \in rest : tokens[k].at < t.at
  <2>1. PICK r \in Some : tokens[k] = TokenOf(text, r)
    BY <1>5
  <2>2. String(mem, TokenOf(text, r).at) = TokenOf(text, r).text
    <3>1. r \in RunsBefore(mem, text, p) /\ mem[text.at + r[2]] = 0
      BY <1>1 DEF Some, Returned
    <3>. QED  BY <1>1, <3>1, TokensAreStrings
  <2>3. \A j \in 1 .. k - 1 : tokens[j].at < tokens[k].at
    BY <1>1 DEF Returned
  <2>4. ASSUME NEW t \in rest
        PROVE  tokens[k].at < t.at
    <3>1. PICK l \in All : t = TokenOf(text, l)
      BY <1>2
    <3>2. l \notin Some
      BY <1>7, <3>1
    <3>3. ~(l[1] < p) /\ r[1] < p
      BY <1>3, <3>2
    <3>4. PICK x, y \in Nat : x = r[1] /\ y = l[1]
      BY <1>3, <1>9, <1>10
    <3>5. tokens[k].at = at + x - 1 /\ t.at = at + y - 1
      BY <1>10, <2>1, <3>1, <3>4 DEF TokenOf
    <3>6. x < y
      BY <3>3, <3>4
    <3>. QED  BY <3>5, <3>6
  <2>. QED  BY <2>1, <2>2, <2>3, <2>4
<1>12. ASSUME call.fn = "strtok", ret = NULL
       PROVE  rest = {}
  <2>1. p = n + 1
    BY <1>1, <1>10, <1>12 DEF GoesOnAt
  <2>2. All \subseteq Some
    <3>1. ASSUME NEW r \in All
          PROVE  r[1] < p
      BY <1>9, <1>10, <2>1
    <3>. QED  BY <1>3, <3>1
  <2>. QED  BY <1>2, <1>7, <2>2
<1>. HIDE DEF rest, returned
<1>13. PICK done : done = returned
  OBVIOUS
<1>. QED  BY <1>8, <1>11, <1>12 DEF TokensComeInOrder, rest, returned

\* strtok returns the tokens of the text begun last, in order and none twice,
\* and nothing when none is left, and they stay strings (string.c:229-248):
\* in every memory, for any delimiters and any texts.
THEOREM TokensAreInOrder == Spec => []TokensComeInOrder
<1>1. TokensInv => TokensComeInOrder
  <2>1. ASSUME Untouched
        PROVE  TokensComeInOrder
    <3>1. ToSet(tokens) = {} /\ DOMAIN tokens = {}
      BY <2>1 DEF Untouched, ToSet
    <3>2. TokensOf(text) = {}
      <4>1. Len(text.text) = 0 /\ 1 .. 0 = {}
        BY <2>1 DEF Untouched, NoText
      <4>. QED  BY <4>1 DEF TokensOf
    <3>. QED  BY <3>1, <3>2 DEF TokensComeInOrder
  <2>. QED  BY <2>1, InOrder DEF TokensInv
<1>. QED  BY <1>1, TokensInvHolds, PTL

-----------------------------------------------------------------------------
(* Copies *)

\* Offsets in the memory, none of them read from where one before it has
\* been written.
Spread(m, d, s, n, offsets) ==
  /\ offsets \in [1 .. n -> Nat]
  /\ \A k \in 1 .. n : d + offsets[k] \in 1 .. Len(m) /\ s + offsets[k] \in 1 .. Len(m)
  /\ \A k \in 1 .. n : \A j \in 1 .. k - 1 : s + offsets[k] # d + offsets[j]

\* The memory with the bytes at these offsets copied at once.
Scattered(m, d, s, n, offsets) ==
  [a \in 1 .. Len(m) |->
     IF \E j \in 1 .. n : a = d + offsets[j] THEN m[s + (a - d)] ELSE m[a]]

\* Bytes copied one after the other are then those that were there before.
LEMMA CopyIs ==
  ASSUME NEW m \in Seq(Byte), NEW d \in Nat, NEW s \in Nat, NEW n \in Nat,
         NEW offsets, Spread(m, d, s, n, offsets)
  PROVE  Copy(m, d, s, offsets) = Scattered(m, d, s, n, offsets)
<1>. /\ offsets \in [1 .. n -> Nat]
     /\ \A k \in 1 .. n : d + offsets[k] \in 1 .. Len(m) /\ s + offsets[k] \in 1 .. Len(m)
     /\ \A k \in 1 .. n : \A j \in 1 .. k - 1 : s + offsets[k] # d + offsets[j]
  BY DEF Spread
<1>. DEFINE A == 1 .. Len(m)
            D == [A -> Byte]
            After(k) == [a \in A |-> IF \E j \in 1 .. k : a = d + offsets[j] THEN m[s + (a - d)]
                                     ELSE m[a]]
            step == [x \in D \X (1 .. n) |->
                       [x[1] EXCEPT ![d + offsets[x[2]]] = x[1][s + offsets[x[2]]]]]
            Goes(f) == f = [T \in SUBSET (1 .. n) |->
                              IF T = {} THEN m
                              ELSE [f[T \ {Max(T)}] EXCEPT ![d + offsets[Max(T)]]
                                      = f[T \ {Max(T)}][s + offsets[Max(T)]]]]
            g == CHOOSE f : Goes(f)
<1>1. m \in D /\ step \in [D \X (1 .. n) -> D]
  <2>1. m \in D
    OBVIOUS
  <2>2. ASSUME NEW x \in D \X (1 .. n)
        PROVE  [x[1] EXCEPT ![d + offsets[x[2]]] = x[1][s + offsets[x[2]]]] \in D
    <3>1. PICK k \in 1 .. n, y \in D : x[2] = k /\ x[1] = y
      OBVIOUS
    <3>2. d + offsets[k] \in A /\ s + offsets[k] \in A
      OBVIOUS
    <3>. HIDE DEF A
    <3>. QED  BY <3>1, <3>2
  <2>. QED  BY <2>1, <2>2
<1>2. \E f : Goes(f)
  <2>1. PICK f \in [SUBSET (1 .. n) -> D] : GoesThrough(f, n, m, step)
    <3>. HIDE DEF D, step
    <3>. QED  BY <1>1, GoesThroughExists
  <2>2. ASSUME NEW T \in SUBSET (1 .. n), T # {}
        PROVE  f[T] = [f[T \ {Max(T)}] EXCEPT ![d + offsets[Max(T)]]
                         = f[T \ {Max(T)}][s + offsets[Max(T)]]]
    <3>1. Max(T) \in T
      BY <2>2, GreatestOf
    <3>2. <<f[T \ {Max(T)}], Max(T)>> \in D \X (1 .. n)
      BY <3>1
    <3>3. f[T] = step[<<f[T \ {Max(T)}], Max(T)>>]
      BY <2>1, <2>2 DEF GoesThrough
    <3>. HIDE DEF D
    <3>. QED  BY <3>2, <3>3
  <2>3. f[{}] = m
    BY <2>1 DEF GoesThrough
  <2>4. f = [T \in SUBSET (1 .. n) |-> f[T]]
    OBVIOUS
  <2>. HIDE DEF D
  <2>5. Goes(f)
    BY <2>2, <2>3, <2>4
  <2>. QED  BY <2>5
<1>3. Goes(g)
  <2>. HIDE DEF Goes
  <2>. QED  BY <1>2
<1>4. Copy(m, d, s, offsets) = g[1 .. n]
  BY DEF Copy, FoldLeft, MapThenFoldSet
<1>. DEFINE v == [k \in 0 .. n |-> After(k)]
<1>5. g[{}] = v[0]
  <2>1. g[{}] = m
    BY <1>3
  <2>2. m = [a \in A |-> m[a]]
    BY <1>1
  <2>3. After(0) = [a \in A |-> m[a]]
    OBVIOUS
  <2>4. v[0] = After(0)
    OBVIOUS
  <2>. HIDE DEF v, After, g, A
  <2>. QED  BY <2>1, <2>2, <2>3, <2>4
<1>6. ASSUME NEW k \in 1 .. n, g[(1 .. k) \ {k}] = v[k - 1]
      PROVE  g[1 .. k] = v[k]
  <2>1. Max(1 .. k) = k /\ 1 .. k \in SUBSET (1 .. n) /\ 1 .. k # {}
    BY GreatestIs
  <2>. DEFINE f == g[(1 .. k) \ {k}]
  <2>3. g[1 .. k] = [f EXCEPT ![d + offsets[k]] = f[s + offsets[k]]]
    <3>1. PICK T \in SUBSET (1 .. n) : T = 1 .. k
      BY <2>1
    <3>2. g[T] = [g[T \ {Max(T)}] EXCEPT ![d + offsets[Max(T)]]
                         = g[T \ {Max(T)}][s + offsets[Max(T)]]]
      <4>1. T # {}
        BY <2>1, <3>1
      <4>. HIDE DEF g
      <4>. QED  BY <1>3, <4>1
    <3>. HIDE DEF g
    <3>. QED  BY <2>1, <3>1, <3>2
  <2>4. f = After(k - 1)
    <3>1. k - 1 \in 0 .. n
      OBVIOUS
    <3>. HIDE DEF After, g
    <3>. QED  BY <1>6, <3>1
  <2>5. d + offsets[k] \in A /\ s + offsets[k] \in A /\ offsets[k] \in Nat
    OBVIOUS
  <2>6. ASSUME NEW a \in A
        PROVE  [f EXCEPT ![d + offsets[k]] = f[s + offsets[k]]][a] = After(k)[a]
    <3>1. [f EXCEPT ![d + offsets[k]] = f[s + offsets[k]]][a]
            = IF a = d + offsets[k] THEN f[s + offsets[k]] ELSE f[a]
      <4>1. DOMAIN After(k - 1) = A
        OBVIOUS
      <4>2. PICK h, x, y : h = f /\ x = d + offsets[k] /\ y = f[s + offsets[k]]
        OBVIOUS
      <4>3. DOMAIN h = A
        <5>. HIDE DEF After, A, f
        <5>. QED  BY <2>4, <4>1, <4>2
      <4>4. [h EXCEPT ![x] = y][a] = IF a = x THEN y ELSE h[a]
        BY <4>3
      <4>. HIDE DEF f
      <4>. QED  BY <4>2, <4>4
    <3>2. f[s + offsets[k]] = m[s + offsets[k]]
      <4>1. ~ \E j \in 1 .. k - 1 : s + offsets[k] = d + offsets[j]
        OBVIOUS
      <4>2. PICK b \in A : b = s + offsets[k]
        BY <2>5
      <4>3. After(k - 1)[b] = IF \E j \in 1 .. k - 1 : b = d + offsets[j] THEN m[s + (b - d)] ELSE m[b]
        OBVIOUS
      <4>. HIDE DEF After, A, g
      <4>. QED  BY <2>4, <4>1, <4>2, <4>3
    <3>3. CASE a = d + offsets[k]
      <4>1. a - d = offsets[k]
        BY <2>5, <3>3
      <4>2. After(k)[a] = m[s + (a - d)]
        <5>1. \E j \in 1 .. k : a = d + offsets[j]
          BY <3>3
        <5>. QED  BY <5>1
      <4>. QED  BY <3>1, <3>2, <3>3, <4>1, <4>2
    <3>4. CASE a # d + offsets[k]
      <4>1. (\E j \in 1 .. k : a = d + offsets[j]) <=> (\E j \in 1 .. k - 1 : a = d + offsets[j])
        <5>1. \A j \in 1 .. k : j \in 1 .. k - 1 \/ j = k
          OBVIOUS
        <5>2. \A j \in 1 .. k - 1 : j \in 1 .. k
          OBVIOUS
        <5>. QED  BY <3>4, <5>1, <5>2
      <4>2. After(k)[a] = After(k - 1)[a]
        BY <4>1
      <4>3. f[a] = After(k - 1)[a]
        <5>. HIDE DEF After, g
        <5>. QED  BY <2>4
      <4>. QED  BY <3>1, <3>4, <4>2, <4>3
    <3>. QED  BY <3>3, <3>4
  <2>7. [f EXCEPT ![d + offsets[k]] = f[s + offsets[k]]] = After(k)
    <3>1. DOMAIN f = A
      <4>1. DOMAIN After(k - 1) = A
        OBVIOUS
      <4>. HIDE DEF After, A, g
      <4>. QED  BY <2>4, <4>1
    <3>2. After(k) = [a \in A |-> After(k)[a]]
      OBVIOUS
    <3>3. [f EXCEPT ![d + offsets[k]] = f[s + offsets[k]]]
            = [a \in A |-> [f EXCEPT ![d + offsets[k]] = f[s + offsets[k]]][a]]
      <4>. HIDE DEF f, A
      <4>. QED  BY <3>1
    <3>. HIDE DEF After, f, A
    <3>. QED  BY <2>6, <3>2, <3>3
  <2>8. v[k] = After(k)
    OBVIOUS
  <2>. HIDE DEF After, f, g, v
  <2>. QED  BY <2>3, <2>7, <2>8 DEF f
<1>7. g[1 .. n] = v[n]
  <2>. HIDE DEF g, v
  <2>. QED  BY ONLY n \in Nat, <1>5, <1>6, GoesThroughAll
<1>8. v[n] = After(n)
  OBVIOUS
<1>. HIDE DEF g, v
<1>. QED  BY <1>4, <1>7, <1>8 DEF Scattered

\* memset writes its byte n times, as far as there is memory.
LEMMA MemsetIs ==
  ASSUME NEW m \in Seq(Byte), NEW d \in Nat \ {0}, NEW c \in Int, NEW n \in Nat
  PROVE  memset(m, d, c, n)
           = [a \in 1 .. Len(m) |-> IF a \in d .. d + n - 1 THEN c % 256 ELSE m[a]]
<1>0. PICK b : b = c % 256
  OBVIOUS
<1>. DEFINE A == 1 .. Len(m)
            D == [A -> Byte \cup {b}]
            up == UpTo(n)
            After(k) == [a \in A |-> IF a \in d .. d + k - 1 THEN b ELSE m[a]]
            step == [x \in D \X (1 .. n) |-> [x[1] EXCEPT ![d + up[x[2]]] = b]]
            Goes(f) == f = [T \in SUBSET (1 .. n) |->
                              IF T = {} THEN m ELSE [f[T \ {Max(T)}] EXCEPT ![d + up[Max(T)]] = b]]
            g == CHOOSE f : Goes(f)
<1>a. DOMAIN up = 1 .. n /\ \A k \in 1 .. n : up[k] = k - 1
  BY DEF UpTo
<1>. HIDE DEF up
<1>1. m \in D /\ step \in [D \X (1 .. n) -> D]
  <2>1. m \in D
    OBVIOUS
  <2>2. ASSUME NEW x \in D \X (1 .. n)
        PROVE  [x[1] EXCEPT ![d + up[x[2]]] = b] \in D
    <3>1. PICK k \in 1 .. n, y \in D : x[2] = k /\ x[1] = y
      OBVIOUS
    <3>. HIDE DEF A
    <3>. QED  BY <3>1
  <2>. QED  BY <2>1, <2>2
<1>2. \E f : Goes(f)
  <2>1. PICK f \in [SUBSET (1 .. n) -> D] : GoesThrough(f, n, m, step)
    <3>. HIDE DEF D, step
    <3>. QED  BY <1>1, GoesThroughExists
  <2>2. ASSUME NEW T \in SUBSET (1 .. n), T # {}
        PROVE  f[T] = [f[T \ {Max(T)}] EXCEPT ![d + up[Max(T)]] = b]
    <3>1. Max(T) \in T
      BY <2>2, GreatestOf
    <3>2. <<f[T \ {Max(T)}], Max(T)>> \in D \X (1 .. n)
      BY <3>1
    <3>3. f[T] = step[<<f[T \ {Max(T)}], Max(T)>>]
      BY <2>1, <2>2 DEF GoesThrough
    <3>. HIDE DEF D
    <3>. QED  BY <3>2, <3>3
  <2>3. f[{}] = m
    BY <2>1 DEF GoesThrough
  <2>4. f = [T \in SUBSET (1 .. n) |-> f[T]]
    OBVIOUS
  <2>. HIDE DEF D
  <2>5. Goes(f)
    BY <2>2, <2>3, <2>4
  <2>. QED  BY <2>5
<1>3. Goes(g)
  <2>. HIDE DEF Goes
  <2>. QED  BY <1>2
<1>4. memset(m, d, c, n) = g[1 .. n]
  BY <1>0, <1>a DEF memset, up, FoldLeft, MapThenFoldSet
<1>. DEFINE v == [k \in 0 .. n |-> After(k)]
<1>5. g[{}] = v[0]
  <2>1. g[{}] = m
    BY <1>3
  <2>2. m = [a \in A |-> m[a]]
    BY <1>1
  <2>3. After(0) = [a \in A |-> m[a]]
    <3>1. d .. d + 0 - 1 = {}
      OBVIOUS
    <3>. QED  BY <3>1
  <2>4. v[0] = After(0)
    OBVIOUS
  <2>. HIDE DEF v, After, g, A
  <2>. QED  BY <2>1, <2>2, <2>3, <2>4
<1>6. ASSUME NEW k \in 1 .. n, g[(1 .. k) \ {k}] = v[k - 1]
      PROVE  g[1 .. k] = v[k]
  <2>1. Max(1 .. k) = k /\ 1 .. k \in SUBSET (1 .. n) /\ 1 .. k # {}
    BY GreatestIs
  <2>. DEFINE f == g[(1 .. k) \ {k}]
  <2>2. g[1 .. k] = [f EXCEPT ![d + up[k]] = b]
    <3>1. PICK T \in SUBSET (1 .. n) : T = 1 .. k
      BY <2>1
    <3>2. g[T] = [g[T \ {Max(T)}] EXCEPT ![d + up[Max(T)]] = b]
      <4>1. T # {}
        BY <2>1, <3>1
      <4>. HIDE DEF g
      <4>. QED  BY <1>3, <4>1
    <3>. HIDE DEF g
    <3>. QED  BY <2>1, <3>1, <3>2
  <2>3. f = After(k - 1)
    <3>1. k - 1 \in 0 .. n
      OBVIOUS
    <3>. HIDE DEF After, g
    <3>. QED  BY <1>6, <3>1
  <2>4. PICK x \in Nat : x = d + up[k] /\ x = d + k - 1
    BY <1>a
  <2>5. \A a \in A : a \in d .. d + k - 1 <=> a = x \/ a \in d .. d + (k - 1) - 1
    BY <2>4
  <2>6. [After(k - 1) EXCEPT ![x] = b] = After(k)
    BY <2>5
  <2>7. v[k] = After(k)
    OBVIOUS
  <2>. HIDE DEF After, f, g, v
  <2>. QED  BY <2>2, <2>3, <2>4, <2>6, <2>7
<1>7. g[1 .. n] = v[n]
  <2>. HIDE DEF g, v
  <2>. QED  BY ONLY n \in Nat, <1>5, <1>6, GoesThroughAll
<1>8. v[n] = After(n)
  OBVIOUS
<1>. HIDE DEF g, v
<1>. QED  BY <1>0, <1>4, <1>7, <1>8

\* The memory with the n bytes from s on copied to d.
Moved(m, d, s, n) ==
  [a \in 1 .. Len(m) |-> IF a \in d .. d + n - 1 THEN m[s + (a - d)] ELSE m[a]]

\* That is what copying upwards leaves, if the source is not behind the
\* destination or they are apart.
LEMMA CopyUpIs ==
  ASSUME NEW m \in Seq(Byte), NEW d \in Nat \ {0}, NEW s \in Nat \ {0}, NEW n \in Nat,
         d + n - 1 <= Len(m), s + n - 1 <= Len(m), d <= s \/ s + n <= d
  PROVE  Copy(m, d, s, UpTo(n)) = Moved(m, d, s, n)
<1>. DEFINE up == UpTo(n)
<1>1. up \in [1 .. n -> Nat] /\ \A k \in 1 .. n : up[k] = k - 1
  BY DEF UpTo
<1>2. PICK l \in Nat : l = Len(m)
  OBVIOUS
<1>3. \A k \in 1 .. n : d + up[k] \in 1 .. Len(m) /\ s + up[k] \in 1 .. Len(m)
  <2>1. ASSUME NEW k \in 1 .. n, NEW j \in 0 .. n - 1
        PROVE  d + j \in 1 .. l /\ s + j \in 1 .. l
    BY <1>2
  <2>2. \A k \in 1 .. n : up[k] \in 0 .. n - 1
    BY <1>1
  <2>. QED  BY ONLY <1>2, <2>1, <2>2
<1>4. \A k \in 1 .. n : \A j \in 1 .. k - 1 : s + up[k] # d + up[j]
  <2>1. ASSUME NEW k \in 1 .. n, NEW j \in 1 .. k - 1
        PROVE  s + up[k] # d + up[j]
    <3>1. j \in 1 .. n /\ j < k
      OBVIOUS
    <3>2. up[k] = k - 1 /\ up[j] = j - 1
      BY <1>1, <3>1
    <3>. QED  BY <3>1, <3>2
  <2>. QED  BY <2>1
<1>5. Copy(m, d, s, up)
        = [a \in 1 .. Len(m) |-> IF \E j \in 1 .. n : a = d + up[j] THEN m[s + (a - d)] ELSE m[a]]
  <2>. HIDE DEF up
  <2>1. Spread(m, d, s, n, up)
    BY <1>1, <1>3, <1>4 DEF Spread
  <2>. QED  BY <2>1, CopyIs DEF Scattered
<1>6. \A a \in 1 .. Len(m) : (\E j \in 1 .. n : a = d + up[j]) <=> a \in d .. d + n - 1
  <2>1. ASSUME NEW a \in 1 .. Len(m)
        PROVE  (\E j \in 1 .. n : a = d + up[j]) <=> a \in d .. d + n - 1
    <3>1. ASSUME NEW j \in 1 .. n, a = d + up[j]
          PROVE  a \in d .. d + n - 1
      BY <1>1, <3>1
    <3>2. ASSUME a \in d .. d + n - 1
          PROVE  \E j \in 1 .. n : a = d + up[j]
      <4>1. PICK j \in 1 .. n : j = a - d + 1 /\ d + (j - 1) = a
        BY <3>2
      <4>. QED  BY <1>1, <4>1
    <3>. QED  BY <3>1, <3>2
  <2>. QED  BY <2>1
<1>. HIDE DEF up
<1>. QED  BY <1>5, <1>6 DEF Moved, up

\* And copying downwards, if the source is not before the destination.
LEMMA CopyDownIs ==
  ASSUME NEW m \in Seq(Byte), NEW d \in Nat \ {0}, NEW s \in Nat \ {0}, NEW n \in Nat,
         d + n - 1 <= Len(m), s + n - 1 <= Len(m), s <= d
  PROVE  Copy(m, d, s, Reverse(UpTo(n))) = Moved(m, d, s, n)
<1>. DEFINE down == Reverse(UpTo(n))
<1>1. down \in [1 .. n -> Nat] /\ \A k \in 1 .. n : down[k] = n - k
  <2>1. UpTo(n) \in Seq(Nat) /\ Len(UpTo(n)) = n /\ \A k \in 1 .. n : UpTo(n)[k] = k - 1
    BY DEF UpTo
  <2>2. down = [k \in 1 .. n |-> UpTo(n)[(n - k) + 1]]
    BY <2>1 DEF Reverse
  <2>3. ASSUME NEW k \in 1 .. n
        PROVE  UpTo(n)[(n - k) + 1] = n - k /\ n - k \in Nat
    <3>1. (n - k) + 1 \in 1 .. n /\ ((n - k) + 1) - 1 = n - k /\ n - k \in Nat
      OBVIOUS
    <3>. QED  BY <2>1, <3>1
  <2>. HIDE DEF down
  <2>. QED  BY <2>2, <2>3
<1>2. PICK l \in Nat : l = Len(m)
  OBVIOUS
<1>. HIDE DEF down
<1>3. \A k \in 1 .. n : d + down[k] \in 1 .. Len(m) /\ s + down[k] \in 1 .. Len(m)
  <2>1. ASSUME NEW k \in 1 .. n, NEW j \in 0 .. n - 1
        PROVE  d + j \in 1 .. l /\ s + j \in 1 .. l
    BY <1>2
  <2>2. \A k \in 1 .. n : down[k] \in 0 .. n - 1
    BY <1>1
  <2>. QED  BY ONLY <1>2, <2>1, <2>2
<1>4. \A k \in 1 .. n : \A j \in 1 .. k - 1 : s + down[k] # d + down[j]
  <2>1. ASSUME NEW k \in 1 .. n, NEW j \in 1 .. k - 1
        PROVE  s + down[k] # d + down[j]
    <3>1. j \in 1 .. n /\ j < k
      OBVIOUS
    <3>2. down[k] = n - k /\ down[j] = n - j
      BY <1>1, <3>1
    <3>. QED  BY <3>1, <3>2
  <2>. QED  BY <2>1
<1>5. Copy(m, d, s, down)
        = [a \in 1 .. Len(m) |-> IF \E j \in 1 .. n : a = d + down[j] THEN m[s + (a - d)] ELSE m[a]]
  <2>1. Spread(m, d, s, n, down)
    BY <1>1, <1>3, <1>4 DEF Spread
  <2>. QED  BY <2>1, CopyIs DEF Scattered
<1>6. \A a \in 1 .. Len(m) : (\E j \in 1 .. n : a = d + down[j]) <=> a \in d .. d + n - 1
  <2>1. ASSUME NEW a \in 1 .. Len(m)
        PROVE  (\E j \in 1 .. n : a = d + down[j]) <=> a \in d .. d + n - 1
    <3>1. ASSUME NEW j \in 1 .. n, a = d + down[j]
          PROVE  a \in d .. d + n - 1
      BY <1>1, <3>1
    <3>2. ASSUME a \in d .. d + n - 1
          PROVE  \E j \in 1 .. n : a = d + down[j]
      <4>1. n - (a - d) \in 1 .. n /\ d + (n - (n - (a - d))) = a
        BY <3>2
      <4>. QED  BY <1>1, <4>1
    <3>. QED  BY <3>1, <3>2
  <2>. QED  BY <2>1
<1>. QED  BY <1>5, <1>6 DEF Moved, down

\* A memory that has n bytes from d on and is otherwise as before.
Has(f, d, n, bytes) ==
  /\ DOMAIN bytes = 1 .. n
  /\ f = [a \in 1 .. Len(mem) |-> f[a]]
  /\ \A a \in 1 .. Len(mem) :
       f[a] = IF a \in d .. d + n - 1 THEN bytes[a - d + 1] ELSE mem[a]

\* It is the one that the property speaks of.
LEMMA OverlayIs ==
  ASSUME mem \in Seq(Byte), NEW d \in Nat \ {0}, NEW n \in Nat, NEW bytes, NEW f,
         Has(f, d, n, bytes)
  PROVE  f = Overlay(d, bytes)
<1>. /\ DOMAIN bytes = 1 .. n
     /\ f = [a \in 1 .. Len(mem) |-> f[a]]
     /\ \A a \in 1 .. Len(mem) :
          f[a] = IF a \in d .. d + n - 1 THEN bytes[a - d + 1] ELSE mem[a]
  BY DEF Has
<1>1. DOMAIN mem = 1 .. Len(mem)
  OBVIOUS
<1>2. \A a \in 1 .. Len(mem) : a - d + 1 \in 1 .. n <=> a \in d .. d + n - 1
  OBVIOUS
<1>3. Overlay(d, bytes) = [a \in 1 .. Len(mem) |-> IF a - d + 1 \in 1 .. n THEN bytes[a - d + 1] ELSE mem[a]]
  BY <1>1 DEF Overlay
<1>. QED  BY <1>2, <1>3

\* The n bytes from s on.
BytesAt(m, s, n, bytes) == DOMAIN bytes = 1 .. n /\ \A k \in 1 .. n : bytes[k] = m[s + k - 1]

\* Bytes moved are the bytes of the source laid over the destination.
LEMMA MovedIs ==
  ASSUME mem \in Seq(Byte), NEW d \in Nat \ {0}, NEW s \in Nat \ {0}, NEW n \in Nat,
         NEW bytes, BytesAt(mem, s, n, bytes)
  PROVE  Moved(mem, d, s, n) = Overlay(d, bytes)
<1>. DOMAIN bytes = 1 .. n /\ \A k \in 1 .. n : bytes[k] = mem[s + k - 1]
  BY DEF BytesAt
<1>. DEFINE f == Moved(mem, d, s, n)
<1>1. f = [a \in 1 .. Len(mem) |-> f[a]]
  BY DEF Moved
<1>2. ASSUME NEW a \in 1 .. Len(mem)
      PROVE  f[a] = IF a \in d .. d + n - 1 THEN bytes[a - d + 1] ELSE mem[a]
  <2>1. CASE a \in d .. d + n - 1
    <3>1. PICK k \in 1 .. n : k = a - d + 1
      BY <2>1
    <3>2. s + k - 1 = s + (a - d)
      BY <3>1
    <3>. QED  BY <2>1, <3>1, <3>2 DEF Moved
  <2>2. CASE a \notin d .. d + n - 1
    BY <2>2 DEF Moved
  <2>. QED  BY <2>1, <2>2
<1>. HIDE DEF f
<1>3. f = Overlay(d, bytes)
  <2>1. Has(f, d, n, bytes)
    BY <1>1, <1>2 DEF Has
  <2>. QED  BY <2>1, OverlayIs
<1>. QED  BY <1>3 DEF f

\* A string with its terminator.
LEMMA StringAndEnd ==
  ASSUME NEW m \in Seq(Byte), NEW p \in Nat \ {0}, NEW z, Ends(m, p, z)
  PROVE  BytesAt(m, p, z - p + 1, String(m, p) \o <<0>>)
<1>. DEFINE s == String(m, p)
<1>1. PICK n \in Nat : n = z - p /\ z = p + n /\ m[z] = 0
  BY DEF Ends
<1>2. Len(s) = n /\ s \in Seq(Letter) /\ \A k \in 1 .. n : s[k] = m[p + k - 1]
  <2>1. /\ Len(s) = z - p /\ s \in Seq(Letter)
        /\ \A k \in 1 .. z - p : s[k] = m[p + k - 1]
    BY StringBytes
  <2>. QED  BY <1>1, <2>1
<1>3. s \in Seq(Nat) /\ <<0>> \in Seq(Nat) /\ Len(<<0>>) = 1 /\ <<0>>[1] = 0
  <2>1. Letter \subseteq Nat
    BY DEF Letter
  <2>2. s \in Seq(Nat)
    <3>. HIDE DEF s
    <3>. QED  BY <1>2, <2>1, SeqMonotonic
  <2>. QED  BY <2>2
<1>4. PICK u : /\ u = s \o <<0>> /\ u \in Seq(Nat) /\ Len(u) = n + 1
               /\ \A k \in 1 .. n + 1 : u[k] = IF k <= n THEN s[k] ELSE <<0>>[k - n]
  <2>. HIDE DEF s
  <2>1. /\ s \o <<0>> \in Seq(Nat) /\ Len(s \o <<0>>) = n + 1
        /\ \A k \in 1 .. n + 1 : (s \o <<0>>)[k] = IF k <= n THEN s[k] ELSE <<0>>[k - n]
    BY <1>2, <1>3, ConcatProperties
  <2>. QED  BY <2>1
<1>5. ASSUME NEW k \in 1 .. n + 1
      PROVE  u[k] = m[p + k - 1]
  <2>1. CASE k <= n
    BY <1>2, <1>4, <2>1
  <2>2. CASE k = n + 1
    <3>1. p + k - 1 = z /\ k - n = 1 /\ ~(k <= n)
      BY <1>1, <2>2
    <3>2. u[k] = <<0>>[1]
      BY <1>4, <3>1
    <3>. QED  BY <1>1, <1>3, <3>1, <3>2
  <2>. QED  BY <2>1, <2>2
<1>6. DOMAIN u = 1 .. n + 1
  BY <1>4
<1>. HIDE DEF s
<1>. QED  BY <1>1, <1>4, <1>5, <1>6 DEF s, BytesAt

\* Every pointer leads to a string.
LEMMA PointerString ==
  ASSUME NEW m, MemoryOK(m), NEW p \in Pointers
  PROVE  m \in Seq(Byte) /\ p \in Nat \ {0} /\ \E z \in p .. Len(m) : Ends(m, p, z)
<1>1. m \in Seq(Byte) /\ p \in 1 .. Len(m) /\ m[Len(m)] = 0 /\ Len(m) \in Nat
  BY DEF MemoryOK
<1>2. p \in Nat \ {0} /\ Len(m) \in p .. Len(m)
  BY <1>1
<1>3. \E z \in p .. Len(m) : Ends(m, p, z)
  BY <1>1, <1>2, StringEnds
<1>. QED  BY <1>1, <1>2, <1>3

\* Two sequences after each other, index by index.
LEMMA Joined ==
  ASSUME NEW s \in Seq(Nat), NEW t \in Seq(Nat)
  PROVE  /\ DOMAIN (s \o t) = 1 .. Len(s) + Len(t)
         /\ \A i \in 1 .. Len(s) : (s \o t)[i] = s[i]
         /\ \A i \in Len(s) + 1 .. Len(s) + Len(t) : (s \o t)[i] = t[i - Len(s)]
<1>. PICK n, k \in Nat : n = Len(s) /\ k = Len(t)
  OBVIOUS
<1>1. PICK u : /\ u = s \o t /\ u \in Seq(Nat) /\ Len(u) = n + k
               /\ \A i \in 1 .. n + k : u[i] = IF i <= n THEN s[i] ELSE t[i - n]
  <2>1. /\ s \o t \in Seq(Nat) /\ Len(s \o t) = n + k
        /\ \A i \in 1 .. n + k : (s \o t)[i] = IF i <= n THEN s[i] ELSE t[i - n]
    BY ConcatProperties
  <2>. QED  BY <2>1
<1>2. DOMAIN u = 1 .. n + k
  BY <1>1
<1>3. \A i \in 1 .. n : u[i] = s[i]
  BY <1>1
<1>4. \A i \in n + 1 .. n + k : u[i] = t[i - n]
  BY <1>1
<1>. QED  BY <1>1, <1>2, <1>3, <1>4

\* What is laid over a memory with its own string in front begins behind that.
LEMMA OverlayBehind ==
  ASSUME mem \in Seq(Byte), NEW d \in Nat \ {0}, NEW e, Ends(mem, d, e),
         NEW bytes \in Seq(Nat)
  PROVE  Overlay(d, String(mem, d) \o bytes) = Overlay(e, bytes)
<1>1. PICK n, k, l \in Nat : n = e - d /\ e = d + n /\ k = Len(bytes) /\ l = Len(mem)
  <2>1. e - d \in Nat /\ e = d + (e - d)
    BY DEF Ends
  <2>2. Len(bytes) \in Nat /\ Len(mem) \in Nat
    OBVIOUS
  <2>. QED  BY <2>1, <2>2
<1>2. PICK s \in Seq(Nat) : s = String(mem, d) /\ Len(s) = n /\ \A i \in 1 .. n : s[i] = mem[d + i - 1]
  <2>1. /\ Len(String(mem, d)) = e - d /\ String(mem, d) \in Seq(Letter)
        /\ \A i \in 1 .. e - d : String(mem, d)[i] = mem[d + i - 1]
    BY StringBytes
  <2>2. Letter \subseteq Nat
    BY DEF Letter
  <2>3. String(mem, d) \in Seq(Nat)
    BY <2>1, <2>2, SeqMonotonic
  <2>. QED  BY <1>1, <2>1, <2>3
<1>3. PICK u : u = s \o bytes
  OBVIOUS
<1>4. /\ DOMAIN u = 1 .. n + k
      /\ \A i \in 1 .. n : u[i] = s[i]
      /\ \A i \in n + 1 .. n + k : u[i] = bytes[i - n]
  <2>1. /\ DOMAIN (s \o bytes) = 1 .. Len(s) + Len(bytes)
        /\ \A i \in 1 .. Len(s) : (s \o bytes)[i] = s[i]
        /\ \A i \in Len(s) + 1 .. Len(s) + Len(bytes) : (s \o bytes)[i] = bytes[i - Len(s)]
    BY Joined
  <2>. QED  BY <1>1, <1>2, <1>3, <2>1
<1>5. PICK f : /\ f = Overlay(e, bytes) /\ f = [a \in 1 .. l |-> f[a]]
               /\ \A a \in 1 .. l : f[a] = IF a - e + 1 \in 1 .. k THEN bytes[a - e + 1] ELSE mem[a]
  <2>1. DOMAIN mem = 1 .. l /\ DOMAIN bytes = 1 .. k
    BY <1>1
  <2>2. Overlay(e, bytes)
          = [a \in 1 .. l |-> IF a - e + 1 \in 1 .. k THEN bytes[a - e + 1] ELSE mem[a]]
    BY <2>1 DEF Overlay
  <2>. QED  BY <2>2
<1>6. ASSUME NEW a \in 1 .. l
      PROVE  f[a] = IF a \in d .. d + (n + k) - 1 THEN u[a - d + 1] ELSE mem[a]
  <2>1. CASE a \in d .. d + n - 1
    <3>1. PICK i \in 1 .. n : i = a - d + 1 /\ a = d + i - 1
      BY <2>1
    <3>2. a - e + 1 \notin 1 .. k /\ a \in d .. d + (n + k) - 1
      BY <1>1, <2>1
    <3>3. u[i] = mem[a]
      BY <1>2, <1>4, <3>1
    <3>4. f[a] = mem[a]
      BY <1>5, <3>2
    <3>. QED  BY <3>1, <3>2, <3>3, <3>4
  <2>2. CASE a \in d + n .. d + (n + k) - 1
    <3>1. PICK i \in n + 1 .. n + k : i = a - d + 1
      BY <2>2
    <3>2. a - e + 1 \in 1 .. k /\ a \in d .. d + (n + k) - 1 /\ a - e + 1 = i - n
      BY <1>1, <2>2, <3>1
    <3>3. u[i] = bytes[i - n]
      BY <1>4
    <3>4. f[a] = bytes[a - e + 1]
      BY <1>5, <3>2
    <3>. QED  BY <3>1, <3>2, <3>3, <3>4
  <2>3. CASE a \notin d .. d + (n + k) - 1
    <3>1. a - e + 1 \notin 1 .. k
      BY <1>1, <2>3
    <3>. QED  BY <1>5, <2>3, <3>1
  <2>. QED  BY <2>1, <2>2, <2>3
<1>7. f = Overlay(d, u)
  <2>1. Has(f, d, n + k, u)
    BY <1>1, <1>4, <1>5, <1>6 DEF Has
  <2>. QED  BY <2>1, OverlayIs
<1>. QED  BY <1>2, <1>3, <1>5, <1>7

\* Three sequences may be joined in either order.
LEMMA JoinedThree ==
  ASSUME NEW s \in Seq(Nat), NEW t \in Seq(Nat), NEW u \in Seq(Nat)
  PROVE  (s \o t) \o u = s \o (t \o u)
BY ConcatAssociative, SMTT(30)

\* strcpy leaves the string with its terminator.
LEMMA StrcpyIs ==
  ASSUME mem \in Seq(Byte), NEW d \in Nat \ {0}, NEW s \in Nat \ {0}, NEW z, Ends(mem, s, z),
         d + (z - s + 1) - 1 <= Len(mem), Apart(d, z - s + 1, s, z - s + 1)
  PROVE  strcpy(mem, d, s) = Overlay(d, String(mem, s) \o <<0>>)
<1>1. PICK n \in Nat : n = z - s + 1 /\ z - s = n - 1 /\ s + n - 1 = z /\ z <= Len(mem)
  BY DEF Ends
<1>2. strcpy(mem, d, s) = Copy(mem, d, s, UpTo(n))
  <2>1. strlen(mem, s) = z - s
    BY StrlenIs
  <2>2. strlen(mem, s) + 1 = n
    BY <1>1, <2>1
  <2>. QED  BY <2>2 DEF strcpy
<1>3. d <= s \/ s + n <= d
  <2>1. d + n <= s \/ s + n <= d
    BY <1>1 DEF Apart
  <2>. QED  BY <2>1
<1>4. Copy(mem, d, s, UpTo(n)) = Moved(mem, d, s, n)
  <2>1. d + n - 1 <= Len(mem) /\ s + n - 1 <= Len(mem)
    BY <1>1
  <2>. QED  BY <1>3, <2>1, CopyUpIs
<1>5. Moved(mem, d, s, n) = Overlay(d, String(mem, s) \o <<0>>)
  <2>1. BytesAt(mem, s, n, String(mem, s) \o <<0>>)
    BY <1>1, StringAndEnd
  <2>. QED  BY <2>1, MovedIs
<1>. QED  BY <1>2, <1>4, <1>5

\* strcat leaves it behind the string that is there.
LEMMA StrcatIs ==
  ASSUME mem \in Seq(Byte), NEW d \in Nat \ {0}, NEW s \in Nat \ {0}, NEW z, Ends(mem, s, z),
         NEW e, Ends(mem, d, e),
         e + (z - s + 1) - 1 <= Len(mem), Apart(e, z - s + 1, s, z - s + 1)
  PROVE  strcat(mem, d, s) = Overlay(d, String(mem, d) \o String(mem, s) \o <<0>>)
<1>1. e \in Nat \ {0} /\ d + (e - d) = e
  BY DEF Ends
<1>2. strcat(mem, d, s) = strcpy(mem, e, s)
  <2>1. d + strlen(mem, d) = e
    BY <1>1, StrlenIs
  <2>. QED  BY <2>1 DEF strcat
<1>3. strcpy(mem, e, s) = Overlay(e, String(mem, s) \o <<0>>)
  BY <1>1, StrcpyIs
<1>4. String(mem, d) \in Seq(Nat) /\ String(mem, s) \in Seq(Nat) /\ <<0>> \in Seq(Nat)
  <2>1. String(mem, d) \in Seq(Letter) /\ String(mem, s) \in Seq(Letter)
    BY StringBytes
  <2>2. Letter \subseteq Nat
    BY DEF Letter
  <2>3. String(mem, d) \in Seq(Nat) /\ String(mem, s) \in Seq(Nat)
    BY <2>1, <2>2, SeqMonotonic
  <2>. QED  BY <2>3
<1>5. PICK A, B, C \in Seq(Nat) : A = String(mem, d) /\ B = String(mem, s) /\ C = <<0>>
  BY <1>4
<1>6. (A \o B) \o C = A \o (B \o C) /\ B \o C \in Seq(Nat)
  <2>1. (A \o B) \o C = A \o (B \o C)
    BY JoinedThree
  <2>2. B \o C \in Seq(Nat)
    BY ConcatProperties
  <2>. QED  BY <2>1, <2>2, Zenon
<1>7. Overlay(d, A \o (B \o C)) = Overlay(e, B \o C)
  BY <1>5, <1>6, OverlayBehind
<1>. QED  BY <1>2, <1>3, <1>5, <1>6, <1>7

\* The lesser of two numbers.
LEMMA MinOfTwo ==
  ASSUME NEW a \in Nat, NEW b \in Nat
  PROVE  Min({a, b}) = IF a <= b THEN a ELSE b
<1>1. CASE a <= b
  <2>1. {a, b} \in SUBSET Int /\ a \in {a, b} /\ \A y \in {a, b} : a <= y
    BY <1>1
  <2>. QED  BY <1>1, <2>1, MinIs
<1>2. CASE ~(a <= b)
  <2>1. {a, b} \in SUBSET Int /\ b \in {a, b} /\ \A y \in {a, b} : b <= y
    BY <1>2
  <2>. QED  BY <1>2, <2>1, MinIs
<1>. QED  BY <1>1, <1>2

\* The first n characters of a string, or all of them.
LEMMA FirstIs ==
  ASSUME NEW m \in Seq(Byte), NEW p \in Nat \ {0}, NEW z, Ends(m, p, z), NEW n \in Nat,
         NEW q, q = IF n <= z - p THEN n ELSE z - p
  PROVE  /\ First(String(m, p), n) \in Seq(Nat)
         /\ BytesAt(m, p, q, First(String(m, p), n))
         /\ q \in Nat /\ Len(First(String(m, p), n)) = q
<1>1. PICK s, len : s = String(m, p) /\ len = z - p /\ len \in Nat
  <2>1. z - p \in Nat
    BY DEF Ends
  <2>. QED  BY <2>1
<1>2. s \in Seq(Letter) /\ Len(s) = len /\ \A k \in 1 .. len : s[k] = m[p + k - 1]
  <2>1. /\ String(m, p) \in Seq(Letter) /\ Len(String(m, p)) = z - p
        /\ \A k \in 1 .. z - p : String(m, p)[k] = m[p + k - 1]
    BY StringBytes
  <2>. QED  BY <1>1, <2>1
<1>3. q \in Nat /\ q = (IF n <= len THEN n ELSE len) /\ q <= len
  BY <1>1
<1>4. First(s, n) = SubSeq(s, 1, q)
  <2>1. Min({n, len}) = IF n <= len THEN n ELSE len
    BY <1>1, MinOfTwo
  <2>2. Min({n, Len(s)}) = q
    BY <1>2, <1>3, <2>1
  <2>. QED  BY <2>2 DEF First
<1>5. /\ SubSeq(s, 1, q) \in Seq(Nat)
      /\ Len(SubSeq(s, 1, q)) = IF 1 <= q THEN q - 1 + 1 ELSE 0
      /\ \A k \in 1 .. q - 1 + 1 : SubSeq(s, 1, q)[k] = s[1 + k - 1]
  <2>1. \A i \in 1 .. q : s[i] \in Nat
    <3>1. ASSUME NEW i \in 1 .. q
          PROVE  s[i] \in Nat
      <4>1. i \in 1 .. Len(s)
        BY <1>2, <1>3
      <4>2. s[i] \in Letter
        BY <1>2, <4>1
      <4>3. Letter \subseteq Nat
        BY DEF Letter
      <4>. QED  BY ONLY <4>2, <4>3
    <3>. QED  BY <3>1
  <2>2. 1 \in Int /\ q \in Int
    BY <1>3
  <2>. QED  BY <2>1, <2>2, SubSeqProperties
<1>6. PICK u : u = First(s, n) /\ u \in Seq(Nat) /\ Len(u) = q /\ \A k \in 1 .. q : u[k] = s[k]
  <2>1. Len(SubSeq(s, 1, q)) = q
    BY <1>3, <1>5
  <2>2. \A k \in 1 .. q : SubSeq(s, 1, q)[k] = s[k]
    BY <1>3, <1>5
  <2>. QED  BY <1>4, <1>5, <2>1, <2>2
<1>7. DOMAIN u = 1 .. q /\ \A k \in 1 .. q : u[k] = m[p + k - 1]
  BY <1>2, <1>3, <1>6
<1>. QED  BY <1>1, <1>3, <1>6, <1>7 DEF BytesAt

\* strncat leaves the first n of them, and a terminator.
LEMMA StrncatIs ==
  ASSUME mem \in Seq(Byte), NEW d \in Nat \ {0}, NEW s \in Nat \ {0}, NEW z, Ends(mem, s, z),
         NEW e, Ends(mem, d, e), NEW n \in Nat, NEW q, q = IF n <= z - s THEN n ELSE z - s,
         e + (q + 1) - 1 <= Len(mem), Apart(e, q + 1, s, z - s + 1)
  PROVE  strncat(mem, d, s, n) = Overlay(d, String(mem, d) \o First(String(mem, s), n) \o <<0>>)
<1>1. PICK len \in Nat : len = z - s /\ s + len = z /\ z <= Len(mem) /\ mem[z] = 0
  BY DEF Ends
<1>2. e \in Nat \ {0} /\ d + (e - d) = e /\ Len(mem) \in Nat
  BY DEF Ends
<1>3. PICK F \in Seq(Nat) : F = First(String(mem, s), n) /\ BytesAt(mem, s, q, F) /\ Len(F) = q
  BY FirstIs
<1>4. q \in Nat /\ q = (IF n <= len THEN n ELSE len) /\ q <= len
  BY <1>1
<1>5. d + strlen(mem, d) = e /\ strlen(mem, s) = len
  <2>1. strlen(mem, d) = e - d
    BY StrlenIs
  <2>2. strlen(mem, s) = z - s
    BY StrlenIs
  <2>3. d + strlen(mem, d) = e
    BY <1>2, <2>1
  <2>4. strlen(mem, s) = len
    BY <1>1, <2>2
  <2>. QED  BY <2>3, <2>4
<1>6. PICK Z \in Seq(Nat) : Z = <<0>> /\ Len(Z) = 1 /\ Z[1] = 0
  <2>1. <<0>> \in Seq(Nat) /\ Len(<<0>>) = 1 /\ <<0>>[1] = 0
    BY ONLY 0 \in Nat
  <2>. QED  BY ONLY <2>1
<1>7. PICK u : /\ u = F \o Z /\ u \in Seq(Nat) /\ DOMAIN u = 1 .. q + 1
               /\ \A k \in 1 .. q : u[k] = mem[s + k - 1]
               /\ u[q + 1] = 0
  <2>1. /\ DOMAIN (F \o Z) = 1 .. Len(F) + Len(Z)
        /\ \A i \in 1 .. Len(F) : (F \o Z)[i] = F[i]
        /\ \A i \in Len(F) + 1 .. Len(F) + Len(Z) : (F \o Z)[i] = Z[i - Len(F)]
    BY Joined
  <2>2. PICK v : v = F \o Z /\ v \in Seq(Nat)
    BY ConcatProperties
  <2>3. DOMAIN v = 1 .. q + 1
    BY <1>3, <1>6, <2>1, <2>2
  <2>4. \A k \in 1 .. q : v[k] = mem[s + k - 1]
    BY <1>3, <2>1, <2>2 DEF BytesAt
  <2>5. v[q + 1] = 0
    <3>1. q + 1 \in Len(F) + 1 .. Len(F) + Len(Z) /\ (q + 1) - Len(F) = 1
      BY <1>3, <1>4, <1>6
    <3>. QED  BY <1>6, <2>1, <2>2, <3>1
  <2>. QED  BY <2>2, <2>3, <2>4, <2>5
<1>8. strncat(mem, d, s, n) = Overlay(e, u)
  <2>1. ASSUME NEW k \in Nat, k <= len + 1, k <= q + 1
        PROVE  Copy(mem, e, s, UpTo(k)) = Moved(mem, e, s, k)
    <3>0. PICK l \in Nat : l = Len(mem) /\ z <= l /\ e + (q + 1) - 1 <= l
      BY <1>1, <1>2
    <3>1. e + k - 1 <= l
      BY ONLY <1>2, <1>4, <2>1, <3>0
    <3>3. s + k - 1 <= l
      BY ONLY s \in Nat \ {0}, <1>1, <2>1, <3>0, len \in Nat
    <3>2. e <= s \/ s + k <= e
      <4>1. e + (q + 1) <= s \/ s + (len + 1) <= e
        BY <1>1 DEF Apart
      <4>. QED  BY <1>2, <1>4, <2>1, <4>1
    <3>. QED  BY <1>2, <3>0, <3>1, <3>2, <3>3, CopyUpIs
  <2>2. CASE len < n
    <3>1. q = len /\ len + 1 <= n
      BY <1>4, <2>2
    <3>2. strncat(mem, d, s, n) = Copy(mem, e, s, UpTo(len + 1))
      <4>1. len + 1 \in Nat
        BY ONLY len \in Nat
      <4>2. Min({len + 1, n}) = IF len + 1 <= n THEN len + 1 ELSE n
        BY ONLY <4>1, n \in Nat, MinOfTwo
      <4>3. Min({len + 1, n}) = len + 1
        BY ONLY <3>1, <4>2
      <4>. QED  BY <1>5, <2>2, <4>3 DEF strncat
    <3>3. BytesAt(mem, s, len + 1, u)
      <4>1. s + (len + 1) - 1 = z
        BY <1>1
      <4>2. ASSUME NEW k \in 1 .. len + 1
            PROVE  u[k] = mem[s + k - 1]
        <5>1. k \in 1 .. len \/ k = len + 1
          OBVIOUS
        <5>. QED  BY <1>1, <1>7, <3>1, <4>1, <5>1
      <4>. QED  BY <1>7, <3>1, <4>2 DEF BytesAt
    <3>4. Moved(mem, e, s, len + 1) = Overlay(e, u)
      BY <1>2, <3>3, MovedIs
    <3>. QED  BY <2>1, <3>1, <3>2, <3>4
  <2>3. CASE ~(len < n)
    <3>1. q = n /\ n <= len
      BY <1>4, <2>3
    <3>. DEFINE copied == Moved(mem, e, s, n)
                f == [copied EXCEPT ![e + n] = 0]
    <3>2. strncat(mem, d, s, n) = f
      <4>1. Min({len + 1, n}) = n
        <5>1. len + 1 \in Nat
          BY ONLY len \in Nat
        <5>2. Min({len + 1, n}) = IF len + 1 <= n THEN len + 1 ELSE n
          BY ONLY <5>1, n \in Nat, MinOfTwo
        <5>3. ~(len + 1 <= n)
          BY ONLY <3>1, len \in Nat, n \in Nat
        <5>. QED  BY ONLY <5>2, <5>3
      <4>2. Copy(mem, e, s, UpTo(n)) = copied
        BY <2>1, <3>1
      <4>. HIDE DEF copied
      <4>. QED  BY <1>5, <2>3, <4>1, <4>2 DEF strncat
    <3>3. ASSUME NEW a \in 1 .. Len(mem)
          PROVE  f[a] = IF a \in e .. e + (n + 1) - 1 THEN u[a - e + 1] ELSE mem[a]
      <4>1. copied[a] = IF a \in e .. e + n - 1 THEN mem[s + (a - e)] ELSE mem[a]
        BY DEF Moved
      <4>2. f[a] = IF a = e + n THEN 0 ELSE copied[a]
        BY DEF Moved
      <4>. HIDE DEF f, copied
      <4>3. CASE a \in e .. e + n - 1
        <5>1. PICK k \in 1 .. n : k = a - e + 1 /\ s + (a - e) = s + k - 1
          BY <1>2, <4>3
        <5>2. a # e + n /\ a \in e .. e + (n + 1) - 1
          BY <1>2, <4>3
        <5>3. u[k] = mem[s + k - 1]
          BY <1>7, <3>1
        <5>. QED  BY <4>1, <4>2, <4>3, <5>1, <5>2, <5>3
      <4>4. CASE a = e + n
        <5>1. a - e + 1 = n + 1 /\ a \in e .. e + (n + 1) - 1
          BY <1>2, <4>4
        <5>. QED  BY <1>7, <3>1, <4>2, <4>4, <5>1
      <4>5. CASE a \notin e .. e + n
        <5>1. a # e + n /\ a \notin e .. e + n - 1 /\ a \notin e .. e + (n + 1) - 1
          BY <1>2, <4>5
        <5>. QED  BY <4>1, <4>2, <5>1
      <4>6. a \in e .. e + n - 1 \/ a = e + n \/ a \notin e .. e + n
        BY <1>2
      <4>. QED  BY <4>3, <4>4, <4>5, <4>6
    <3>4. f = [a \in 1 .. Len(mem) |-> f[a]]
      BY DEF Moved
    <3>. HIDE DEF f
    <3>5. Has(f, e, n + 1, u)
      BY <1>7, <3>1, <3>3, <3>4 DEF Has
    <3>. QED  BY <1>2, <3>2, <3>5, OverlayIs
  <2>. QED  BY <2>2, <2>3
<1>9. PICK A \in Seq(Nat) : A = String(mem, d)
  <2>1. String(mem, d) \in Seq(Letter)
    BY StringBytes
  <2>2. Letter \subseteq Nat
    BY DEF Letter
  <2>3. String(mem, d) \in Seq(Nat)
    BY <2>1, <2>2, SeqMonotonic
  <2>. QED  BY <2>3
<1>10. (A \o F) \o Z = A \o u
  <2>1. (A \o F) \o Z = A \o (F \o Z)
    BY JoinedThree
  <2>. QED  BY <1>7, <2>1
<1>11. Overlay(d, A \o u) = Overlay(e, u)
  BY <1>7, <1>9, OverlayBehind
<1>. QED  BY <1>3, <1>6, <1>8, <1>9, <1>10, <1>11

\* strncpy leaves the first n of them and fills the rest, and one byte more if it
\* is there: it may be the first of the source.
LEMMA StrncpyIs ==
  ASSUME mem \in Seq(Byte), NEW d \in Nat \ {0}, NEW s \in Nat \ {0}, NEW z, Ends(mem, s, z),
         NEW n \in Nat, d + n - 1 <= Len(mem), Apart(d, n, s, Min({z - s + 1, n})),
         NEW S, S = String(mem, s)
  PROVE  /\ strncpy(mem, d, s, n)
              = Overlay(d, First(S, n) \o Zeros(IF Len(S) < n THEN n - Len(S) + 1 ELSE 0))
         /\ First(S, n) \in Seq(Nat) /\ (Len(S) < n => Len(First(S, n)) = Len(S))
<1>1. PICK len \in Nat : len = z - s /\ s + len = z /\ z <= Len(mem) /\ mem[z] = 0
  BY DEF Ends
<1>2. Len(S) = len /\ strlen(mem, s) = len
  BY <1>1, StringBytes, StrlenIs
<1>3. PICK q : q = IF n <= len THEN n ELSE len
  OBVIOUS
<1>4. q \in Nat /\ q <= len /\ q <= n
  BY <1>3
<1>5. PICK F \in Seq(Nat) : F = First(S, n) /\ BytesAt(mem, s, q, F) /\ Len(F) = q
  <2>1. q = IF n <= z - s THEN n ELSE z - s
    BY <1>1, <1>3
  <2>2. /\ First(String(mem, s), n) \in Seq(Nat)
        /\ BytesAt(mem, s, q, First(String(mem, s), n))
        /\ Len(First(String(mem, s), n)) = q
    BY <2>1, FirstIs
  <2>. QED  BY <2>2
<1>6. PICK r \in Nat : r = IF len < n THEN n - len + 1 ELSE 0
  <2>1. (IF len < n THEN n - len + 1 ELSE 0) \in Nat
    BY <1>1
  <2>. QED  BY ONLY <2>1
<1>7. PICK Z \in Seq(Nat) : Z = Zeros(r) /\ Len(Z) = r /\ \A k \in 1 .. r : Z[k] = 0
  <2>1. Zeros(r) = [k \in 1 .. r |-> 0]
    BY DEF Zeros
  <2>. QED  BY <2>1
<1>8. PICK u : /\ u = F \o Z /\ DOMAIN u = 1 .. q + r
               /\ \A k \in 1 .. q : u[k] = mem[s + k - 1]
               /\ \A k \in q + 1 .. q + r : u[k] = 0
  <2>1. /\ DOMAIN (F \o Z) = 1 .. Len(F) + Len(Z)
        /\ \A i \in 1 .. Len(F) : (F \o Z)[i] = F[i]
        /\ \A i \in Len(F) + 1 .. Len(F) + Len(Z) : (F \o Z)[i] = Z[i - Len(F)]
    BY Joined
  <2>2. PICK v : v = F \o Z
    OBVIOUS
  <2>3. DOMAIN v = 1 .. q + r
    <3>1. Len(F) = q /\ Len(Z) = r
      BY <1>5, <1>7
    <3>. QED  BY ONLY <2>1, <2>2, <3>1
  <2>4. \A k \in 1 .. q : v[k] = mem[s + k - 1]
    <3>1. Len(F) = q /\ \A k \in 1 .. q : F[k] = mem[s + k - 1]
      BY <1>5 DEF BytesAt
    <3>. QED  BY ONLY <2>1, <2>2, <3>1
  <2>5. \A k \in q + 1 .. q + r : v[k] = 0
    <3>1. ASSUME NEW k \in q + 1 .. q + r
          PROVE  v[k] = 0
      <4>1. k \in Len(F) + 1 .. Len(F) + Len(Z) /\ k - Len(F) \in 1 .. r
        BY <1>4, <1>5, <1>7
      <4>. QED  BY <1>7, <2>1, <2>2, <4>1
    <3>. QED  BY <3>1
  <2>. QED  BY <2>2, <2>3, <2>4, <2>5
<1>8a. PICK k \in Nat : k = IF len < n THEN len + 1 ELSE n
  OBVIOUS
<1>8b. PICK fill \in Nat : fill = IF len < n THEN n - len ELSE 0
  <2>1. (IF len < n THEN n - len ELSE 0) \in Nat
    BY ONLY len \in Nat, n \in Nat
  <2>. QED  BY ONLY <2>1
<1>8c. k <= len + 1 /\ k <= n /\ k + fill <= n + 1
  BY ONLY <1>8a, <1>8b, len \in Nat, n \in Nat
<1>. DEFINE copied == Moved(mem, d, s, k)
            f == memset(copied, d + k, 0, fill)
<1>9. PICK l \in Nat : l = Len(mem) /\ z <= l /\ d + n - 1 <= l
  BY <1>1
<1>10. strncpy(mem, d, s, n) = f
  <2>1. Min({len + 1, n}) = k
    <3>1. Min({len + 1, n}) = IF len + 1 <= n THEN len + 1 ELSE n
      <4>1. len + 1 \in Nat
        OBVIOUS
      <4>. QED  BY ONLY <4>1, n \in Nat, MinOfTwo
    <3>2. len + 1 <= n <=> len < n
      BY ONLY len \in Nat, n \in Nat
    <3>3. ~(len < n) => (len + 1 <= n <=> FALSE)
      BY <3>2
    <3>. QED  BY ONLY <1>8a, <3>1, <3>2
  <2>2. Copy(mem, d, s, UpTo(k)) = copied
    <3>1. d + k - 1 <= l
      BY ONLY <1>8c, <1>9, d \in Nat \ {0}, n \in Nat, k \in Nat, l \in Nat, len \in Nat,
         fill \in Nat
    <3>3. s + k - 1 <= l
      BY ONLY <1>1, <1>8c, <1>9, s \in Nat \ {0}, k \in Nat, l \in Nat, len \in Nat,
         fill \in Nat, n \in Nat
    <3>2. d <= s \/ s + k <= d
      <4>1. d + n <= s \/ s + k <= d
        <5>1. z - s + 1 = len + 1
          BY ONLY <1>1, s \in Nat \ {0}, z \in Int
        <5>2. Apart(d, n, s, Min({len + 1, n}))
          BY ONLY <5>1, Apart(d, n, s, Min({z - s + 1, n}))
        <5>. QED  BY <2>1, <5>2 DEF Apart
      <4>. QED  BY ONLY <1>8c, <4>1, d \in Nat \ {0}, s \in Nat \ {0}, k \in Nat, len \in Nat,
                   n \in Nat, fill \in Nat
    <3>. QED  BY <1>9, <3>1, <3>2, <3>3, CopyUpIs
  <2>. HIDE DEF copied
  <2>. QED  BY <1>2, <1>8b, <2>1, <2>2 DEF strncpy
<1>11. PICK c \in Seq(Byte) : c = copied /\ Len(c) = Len(mem)
  <2>1. ASSUME NEW a \in 1 .. Len(mem)
        PROVE  copied[a] \in Byte
    <3>1. copied[a] = IF a \in d .. d + k - 1 THEN mem[s + (a - d)] ELSE mem[a]
      BY DEF Moved
    <3>. HIDE DEF copied
    <3>2. a \in d .. d + k - 1 => s + (a - d) \in 1 .. Len(mem)
      BY <1>1, <1>8c, <1>9
    <3>. QED  BY <3>1, <3>2
  <2>2. copied = [a \in 1 .. Len(mem) |-> copied[a]]
    BY DEF Moved
  <2>3. copied \in [1 .. Len(mem) -> Byte]
    <3>. HIDE DEF copied
    <3>. QED  BY <2>1, <2>2
  <2>. HIDE DEF copied
  <2>3a. copied \in [1 .. l -> Byte]
    BY <1>9, <2>3
  <2>4. copied \in Seq(Byte) /\ Len(copied) = l
    BY ONLY <2>3a, l \in Nat
  <2>. QED  BY <1>9, <2>4
<1>12. f = [a \in 1 .. Len(mem) |-> IF a \in d + k .. (d + k) + fill - 1 THEN 0 ELSE c[a]]
  <2>. HIDE DEF copied
  <2>2. PICK g \in Nat \ {0} : g = d + k
    OBVIOUS
  <2>2b. 0 \in Int /\ 0 % 256 = 0
    OBVIOUS
  <2>3. memset(c, g, 0, fill)
          = [a \in 1 .. Len(c) |-> IF a \in g .. g + fill - 1 THEN 0 % 256 ELSE c[a]]
    BY ONLY c \in Seq(Byte), fill \in Nat, g \in Nat \ {0}, <2>2b, MemsetIs
  <2>. QED  BY <1>11, <2>2, <2>2b, <2>3
<1>13. ASSUME NEW a \in 1 .. Len(mem)
       PROVE  f[a] = IF a \in d .. d + (q + r) - 1 THEN u[a - d + 1] ELSE mem[a]
  <2>1. f[a] = IF a \in d + k .. (d + k) + fill - 1 THEN 0 ELSE c[a]
    <3>. HIDE DEF f
    <3>. QED  BY <1>12
  <2>2. c[a] = IF a \in d .. d + k - 1 THEN mem[s + (a - d)] ELSE mem[a]
    BY <1>11 DEF Moved
  <2>. HIDE DEF f, copied
  <2>3. CASE a \in d .. d + q - 1
    <3>1. PICK i \in 1 .. q : i = a - d + 1 /\ s + (a - d) = s + i - 1
      BY <1>4, <2>3
    <3>2. a \in d .. d + (q + r) - 1 /\ a \in d .. d + k - 1 /\ a \notin d + k .. (d + k) + fill - 1
      BY <1>3, <1>4, <1>6, <1>8a, <1>8b, <2>3
    <3>3. u[i] = mem[s + i - 1]
      BY <1>8
    <3>. QED  BY <2>1, <2>2, <3>1, <3>2, <3>3
  <2>4. CASE a \in d + q .. d + (q + r) - 1
    <3>1. PICK i \in q + 1 .. q + r : i = a - d + 1
      BY <1>4, <1>6, <2>4
    <3>2. len < n /\ q = len /\ k = len + 1 /\ fill = n - len /\ r = n - len + 1
      BY <1>3, <1>4, <1>6, <1>8a, <1>8b, <2>4
    <3>3. u[i] = 0 /\ a \in d .. d + (q + r) - 1
      BY <1>4, <1>8, <2>4
    <3>4. CASE a = d + len
      <4>1. a \in d .. d + k - 1 /\ a \notin d + k .. (d + k) + fill - 1
        BY ONLY <3>2, <3>4, d \in Nat \ {0}, len \in Nat, k \in Nat, fill \in Nat
      <4>2. s + (a - d) = z
        BY ONLY <1>1, <3>4, d \in Nat \ {0}, len \in Nat, s \in Nat \ {0}
      <4>. QED  BY <1>1, <2>1, <2>2, <3>1, <3>3, <4>1, <4>2
    <3>5. CASE a # d + len
      <4>1. a \in d + k .. (d + k) + fill - 1
        BY ONLY <1>4, <2>4, <3>2, <3>5, d \in Nat \ {0}, len \in Nat, n \in Nat, k \in Nat,
           fill \in Nat, r \in Nat, l \in Nat, Len(mem) \in Nat
      <4>. QED  BY <2>1, <3>1, <3>3, <4>1
    <3>. QED  BY <3>4, <3>5
  <2>5. CASE a \notin d .. d + (q + r) - 1
    <3>1. a \notin d .. d + k - 1 /\ a \notin d + k .. (d + k) + fill - 1
      BY <1>3, <1>4, <1>6, <1>8a, <1>8b, <2>5
    <3>. QED  BY <2>1, <2>2, <2>5, <3>1
  <2>. QED  BY <1>4, <2>3, <2>4, <2>5
<1>14. f = Overlay(d, u)
  <2>1. f = [a \in 1 .. Len(mem) |-> f[a]]
    <3>. HIDE DEF f
    <3>. QED  BY <1>12
  <2>. HIDE DEF f
  <2>2. Has(f, d, q + r, u)
    BY <1>8, <1>13, <2>1 DEF Has
  <2>3. q + r \in Nat
    BY <1>4, <1>6
  <2>. QED  BY <2>2, <2>3, OverlayIs
<1>. HIDE DEF f
<1>15. First(S, n) \in Seq(Nat) /\ (Len(S) < n => Len(First(S, n)) = Len(S))
  <2>1. len < n => q = len
    BY ONLY <1>3, len \in Nat, n \in Nat
  <2>. QED  BY ONLY <1>2, <1>5, <2>1
<1>. QED  BY <1>2, <1>5, <1>6, <1>7, <1>8, <1>10, <1>14, <1>15

\* Any n bytes of the memory.
LEMMA BytesFrom ==
  ASSUME mem \in Seq(Byte), NEW s \in Nat \ {0}, NEW n \in Nat, s + n - 1 <= Len(mem)
  PROVE  BytesAt(mem, s, n, SubSeq(mem, s, s + n - 1))
<1>1. PICK e \in Int, l \in Nat : e = s + n - 1 /\ l = Len(mem) /\ e <= l
  OBVIOUS
<1>2. ASSUME NEW i \in s .. e
      PROVE  mem[i] \in Byte
  <2>1. i \in 1 .. Len(mem)
    BY <1>1
  <2>. QED  BY <2>1
<1>3. PICK u \in Seq(Byte) : /\ u = SubSeq(mem, s, e)
                             /\ Len(u) = IF s <= e THEN e - s + 1 ELSE 0
                             /\ \A k \in 1 .. e - s + 1 : u[k] = mem[s + k - 1]
  <2>1. /\ SubSeq(mem, s, e) \in Seq(Byte)
        /\ Len(SubSeq(mem, s, e)) = IF s <= e THEN e - s + 1 ELSE 0
        /\ \A k \in 1 .. e - s + 1 : SubSeq(mem, s, e)[k] = mem[s + k - 1]
    BY <1>2, SubSeqProperties
  <2>. QED  BY <2>1
<1>4. e - s + 1 = n
  BY <1>1
<1>5. Len(u) = n /\ \A k \in 1 .. n : u[k] = mem[s + k - 1]
  BY <1>1, <1>3, <1>4
<1>. QED  BY <1>1, <1>3, <1>5 DEF BytesAt

\* memcpy of areas that are apart and memmove of any two leave the bytes that
\* were at the source at the destination.
LEMMA MemmoveIs ==
  ASSUME mem \in Seq(Byte), NEW d \in Nat \ {0}, NEW s \in Nat \ {0}, NEW n \in Nat,
         Room(d, n), Room(s, n)
  PROVE  /\ memmove(mem, d, s, n) = Overlay(d, SubSeq(mem, s, s + n - 1))
         /\ Apart(d, n, s, n) => memcpy(mem, d, s, n) = Overlay(d, SubSeq(mem, s, s + n - 1))
<1>1. d + n - 1 <= Len(mem) /\ s + n - 1 <= Len(mem)
  BY DEF Room
<1>2. Moved(mem, d, s, n) = Overlay(d, SubSeq(mem, s, s + n - 1))
  BY <1>1, BytesFrom, MovedIs
<1>3. memmove(mem, d, s, n) = Moved(mem, d, s, n)
  <2>1. CASE d < s
    <3>1. d <= s
      BY <2>1
    <3>2. Copy(mem, d, s, UpTo(n)) = Moved(mem, d, s, n)
      BY <1>1, <3>1, CopyUpIs
    <3>. QED  BY <2>1, <3>2 DEF memmove
  <2>2. CASE ~(d < s)
    <3>1. s <= d
      BY <2>2
    <3>2. Copy(mem, d, s, Reverse(UpTo(n))) = Moved(mem, d, s, n)
      BY <1>1, <3>1, CopyDownIs
    <3>. QED  BY <2>2, <3>2 DEF memmove
  <2>. QED  BY <2>1, <2>2
<1>4. Apart(d, n, s, n) => memcpy(mem, d, s, n) = Moved(mem, d, s, n)
  <2>1. ASSUME Apart(d, n, s, n)
        PROVE  d <= s \/ s + n <= d
    BY <2>1 DEF Apart
  <2>. QED  BY <1>1, <2>1, CopyUpIs DEF memcpy
<1>. QED  BY <1>2, <1>3, <1>4

\* memset leaves n bytes of its character, taken as an unsigned char.
LEMMA MemsetLeaves ==
  ASSUME mem \in Seq(Byte), NEW d \in Nat \ {0}, NEW c \in Int, NEW n \in Nat, Room(d, n)
  PROVE  memset(mem, d, c, n) = Overlay(d, [k \in 1 .. n |-> c % 256])
<1>1. PICK f, bytes : f = memset(mem, d, c, n) /\ bytes = [k \in 1 .. n |-> c % 256]
  OBVIOUS
<1>2. f = [a \in 1 .. Len(mem) |-> IF a \in d .. d + n - 1 THEN c % 256 ELSE mem[a]]
  BY <1>1, MemsetIs
<1>3. Has(f, d, n, bytes)
  <2>1. DOMAIN bytes = 1 .. n
    BY <1>1
  <2>2. f = [a \in 1 .. Len(mem) |-> f[a]]
    BY <1>2
  <2>3. ASSUME NEW a \in 1 .. Len(mem)
        PROVE  f[a] = IF a \in d .. d + n - 1 THEN bytes[a - d + 1] ELSE mem[a]
    <3>1. a \in d .. d + n - 1 => a - d + 1 \in 1 .. n
      OBVIOUS
    <3>. QED  BY <1>1, <1>2, <3>1
  <2>. QED  BY <2>1, <2>2, <2>3 DEF Has
<1>. QED  BY <1>1, <1>3, OverlayIs

\* One zero more to fill with shows in one byte.
LEMMA OneZeroMore ==
  ASSUME mem \in Seq(Byte), NEW d \in Nat \ {0}, NEW F \in Seq(Nat), NEW r \in Nat
  PROVE  \A a \in DOMAIN mem \ {d + Len(F) + r} :
           Overlay(d, F \o Zeros(r + 1))[a] = Overlay(d, F \o Zeros(r))[a]
<1>1. PICK q \in Nat : q = Len(F)
  OBVIOUS
<1>2. ASSUME NEW k \in Nat
      PROVE  /\ DOMAIN (F \o Zeros(k)) = 1 .. q + k
             /\ \A i \in 1 .. q : (F \o Zeros(k))[i] = F[i]
             /\ \A i \in q + 1 .. q + k : (F \o Zeros(k))[i] = 0
  <2>1. PICK Z \in Seq(Nat) : Z = Zeros(k) /\ Len(Z) = k /\ \A i \in 1 .. k : Z[i] = 0
    <3>1. Zeros(k) = [i \in 1 .. k |-> 0]
      BY DEF Zeros
    <3>. QED  BY <3>1
  <2>2. /\ DOMAIN (F \o Z) = 1 .. Len(F) + Len(Z)
        /\ \A i \in 1 .. Len(F) : (F \o Z)[i] = F[i]
        /\ \A i \in Len(F) + 1 .. Len(F) + Len(Z) : (F \o Z)[i] = Z[i - Len(F)]
    BY Joined
  <2>3. \A i \in q + 1 .. q + k : i - q \in 1 .. k
    OBVIOUS
  <2>. QED  BY ONLY <1>1, <2>1, <2>2, <2>3
<1>3. PICK more, less : more = F \o Zeros(r + 1) /\ less = F \o Zeros(r)
  OBVIOUS
<1>4. /\ DOMAIN more = 1 .. q + (r + 1) /\ DOMAIN less = 1 .. q + r
      /\ \A i \in 1 .. q + r : more[i] = less[i]
  <2>1. \A i \in 1 .. q + r : i \in 1 .. q \/ (i \in q + 1 .. q + r /\ i \in q + 1 .. q + (r + 1))
    OBVIOUS
  <2>2. r + 1 \in Nat
    OBVIOUS
  <2>. QED  BY ONLY <1>2, <1>3, <2>1, <2>2, r \in Nat
<1>5. ASSUME NEW a \in DOMAIN mem, a # d + q + r
      PROVE  Overlay(d, more)[a] = Overlay(d, less)[a]
  <2>1. a \in Nat
    OBVIOUS
  <2>2. PICK i \in Int : i = a - d + 1
    BY ONLY <2>1, d \in Nat \ {0}
  <2>3. i # q + r + 1
    BY ONLY <1>5, <2>1, <2>2, d \in Nat \ {0}, q \in Nat, r \in Nat
  <2>4. i \in 1 .. q + (r + 1) <=> i \in 1 .. q + r
    BY ONLY <2>3, i \in Int, q \in Nat, r \in Nat
  <2>5. /\ Overlay(d, more)[a] = IF i \in 1 .. q + (r + 1) THEN more[i] ELSE mem[a]
        /\ Overlay(d, less)[a] = IF i \in 1 .. q + r THEN less[i] ELSE mem[a]
    BY <1>4, <2>2 DEF Overlay
  <2>. QED  BY ONLY <1>4, <2>4, <2>5
<1>. QED  BY <1>1, <1>3, <1>5

\* What a copy leaves has the addresses of the memory.
LEMMA LeftDomain ==
  ASSUME NEW c,
         c.fn \in {"memcpy", "memmove", "memset", "strcpy", "strcat", "strncat", "strncpy"}
  PROVE  DOMAIN Left(c) = DOMAIN mem
BY DEF Left, Overlay

\* A copy that the calls make leaves what the property says.
LEMMA CopiedIs ==
  ASSUME mem \in Texts, NEW fn, NEW d \in Pointers, NEW s \in Pointers, NEW n \in Counts,
         fn \in {"memcpy", "memmove", "strcpy", "strncpy", "strcat", "strncat"},
         MayCopy(fn, d, s, n), NEW c, c = [fn |-> fn, d |-> d, s |-> s, n |-> n]
  PROVE  /\ DOMAIN Copied(fn, d, s, n) = DOMAIN mem
         /\ \A a \in DOMAIN mem \ Overrun(c) : Copied(fn, d, s, n)[a] = Left(c)[a]
<1>0. c.fn = fn /\ c.d = d /\ c.s = s /\ c.n = n
  OBVIOUS
<1>1. MemoryOK(mem) /\ n \in Nat
  BY MemoryAssumption, TextsAreOK
<1>2. mem \in Seq(Byte) /\ d \in Nat \ {0} /\ s \in Nat \ {0}
  BY <1>1, PointerString
<1>3. PICK z \in s .. Len(mem) : Ends(mem, s, z)
  BY <1>1, PointerString
<1>4. PICK e \in d .. Len(mem) : Ends(mem, d, e)
  BY <1>1, PointerString
<1>5. PICK len \in Nat : len = z - s /\ len + 1 = z - s + 1 /\ len = Len(String(mem, s))
  BY <1>2, <1>3, StringBytes
<1>6. e \in Nat \ {0} /\ d <= e /\ d + Len(String(mem, d)) = e
  <2>1. Len(String(mem, d)) = e - d
    BY <1>2, <1>4, StringBytes
  <2>. QED  BY <1>2, <2>1
<1>13. DOMAIN Left(c) = DOMAIN mem
  BY <1>0, LeftDomain
<1>7. CASE fn = "memcpy"
  <2>1. Room(d, n) /\ Room(s, n) /\ Apart(d, n, s, n)
    BY <1>7 DEF MayCopy
  <2>2. memcpy(mem, d, s, n) = Overlay(d, SubSeq(mem, s, s + n - 1))
    BY <1>1, <1>2, <2>1, MemmoveIs
  <2>9. Copied(fn, d, s, n) = Left(c)
    BY <1>0, <1>7, <2>2 DEF Copied, Left
  <2>. QED  BY <1>13, <2>9
<1>8. CASE fn = "memmove"
  <2>1. Room(d, n) /\ Room(s, n)
    BY <1>8 DEF MayCopy
  <2>2. memmove(mem, d, s, n) = Overlay(d, SubSeq(mem, s, s + n - 1))
    BY <1>1, <1>2, <2>1, MemmoveIs
  <2>9. Copied(fn, d, s, n) = Left(c)
    BY <1>0, <1>8, <2>2 DEF Copied, Left
  <2>. QED  BY <1>13, <2>9
<1>9. CASE fn = "strcpy"
  <2>1. Room(d, len + 1) /\ Apart(d, len + 1, s, len + 1)
    BY <1>5, <1>9 DEF MayCopy
  <2>2. strcpy(mem, d, s) = Overlay(d, String(mem, s) \o <<0>>)
    <3>1. d + (z - s + 1) - 1 <= Len(mem) /\ Apart(d, z - s + 1, s, z - s + 1)
      BY <1>5, <2>1 DEF Room
    <3>. QED  BY <1>2, <1>3, <3>1, StrcpyIs
  <2>9. Copied(fn, d, s, n) = Left(c)
    BY <1>0, <1>9, <2>2 DEF Copied, Left
  <2>. QED  BY <1>13, <2>9
<1>10. CASE fn = "strcat"
  <2>1. Room(e, len + 1) /\ Apart(d, e + len + 1 - d, s, len + 1)
    BY <1>5, <1>6, <1>10 DEF MayCopy
  <2>2. e + (z - s + 1) - 1 <= Len(mem)
    BY <1>5, <2>1 DEF Room
  <2>3. Apart(e, z - s + 1, s, z - s + 1)
    <3>1. d + (e + len + 1 - d) <= s \/ s + (len + 1) <= d
      BY <2>1 DEF Apart
    <3>2. e + (len + 1) <= s \/ s + (len + 1) <= e
      BY <1>2, <1>6, <3>1
    <3>. QED  BY <1>5, <3>2 DEF Apart
  <2>4. strcat(mem, d, s) = Overlay(d, String(mem, d) \o String(mem, s) \o <<0>>)
    BY <1>2, <1>3, <1>4, <2>2, <2>3, StrcatIs
  <2>9. Copied(fn, d, s, n) = Left(c)
    BY <1>0, <1>10, <2>4 DEF Copied, Left
  <2>. QED  BY <1>13, <2>9
<1>11. CASE fn = "strncat"
  <2>1. PICK q \in Nat : q = (IF n <= len THEN n ELSE len) /\ q = IF n <= z - s THEN n ELSE z - s
    BY <1>1, <1>5
  <2>2. Room(e, q + 1) /\ Apart(d, e + (q + 1) - d, s, len + 1)
    <3>1. Min({len, n}) = q
      <4>1. Min({len, n}) = IF len <= n THEN len ELSE n
        BY <1>1, MinOfTwo
      <4>. QED  BY ONLY <1>1, <2>1, <4>1, len \in Nat
    <3>. QED  BY <1>5, <1>6, <1>11, <3>1 DEF MayCopy
  <2>3. e + (q + 1) - 1 <= Len(mem)
    BY <2>2 DEF Room
  <2>4. Apart(e, q + 1, s, z - s + 1)
    <3>1. d + (e + (q + 1) - d) <= s \/ s + (len + 1) <= d
      BY <2>2 DEF Apart
    <3>2. e + (q + 1) <= s \/ s + (len + 1) <= e
      BY <1>2, <1>6, <3>1
    <3>. QED  BY <1>5, <3>2 DEF Apart
  <2>5. strncat(mem, d, s, n) = Overlay(d, String(mem, d) \o First(String(mem, s), n) \o <<0>>)
    BY <1>1, <1>2, <1>3, <1>4, <2>1, <2>3, <2>4, StrncatIs
  <2>9. Copied(fn, d, s, n) = Left(c)
    BY <1>0, <1>11, <2>5 DEF Copied, Left
  <2>. QED  BY <1>13, <2>9
<1>12. CASE fn = "strncpy"
  <2>1. d + n - 1 <= Len(mem) /\ Apart(d, n, s, Min({z - s + 1, n}))
    BY <1>5, <1>12 DEF MayCopy, Room
  <2>2. PICK S : S = String(mem, s) /\ Len(S) = len
    BY <1>5
  <2>8. /\ strncpy(mem, d, s, n)
             = Overlay(d, First(S, n) \o Zeros(IF Len(S) < n THEN n - Len(S) + 1 ELSE 0))
        /\ First(S, n) \in Seq(Nat) /\ (Len(S) < n => Len(First(S, n)) = Len(S))
    BY <1>1, <1>2, <1>3, <2>1, <2>2, StrncpyIs
  <2>3. Copied(fn, d, s, n)
          = Overlay(d, First(S, n) \o Zeros(IF Len(S) < n THEN n - Len(S) + 1 ELSE 0))
    BY <1>12, <2>8 DEF Copied
  <2>4. Left(c) = Overlay(d, First(S, n) \o Zeros(IF Len(S) < n THEN n - Len(S) ELSE 0))
    BY <1>0, <1>12, <2>2 DEF Left
  <2>5. CASE len < n
    <3>1. PICK r \in Nat : r = n - len /\ r + 1 = n - len + 1 /\ len + r = n
      BY <1>1, <2>5
    <3>2. First(S, n) \in Seq(Nat) /\ Len(First(S, n)) = len
      BY ONLY <2>2, <2>5, <2>8
    <3>3. Overrun(c) = {d + n} /\ d + len + r = d + n
      BY <1>0, <1>2, <1>12, <2>2, <2>5, <3>1 DEF Overrun
    <3>4. \A a \in DOMAIN mem \ {d + len + r} :
            Overlay(d, First(S, n) \o Zeros(r + 1))[a] = Overlay(d, First(S, n) \o Zeros(r))[a]
      <4>1. PICK F \in Seq(Nat) : F = First(S, n) /\ Len(F) = len
        BY <3>2
      <4>2. \A a \in DOMAIN mem \ {d + Len(F) + r} :
              Overlay(d, F \o Zeros(r + 1))[a] = Overlay(d, F \o Zeros(r))[a]
        BY ONLY <1>2, r \in Nat, F \in Seq(Nat), OneZeroMore
      <4>. QED  BY ONLY <4>1, <4>2
    <3>5. /\ Copied(fn, d, s, n) = Overlay(d, First(S, n) \o Zeros(r + 1))
          /\ Left(c) = Overlay(d, First(S, n) \o Zeros(r))
      BY ONLY <2>2, <2>3, <2>4, <2>5, <3>1
    <3>6. DOMAIN Copied(fn, d, s, n) = DOMAIN mem
      BY ONLY <3>5 DEF Overlay
    <3>. QED  BY ONLY <3>3, <3>4, <3>5, <3>6
  <2>6. CASE ~(len < n)
    <3>1. Copied(fn, d, s, n) = Left(c)
      BY <2>2, <2>3, <2>4, <2>6
    <3>. QED  BY <1>13, <3>1
  <2>. QED  BY <2>5, <2>6
<1>. QED  BY <1>7, <1>8, <1>9, <1>10, <1>11, <1>12

\* Every copy leaves the bytes that were at the source, and every other byte
\* alone but the one that strncpy clears behind its buffer (string.c:15-78): for
\* every memory, any two pointers and any length that the C standard allows.
THEOREM CopiesAreExactAlways == Spec => CopiesAreExact
<1>. DEFINE Copies == {"memcpy", "memmove", "memset", "strcpy", "strcat", "strncat", "strncpy"}
            Exact == call'.fn \in Copies =>
                       /\ DOMAIN mem' = DOMAIN mem
                       /\ \A a \in DOMAIN mem \ Overrun(call') : mem'[a] = Left(call')[a]
                       /\ ret' = call'.d
<1>1. ASSUME [Next]_vars
      PROVE  [Exact]_vars
  <2>1. CASE CopyCall
    <3>1. PICK fn \in {"memcpy", "memmove", "strcpy", "strncpy", "strcat", "strncat"},
               d, s \in Pointers, n \in Counts :
             /\ MayCopy(fn, d, s, n)
             /\ mem' = Copied(fn, d, s, n)
             /\ call' = [fn |-> fn, d |-> d, s |-> s, n |-> n]
             /\ ret' = d
      BY <2>1 DEF CopyCall
    <3>2. mem \in Texts
      BY <2>1 DEF CopyCall, Fresh
    <3>3. /\ DOMAIN mem' = DOMAIN mem
          /\ \A a \in DOMAIN mem \ Overrun(call') : mem'[a] = Left(call')[a]
      BY <3>1, <3>2, CopiedIs
    <3>4. call'.d = d
      BY <3>1
    <3>. QED  BY <3>1, <3>3, <3>4
  <2>2. CASE SetCall
    <3>1. PICK d \in Pointers, c \in Ints, n \in Counts :
             /\ Room(d, n)
             /\ mem' = memset(mem, d, c, n)
             /\ call' = [fn |-> "memset", d |-> d, c |-> c, n |-> n]
             /\ ret' = d
      BY <2>2 DEF SetCall
    <3>2. MemoryOK(mem) /\ n \in Nat /\ c \in Int
      BY <2>2, MemoryAssumption, TextsAreOK DEF SetCall, Fresh
    <3>3. mem \in Seq(Byte) /\ d \in Nat \ {0}
      BY <3>2, PointerString
    <3>4. mem' = Overlay(d, [k \in 1 .. n |-> c % 256])
      BY <3>1, <3>2, <3>3, MemsetLeaves
    <3>5. call'.fn = "memset" /\ call'.d = d /\ call'.c = c /\ call'.n = n
      BY <3>1
    <3>6. Left(call') = Overlay(d, [k \in 1 .. n |-> c % 256])
      BY <3>5 DEF Left
    <3>7. mem' = Left(call') /\ DOMAIN mem' = DOMAIN mem
      BY <3>4, <3>6 DEF Overlay
    <3>. QED  BY <3>1, <3>5, <3>7
  <2>3. CASE Question \/ Classify \/ Tokenise \/ PrintNumber \/ ReadNumber
    <3>1. Question => call'.fn \notin Copies
      BY DEF Question, Ask
    <3>2. Classify => call'.fn \notin Copies
      BY DEF Classify
    <3>3. Tokenise => call'.fn \notin Copies
      <4>1. Tokenise => \E str : call' = [fn |-> "strtok", str |-> str]
        BY DEF Tokenise
      <4>. QED  BY <4>1
    <3>4. PrintNumber => call'.fn \notin Copies
      BY DEF PrintNumber
    <3>5. ReadNumber => call'.fn \notin Copies
      BY DEF ReadNumber
    <3>. QED  BY <2>3, <3>1, <3>2, <3>3, <3>4, <3>5
  <2>4. CASE Done \/ UNCHANGED vars
    <3>1. UNCHANGED vars
      BY <2>4 DEF Done
    <3>. QED  BY <3>1
  <2>. QED  BY <1>1, <2>1, <2>2, <2>3, <2>4 DEF Next
<1>. QED  BY <1>1, PTL DEF Spec, CopiesAreExact

-----------------------------------------------------------------------------
(* Questions *)

\* A loop ends at an index where it may, and at none before it.
LEMMA FirstOffset ==
  ASSUME NEW S \in SUBSET Nat, S # {}
  PROVE  /\ FirstOf(S) \in S /\ FirstOf(S) \in Nat
         /\ \A i \in S : FirstOf(S) <= i
<1>1. PICK k \in S : \A i \in S : k <= i
  BY Least
<1>2. FirstOf(S) = k
  BY <1>1, FirstOfIs
<1>. QED  BY <1>1, <1>2

\* The first and the bound of a set of addresses.
LEMMA FirstInIs ==
  ASSUME NEW S \in SUBSET Nat, NEW x \in S, \A y \in S : x <= y
  PROVE  FirstIn(S) = x
<1>1. S \in SUBSET Int /\ S # {}
  OBVIOUS
<1>2. Min(S) = x
  BY <1>1, MinIs
<1>. QED  BY <1>1, <1>2 DEF FirstIn

\* And the greatest member is the last.
LEMMA LastInIs ==
  ASSUME NEW S \in SUBSET Nat, NEW x \in S, \A y \in S : y <= x
  PROVE  LastIn(S) = x
<1>1. S \in SUBSET Int /\ S # {}
  OBVIOUS
<1>2. Max(S) = x
  BY <1>1, MaxIs
<1>. QED  BY <1>1, <1>2 DEF LastIn

\* A search by offset finds the first address.
\* S: the offsets at which the loop ends, A: the addresses looked for, all of
\* which end it; those before bound that end it are all looked for.
Searched(S, A, p, bound) ==
  /\ S \in SUBSET Nat /\ bound \in S
  /\ A \in SUBSET (p .. p + bound)
  /\ \A i \in 0 .. bound : p + i \in A => i \in S
  /\ \A i \in S : i < bound => p + i \in A

\* The least of its offsets is where it stops.
LEMMA SearchIs ==
  ASSUME NEW p \in Nat \ {0}, NEW bound \in Nat, NEW S, NEW A, Searched(S, A, p, bound),
         NEW k, k = FirstOf(S)
  PROVE  /\ k \in S /\ k \in 0 .. bound /\ \A i \in S : k <= i
         /\ p + k \in A => FirstIn(A) = p + k
         /\ p + k \notin A => k = bound /\ FirstIn(A) = NULL
<1>. /\ S \in SUBSET Nat /\ bound \in S
     /\ A \in SUBSET (p .. p + bound)
     /\ \A i \in 0 .. bound : p + i \in A => i \in S
     /\ \A i \in S : i < bound => p + i \in A
  BY DEF Searched
<1>1. k \in S /\ k \in Nat /\ \A i \in S : k <= i
  BY FirstOffset
<1>2. k \in 0 .. bound
  BY <1>1
<1>3. ASSUME NEW a \in A
      PROVE  a \in Nat /\ p + k <= a
  <2>1. PICK i \in 0 .. bound : a = p + i
    <3>1. a - p \in 0 .. bound /\ a = p + (a - p)
      OBVIOUS
    <3>. QED  BY <3>1
  <2>2. k <= i
    BY <1>1, <2>1
  <2>. QED  BY <1>1, <2>1, <2>2
<1>4. ASSUME p + k \in A
      PROVE  FirstIn(A) = p + k
  <2>1. A \in SUBSET Nat /\ \A a \in A : p + k <= a
    BY <1>3
  <2>. QED  BY <1>4, <2>1, FirstInIs
<1>5. ASSUME p + k \notin A
      PROVE  k = bound /\ FirstIn(A) = NULL
  <2>1. k = bound
    BY <1>1, <1>2, <1>5
  <2>2. A = {}
    <3>1. ASSUME NEW a \in A
          PROVE  FALSE
      <4>1. a <= p + bound /\ p + k <= a
        BY <1>3
      <4>2. a = p + k
        BY <1>1, <1>3, <2>1, <4>1
      <4>. QED  BY <1>5, <4>2
    <3>. QED  BY <3>1
  <2>. QED  BY <2>1, <2>2 DEF FirstIn
<1>. QED  BY <1>1, <1>2, <1>4, <1>5

\* The string at p, by offset, with its terminator.
StringAt(m, p, z, len) ==
  /\ p + len = z /\ z = p + len /\ z <= Len(m) /\ Len(m) \in Nat
  /\ m[p + len] = 0 /\ \A i \in 0 .. len - 1 : m[p + i] # 0
  /\ \A i \in 0 .. len : m[p + i] \in Byte /\ p + i \in p .. z
  /\ String(m, p) \in Seq(Letter) /\ Len(String(m, p)) = len
  /\ \A i \in 0 .. len - 1 : String(m, p)[i + 1] = m[p + i]

\* Every string that ends is like that.
LEMMA StringAtIs ==
  ASSUME NEW m \in Seq(Byte), NEW p \in Nat \ {0}, NEW z, Ends(m, p, z)
  PROVE  \E len \in Nat : StringAt(m, p, z, len)
<1>1. PICK len \in Nat : len = z - p /\ p + len = z /\ z <= Len(m)
  <2>1. z - p \in Nat /\ p + (z - p) = z /\ z <= Len(m)
    BY DEF Ends
  <2>. QED  BY <2>1
<1>2. PICK l \in Nat : l = Len(m)
  OBVIOUS
<1>3. \A i \in 0 .. len : p + i \in p .. z /\ p + i \in 1 .. l
  BY <1>1, <1>2
<1>4. \A i \in 0 .. len - 1 : p + i \in p .. z - 1
  BY <1>1
<1>5. m[p + len] = 0 /\ \A i \in 0 .. len - 1 : m[p + i] # 0
  BY <1>1, <1>4 DEF Ends
<1>6. \A i \in 0 .. len : m[p + i] \in Byte
  BY <1>2, <1>3
<1>7. /\ String(m, p) \in Seq(Letter) /\ Len(String(m, p)) = z - p
      /\ \A i \in 0 .. z - p - 1 : String(m, p)[i + 1] = m[p + i]
  BY StringBytes
<1>8. /\ String(m, p) \in Seq(Letter) /\ Len(String(m, p)) = len
      /\ \A i \in 0 .. len - 1 : String(m, p)[i + 1] = m[p + i]
  BY <1>1, <1>7
<1>. QED  BY <1>1, <1>2, <1>3, <1>5, <1>6, <1>8 DEF StringAt

\* strnlen: the length, but not more than n.
LEMMA StrnlenIs ==
  ASSUME NEW m \in Seq(Byte), NEW p \in Nat \ {0}, NEW z, Ends(m, p, z), NEW n \in Nat
  PROVE  strnlen(m, p, n) = Min({Len(String(m, p)), n})
<1>. DEFINE S == {i \in Nat : m[p + i] = 0 \/ i = n}
<1>1. PICK len \in Nat : StringAt(m, p, z, len)
  BY StringAtIs
<1>2. /\ m[p + len] = 0 /\ len = Len(String(m, p))
      /\ \A i \in 0 .. len - 1 : m[p + i] # 0
  BY <1>1 DEF StringAt
<1>3. strnlen(m, p, n) = FirstOf(S)
  BY DEF strnlen, Until, FirstOf
<1>4. S \in SUBSET Nat /\ len \in S /\ n \in S
  BY <1>2
<1>5. ASSUME NEW i \in S
      PROVE  i \in Nat /\ (len <= i \/ i = n)
  <2>1. i \in Nat /\ (m[p + i] = 0 \/ i = n)
    OBVIOUS
  <2>2. i \in 0 .. len - 1 \/ len <= i
    BY <2>1
  <2>. QED  BY <1>2, <2>1, <2>2
<1>. HIDE DEF S
<1>6. Min({len, n}) = IF len <= n THEN len ELSE n
  BY MinOfTwo
<1>7. FirstOf(S) = IF len <= n THEN len ELSE n
  <2>1. CASE len <= n
    <3>1. \A i \in S : len <= i
      BY <1>5, <2>1
    <3>. QED  BY <1>4, <2>1, <3>1, FirstOfIs
  <2>2. CASE ~(len <= n)
    <3>1. \A i \in S : n <= i
      BY <1>5, <2>2
    <3>. QED  BY <1>4, <2>2, <3>1, FirstOfIs
  <2>. QED  BY <2>1, <2>2
<1>. QED  BY <1>2, <1>3, <1>6, <1>7

\* A signed byte is a character if that is one, and is the same modulo 256.
LEMMA CharIs ==
  ASSUME NEW b \in Byte, NEW c \in Int
  PROVE  Char(b) = c <=> c \in -128 .. 127 /\ b = c % 256
<1>1. b \in 0 .. 255
  BY DEF Byte
<1>2. ASSUME c \in 0 .. 127 PROVE c % 256 = c
  BY <1>2
<1>3. ASSUME c \in -128 .. -1 PROVE c % 256 = c + 256
  BY <1>3
<1>4. Char(b) = IF b >= 128 THEN b - 256 ELSE b
  BY DEF Char
<1>. QED  BY <1>1, <1>2, <1>3, <1>4

\* An address with the character c.
CharAt(m, a, c) == c \in -128 .. 127 /\ m[a] = c % 256

\* strchr finds the first one, the terminator included.
LEMMA StrchrIs ==
  ASSUME NEW m \in Seq(Byte), NEW p \in Nat \ {0}, NEW z, Ends(m, p, z), NEW c \in Int
  PROVE  strchr(m, p, c) = FirstIn({a \in p .. z : CharAt(m, a, c)})
<1>. DEFINE S == {i \in Nat : m[p + i] = 0 \/ Char(m[p + i]) = c}
            A == {a \in p .. z : CharAt(m, a, c)}
            k == FirstOf(S)
<1>1. PICK len \in Nat : StringAt(m, p, z, len)
  BY StringAtIs
<1>2. /\ z = p + len /\ m[p + len] = 0
      /\ \A i \in 0 .. len - 1 : m[p + i] # 0
  BY <1>1 DEF StringAt
<1>3. \A i \in 0 .. len : m[p + i] \in Byte /\ p + i \in p .. z
  BY <1>1 DEF StringAt
<1>4. \A i \in 0 .. len : Char(m[p + i]) = c <=> p + i \in A
  <2>1. ASSUME NEW i \in 0 .. len
        PROVE  Char(m[p + i]) = c <=> p + i \in A
    <3>1. p + i \in p .. z
      BY <1>3
    <3>2. Char(m[p + i]) = c <=> c \in -128 .. 127 /\ m[p + i] = c % 256
      BY <1>3, CharIs
    <3>. QED  BY <3>1, <3>2 DEF CharAt
  <2>. QED  BY <2>1
<1>5. strchr(m, p, c) = IF Char(m[p + k]) = c THEN p + k ELSE NULL
  BY DEF strchr, Until, FirstOf
<1>6. Searched(S, A, p, len)
  <2>1. S \in SUBSET Nat /\ len \in S /\ A \in SUBSET (p .. p + len)
    BY <1>2
  <2>2. \A i \in 0 .. len : p + i \in A => i \in S
    BY <1>4
  <2>3. ASSUME NEW i \in S, i < len
        PROVE  p + i \in A
    <3>1. i \in 0 .. len - 1 /\ i \in 0 .. len
      BY <2>3
    <3>2. Char(m[p + i]) = c
      BY <1>2, <3>1
    <3>. QED  BY <1>4, <3>1, <3>2
  <2>. HIDE DEF S, A
  <2>. QED  BY <2>1, <2>2, <2>3 DEF Searched
<1>. HIDE DEF S, A
<1>7. /\ k \in 0 .. len
      /\ p + k \in A => FirstIn(A) = p + k
      /\ p + k \notin A => FirstIn(A) = NULL
  BY <1>6, SearchIs
<1>8. Char(m[p + k]) = c <=> p + k \in A
  BY <1>4, <1>7
<1>9. strchr(m, p, c) = FirstIn(A)
  BY <1>5, <1>7, <1>8
<1>. QED  BY <1>9 DEF A

\* memchr finds the first of n bytes.
LEMMA MemchrIs ==
  ASSUME NEW m, NEW p \in Nat \ {0}, NEW c \in Int, NEW n \in Nat
  PROVE  memchr(m, p, c, n) = FirstIn({a \in p .. p + n - 1 : m[a] = c})
<1>. DEFINE S == {i \in Nat : i = n \/ m[p + i] = c}
            A == {a \in p .. p + n - 1 : m[a] = c}
            k == FirstOf(S)
<1>1. memchr(m, p, c, n) = IF k = n THEN NULL ELSE p + k
  BY DEF memchr, Until, FirstOf
<1>2. Searched(S, A, p, n)
  <2>1. S \in SUBSET Nat /\ n \in S /\ A \in SUBSET (p .. p + n)
    OBVIOUS
  <2>2. \A i \in 0 .. n : p + i \in A => i \in S
    OBVIOUS
  <2>3. ASSUME NEW i \in S, i < n
        PROVE  p + i \in A
    BY <2>3
  <2>. HIDE DEF S, A
  <2>. QED  BY <2>1, <2>2, <2>3 DEF Searched
<1>3. \A i \in {n} : p + i \notin A
  OBVIOUS
<1>4. A \in SUBSET (p .. p + n - 1)
  OBVIOUS
<1>. HIDE DEF S, A
<1>5. /\ k \in 0 .. n
      /\ p + k \in A => FirstIn(A) = p + k
      /\ p + k \notin A => k = n /\ FirstIn(A) = NULL
  BY <1>2, SearchIs
<1>6. memchr(m, p, c, n) = FirstIn(A)
  BY <1>1, <1>3, <1>5
<1>. QED  BY <1>6 DEF A

\* strspn, strcspn and strpbrk find the first byte that is not, or is, one of
\* the characters of the other string, or the end.
LEMMA StrspnFinds ==
  ASSUME NEW m \in Seq(Byte), NEW p \in Nat \ {0}, NEW z, Ends(m, p, z),
         NEW q \in Nat \ {0}, NEW e, Ends(m, q, e), NEW C, C = ToSet(String(m, q))
  PROVE  p + strspn(m, p, q) = FirstIn({a \in p .. z : a = z \/ m[a] \notin C})
<1>. DEFINE S == {i \in Nat : m[p + i] \notin C}
            A == {a \in p .. z : a = z \/ m[a] \notin C}
            k == FirstOf(S)
<1>1. PICK len \in Nat : StringAt(m, p, z, len)
  BY StringAtIs
<1>2. z = p + len /\ m[p + len] = 0 /\ \A i \in 0 .. len : p + i \in p .. z
  BY <1>1 DEF StringAt
<1>3. C = CharsOf(m, q) /\ 0 \notin C
  <2>1. CharsOf(m, q) = ToSet(String(m, q)) /\ CharsOf(m, q) \subseteq Letter
    BY CharsOfIs
  <2>2. 0 \notin Letter
    BY DEF Letter
  <2>. QED  BY <2>1, <2>2
<1>4. strspn(m, p, q) = k
  BY <1>3 DEF strspn, Until, FirstOf
<1>5. Searched(S, A, p, len)
  <2>1. S \in SUBSET Nat /\ len \in S /\ A \in SUBSET (p .. p + len)
    BY <1>2, <1>3
  <2>2. ASSUME NEW i \in 0 .. len, p + i \in A
        PROVE  i \in S
    BY <1>2, <1>3, <2>2
  <2>3. ASSUME NEW i \in S, i < len
        PROVE  p + i \in A
    <3>1. i \in 0 .. len
      BY <2>3
    <3>. QED  BY <1>2, <2>3, <3>1
  <2>. HIDE DEF S, A
  <2>. QED  BY <2>1, <2>2, <2>3 DEF Searched
<1>6. z \in A
  BY <1>2
<1>. HIDE DEF S, A
<1>7. /\ k \in 0 .. len
      /\ p + k \in A => FirstIn(A) = p + k
      /\ p + k \notin A => k = len /\ FirstIn(A) = NULL
  BY <1>5, SearchIs
<1>8. p + strspn(m, p, q) = FirstIn(A)
  BY <1>2, <1>4, <1>6, <1>7
<1>. QED  BY <1>8 DEF A

\* The places from p on with a character in C, and with them the end z.
In(m, p, z, C) == {a \in p .. z - 1 : m[a] \in C}
EndOrIn(m, p, z, C) == {a \in p .. z : a = z \/ m[a] \in C}

\* strcspn and strpbrk find the first of them.
LEMMA StrcspnFinds ==
  ASSUME NEW m \in Seq(Byte), NEW p \in Nat \ {0}, NEW z, Ends(m, p, z),
         NEW q \in Nat \ {0}, NEW e, Ends(m, q, e), NEW C, C = ToSet(String(m, q))
  PROVE  /\ p + strcspn(m, p, q) = FirstIn(EndOrIn(m, p, z, C))
         /\ strpbrk(m, p, q) = FirstIn(In(m, p, z, C))
<1>. DEFINE S == {i \in Nat : m[p + i] = 0 \/ m[p + i] \in C}
            A == {a \in p .. z : a = z \/ m[a] \in C}
            B == {a \in p .. z - 1 : m[a] \in C}
            k == FirstOf(S)
<1>1. PICK len \in Nat : StringAt(m, p, z, len)
  BY StringAtIs
<1>2. /\ z = p + len /\ m[p + len] = 0 /\ \A i \in 0 .. len : p + i \in p .. z
      /\ \A i \in 0 .. len - 1 : m[p + i] # 0
  BY <1>1 DEF StringAt
<1>3. C = CharsOf(m, q) /\ 0 \notin C
  <2>1. CharsOf(m, q) = ToSet(String(m, q)) /\ CharsOf(m, q) \subseteq Letter
    BY CharsOfIs
  <2>2. 0 \notin Letter
    BY DEF Letter
  <2>. QED  BY <2>1, <2>2
<1>4. strcspn(m, p, q) = k
  BY <1>3 DEF strcspn, Until, FirstOf
<1>5. Searched(S, A, p, len)
  <2>1. S \in SUBSET Nat /\ len \in S /\ A \in SUBSET (p .. p + len)
    BY <1>2
  <2>2. ASSUME NEW i \in 0 .. len, p + i \in A
        PROVE  i \in S
    BY <1>2, <2>2
  <2>3. ASSUME NEW i \in S, i < len
        PROVE  p + i \in A
    <3>1. i \in 0 .. len /\ i \in 0 .. len - 1
      BY <2>3
    <3>. QED  BY <1>2, <3>1
  <2>. HIDE DEF S, A
  <2>. QED  BY <2>1, <2>2, <2>3 DEF Searched
<1>6. Searched(S, B, p, len)
  <2>1. S \in SUBSET Nat /\ len \in S /\ B \in SUBSET (p .. p + len)
    BY <1>2
  <2>2. ASSUME NEW i \in 0 .. len, p + i \in B
        PROVE  i \in S
    BY <2>2
  <2>3. ASSUME NEW i \in S, i < len
        PROVE  p + i \in B
    <3>1. i \in 0 .. len - 1 /\ p + i \in p .. z - 1
      BY <1>2, <2>3
    <3>. QED  BY <1>2, <3>1
  <2>. HIDE DEF S, B
  <2>. QED  BY <2>1, <2>2, <2>3 DEF Searched
<1>7. z \in A /\ p + len \notin B /\ \A i \in 0 .. len : p + i \in B => m[p + i] # 0
  BY <1>2, <1>3
<1>. HIDE DEF S, A, B
<1>8. /\ k \in 0 .. len
      /\ p + k \in A => FirstIn(A) = p + k
      /\ p + k \notin A => k = len /\ FirstIn(A) = NULL
  BY <1>5, SearchIs
<1>9. /\ p + k \in B => FirstIn(B) = p + k
      /\ p + k \notin B => k = len /\ FirstIn(B) = NULL
  BY <1>6, SearchIs
<1>10. p + strcspn(m, p, q) = FirstIn(A)
  BY <1>2, <1>4, <1>7, <1>8
<1>11. strpbrk(m, p, q) = IF m[p + k] = 0 THEN NULL ELSE p + k
  BY <1>4 DEF strpbrk
<1>12. strpbrk(m, p, q) = FirstIn(B)
  BY <1>2, <1>7, <1>8, <1>9, <1>11
<1>. QED  BY <1>10, <1>12 DEF A, B, In, EndOrIn

\* The last of these offsets with the character c.
LastFound(m, s, c, offsets) ==
  FoldLeft(LAMBDA found, i : IF Char(m[s + i]) = c THEN s + i ELSE found, NULL, offsets)

\* strrchr finds the last one, the terminator included.
LEMMA StrrchrIs ==
  ASSUME NEW m \in Seq(Byte), NEW p \in Nat \ {0}, NEW z, Ends(m, p, z), NEW c \in Int
  PROVE  strrchr(m, p, c) = LastIn({a \in p .. z : CharAt(m, a, c)})
<1>1. PICK len \in Nat : StringAt(m, p, z, len)
  BY StringAtIs
<1>2. z = p + len /\ strlen(m, p) = len
  <2>1. strlen(m, p) = z - p
    BY StrlenIs
  <2>. QED  BY <1>1, <2>1 DEF StringAt
<1>3. PICK n \in Nat : n = len + 1 /\ n = strlen(m, p) + 1 /\ p + n - 1 = z
  BY <1>2
<1>. DEFINE up == UpTo(n)
            step == [x \in Nat \X (1 .. n) |->
                       IF Char(m[p + up[x[2]]]) = c THEN p + up[x[2]] ELSE x[1]]
            Goes(f) == f = [T \in SUBSET (1 .. n) |->
                              IF T = {} THEN NULL
                              ELSE IF Char(m[p + up[Max(T)]]) = c THEN p + up[Max(T)]
                                   ELSE f[T \ {Max(T)}]]
            g == CHOOSE f : Goes(f)
            Found(k) == {a \in p .. p + k - 1 : CharAt(m, a, c)}
            v == [k \in 0 .. n |-> LastIn(Found(k))]
<1>4. DOMAIN up = 1 .. n /\ \A k \in 1 .. n : up[k] = k - 1
  BY DEF UpTo
<1>5. strrchr(m, p, c) = g[1 .. n]
  <2>1. strrchr(m, p, c) = LastFound(m, p, c, UpTo(strlen(m, p) + 1))
    BY DEF strrchr, LastFound
  <2>2. LastFound(m, p, c, up) = g[1 .. n]
    BY <1>4 DEF LastFound, FoldLeft, MapThenFoldSet
  <2>. HIDE DEF g
  <2>. QED  BY <1>3, <2>1, <2>2
<1>. HIDE DEF up
<1>6. NULL \in Nat /\ step \in [Nat \X (1 .. n) -> Nat]
  <2>1. ASSUME NEW x \in Nat \X (1 .. n)
        PROVE  (IF Char(m[p + up[x[2]]]) = c THEN p + up[x[2]] ELSE x[1]) \in Nat
    <3>1. PICK k \in 1 .. n, y \in Nat : x[2] = k /\ x[1] = y
      OBVIOUS
    <3>2. p + up[k] \in Nat
      BY <1>4
    <3>. QED  BY <3>1, <3>2
  <2>. QED  BY <2>1 DEF NULL
<1>7. \E f : Goes(f)
  <2>1. PICK f \in [SUBSET (1 .. n) -> Nat] : GoesThrough(f, n, NULL, step)
    <3>. HIDE DEF step
    <3>. QED  BY <1>6, GoesThroughExists
  <2>2. ASSUME NEW T \in SUBSET (1 .. n), T # {}
        PROVE  f[T] = IF Char(m[p + up[Max(T)]]) = c THEN p + up[Max(T)] ELSE f[T \ {Max(T)}]
    <3>1. Max(T) \in T
      BY <2>2, GreatestOf
    <3>2. <<f[T \ {Max(T)}], Max(T)>> \in Nat \X (1 .. n)
      BY <3>1
    <3>3. f[T] = step[<<f[T \ {Max(T)}], Max(T)>>]
      BY <2>1, <2>2 DEF GoesThrough
    <3>. QED  BY <3>2, <3>3
  <2>3. f[{}] = NULL
    BY <2>1 DEF GoesThrough
  <2>4. f = [T \in SUBSET (1 .. n) |-> f[T]]
    OBVIOUS
  <2>5. Goes(f)
    BY <2>2, <2>3, <2>4
  <2>. QED  BY <2>5
<1>8. Goes(g)
  <2>. HIDE DEF Goes
  <2>. QED  BY <1>7
<1>9. g[{}] = v[0]
  <2>1. g[{}] = NULL
    BY <1>8
  <2>2. Found(0) = {}
    OBVIOUS
  <2>3. v[0] = LastIn(Found(0))
    OBVIOUS
  <2>. HIDE DEF g, v, Found
  <2>. QED  BY <2>1, <2>2, <2>3 DEF LastIn
<1>10. ASSUME NEW k \in 1 .. n, g[(1 .. k) \ {k}] = v[k - 1]
       PROVE  g[1 .. k] = v[k]
  <2>1. Max(1 .. k) = k /\ 1 .. k \in SUBSET (1 .. n) /\ 1 .. k # {}
    BY GreatestIs
  <2>2. (1 .. k) \ {k} = 1 .. k - 1
    OBVIOUS
  <2>3. g[1 .. k] = IF Char(m[p + up[k]]) = c THEN p + up[k] ELSE g[1 .. k - 1]
    <3>1. g[1 .. k] = IF Char(m[p + up[Max(1 .. k)]]) = c THEN p + up[Max(1 .. k)]
                      ELSE g[(1 .. k) \ {Max(1 .. k)}]
      <4>1. \A T \in SUBSET (1 .. n) : T # {} =>
              g[T] = IF Char(m[p + up[Max(T)]]) = c THEN p + up[Max(T)] ELSE g[T \ {Max(T)}]
        BY <1>8
      <4>. HIDE DEF g
      <4>. QED  BY <2>1, <4>1
    <3>. HIDE DEF g
    <3>. QED  BY <2>1, <2>2, <3>1
  <2>4. PICK x \in Nat : x = p + up[k] /\ x = p + (k - 1) /\ x = p + k - 1
    BY <1>4
  <2>5. Char(m[x]) = c <=> CharAt(m, x, c)
    <3>1. m[x] \in Byte
      <4>1. k - 1 \in 0 .. len
        BY <1>3
      <4>. QED  BY <1>1, <2>4, <4>1 DEF StringAt
    <3>. QED  BY <3>1, CharIs DEF CharAt
  <2>6. v[k] = LastIn(Found(k)) /\ v[k - 1] = LastIn(Found(k - 1))
    OBVIOUS
  <2>7. CASE CharAt(m, x, c)
    <3>1. Found(k) \in SUBSET Nat /\ x \in Found(k) /\ \A a \in Found(k) : a <= x
      BY <2>4, <2>7
    <3>2. LastIn(Found(k)) = x
      <4>. HIDE DEF Found
      <4>. QED  BY <3>1, LastInIs
    <3>. HIDE DEF g, v, Found
    <3>. QED  BY <2>3, <2>4, <2>5, <2>6, <2>7, <3>2
  <2>8. CASE ~CharAt(m, x, c)
    <3>1. Found(k) = Found(k - 1)
      BY <2>4, <2>8
    <3>. HIDE DEF g, v, Found
    <3>. QED  BY <1>10, <2>2, <2>3, <2>4, <2>5, <2>6, <2>8, <3>1
  <2>. QED  BY <2>7, <2>8
<1>11. g[1 .. n] = v[n]
  <2>. HIDE DEF g, v
  <2>. QED  BY ONLY n \in Nat, <1>9, <1>10, GoesThroughAll
<1>12. v[n] = LastIn({a \in p .. z : CharAt(m, a, c)})
  <2>1. Found(n) = {a \in p .. z : CharAt(m, a, c)}
    BY <1>3
  <2>2. v[n] = LastIn(Found(n))
    OBVIOUS
  <2>. HIDE DEF v, Found
  <2>. QED  BY <2>1, <2>2
<1>. HIDE DEF g, v
<1>. QED  BY <1>5, <1>11, <1>12

\* Sequences begin alike if they do character by character.
LEMMA SameBeginning ==
  ASSUME NEW s \in Seq(Nat), NEW t \in Seq(Nat), NEW k \in Nat, k <= Len(s), k <= Len(t)
  PROVE  SubSeq(s, 1, k) = SubSeq(t, 1, k) <=> \A i \in 1 .. k : s[i] = t[i]
<1>1. ASSUME NEW x \in Seq(Nat), k <= Len(x)
      PROVE  /\ SubSeq(x, 1, k) \in Seq(Nat) /\ Len(SubSeq(x, 1, k)) = k
             /\ \A i \in 1 .. k : SubSeq(x, 1, k)[i] = x[i]
  <2>1. \A i \in 1 .. k : x[i] \in Nat
    <3>1. PICK l \in Nat : l = Len(x)
      OBVIOUS
    <3>2. \A i \in 1 .. k : i \in 1 .. Len(x)
      BY <1>1, <3>1
    <3>. QED  BY <3>2
  <2>2. 1 \in Int /\ k \in Int
    OBVIOUS
  <2>3. /\ SubSeq(x, 1, k) \in Seq(Nat)
        /\ Len(SubSeq(x, 1, k)) = IF 1 <= k THEN k - 1 + 1 ELSE 0
        /\ \A i \in 1 .. k - 1 + 1 : SubSeq(x, 1, k)[i] = x[1 + i - 1]
    BY <2>1, <2>2, SubSeqProperties
  <2>4. PICK u \in Seq(Nat) : /\ u = SubSeq(x, 1, k)
                              /\ Len(u) = IF 1 <= k THEN k - 1 + 1 ELSE 0
                              /\ \A i \in 1 .. k - 1 + 1 : u[i] = x[1 + i - 1]
    BY <2>3
  <2>5. Len(u) = k /\ \A i \in 1 .. k : u[i] = x[i]
    BY ONLY <2>4, k \in Nat
  <2>. QED  BY <2>4, <2>5
<1>2. PICK u, v \in Seq(Nat) : /\ u = SubSeq(s, 1, k) /\ Len(u) = k /\ \A i \in 1 .. k : u[i] = s[i]
                               /\ v = SubSeq(t, 1, k) /\ Len(v) = k /\ \A i \in 1 .. k : v[i] = t[i]
  BY <1>1
<1>3. (\A i \in 1 .. k : s[i] = t[i]) => u = v
  <2>1. u = [i \in 1 .. k |-> u[i]] /\ v = [i \in 1 .. k |-> v[i]]
    BY <1>2
  <2>. QED  BY <1>2, <2>1
<1>4. u = v => \A i \in 1 .. k : s[i] = t[i]
  BY <1>2
<1>. QED  BY <1>2, <1>3, <1>4

\* Where the search for a string breaks off at an address, and whether it has
\* found the string there.
MatchedAt(m, h, q) ==
  Until(LAMBDA j : m[h + j] = 0 \/ m[q + j] = 0 \/ m[h + j] # m[q + j])
FoundAt(m, h, q) == m[q + MatchedAt(m, h, q)] = 0
PlaceOf(m, p, q) == Until(LAMBDA i : FoundAt(m, p + i, q) \/ m[p + i] = 0)

\* It is found where the rest of the string begins with it.
LEMMA FoundIs ==
  ASSUME NEW m \in Seq(Byte), NEW p \in Nat \ {0}, NEW z, Ends(m, p, z), NEW a \in p .. z,
         NEW q \in Nat \ {0}, NEW e, Ends(m, q, e)
  PROVE  FoundAt(m, a, q) <=> IsPrefix(String(m, q), SubSeq(m, a, z - 1))
<1>. DEFINE S == {j \in Nat : m[a + j] = 0 \/ m[q + j] = 0 \/ m[a + j] # m[q + j]}
            k == FirstOf(S)
<1>1. a \in Nat \ {0} /\ Ends(m, a, z)
  BY DEF Ends
<1>a. PICK len \in Nat : StringAt(m, a, z, len)
  BY <1>1, StringAtIs
<1>b. PICK n \in Nat : StringAt(m, q, e, n)
  BY StringAtIs
<1>c. PICK s, t \in Seq(Nat) : s = String(m, a) /\ t = String(m, q) /\ s = SubSeq(m, a, z - 1)
  <2>1. Letter \subseteq Nat
    BY DEF Letter
  <2>2. String(m, a) \in Seq(Nat) /\ String(m, q) \in Seq(Nat)
    BY <1>a, <1>b, <2>1, SeqMonotonic DEF StringAt
  <2>3. String(m, a) = SubSeq(m, a, z - 1)
    BY <1>1, StringIs
  <2>. QED  BY <2>2, <2>3
<1>2. /\ Len(s) = len /\ m[a + len] = 0 /\ Len(t) = n /\ m[q + n] = 0
      /\ \A i \in 0 .. len - 1 : s[i + 1] = m[a + i] /\ m[a + i] # 0
      /\ \A i \in 0 .. n - 1 : t[i + 1] = m[q + i] /\ m[q + i] # 0
  <2>1. /\ Len(s) = len /\ m[a + len] = 0
        /\ \A i \in 0 .. len - 1 : s[i + 1] = m[a + i] /\ m[a + i] # 0
    BY <1>a, <1>c DEF StringAt
  <2>2. /\ Len(t) = n /\ m[q + n] = 0
        /\ \A i \in 0 .. n - 1 : t[i + 1] = m[q + i] /\ m[q + i] # 0
    BY <1>b, <1>c DEF StringAt
  <2>. QED  BY <2>1, <2>2
<1>3. S \in SUBSET Nat /\ len \in S /\ n \in S
  BY <1>2
<1>4. \A i \in Nat : i \notin S => m[a + i] # 0 /\ m[q + i] # 0 /\ m[a + i] = m[q + i]
  OBVIOUS
<1>5. \A i \in 0 .. n - 1 : i \in 0 .. len - 1 /\ m[a + i] = m[q + i] => i \notin S
  BY <1>2
<1>. HIDE DEF S
<1>6. k \in Nat /\ k <= len /\ k <= n /\ \A i \in S : k <= i
  BY <1>3, FirstOffset
<1>7. m[q + k] = 0 <=> k = n
  <2>1. k \in 0 .. n - 1 \/ k = n
    BY <1>6
  <2>. QED  BY <1>2, <2>1
<1>8. k = n <=> n <= len /\ \A i \in 0 .. n - 1 : m[a + i] = m[q + i]
  <2>1. ASSUME k = n
        PROVE  n <= len /\ \A i \in 0 .. n - 1 : m[a + i] = m[q + i]
    <3>1. \A i \in 0 .. n - 1 : i \in Nat /\ i \notin S
      BY <1>6, <2>1
    <3>. QED  BY <1>4, <1>6, <2>1, <3>1
  <2>2. ASSUME n <= len, \A i \in 0 .. n - 1 : m[a + i] = m[q + i]
        PROVE  k = n
    <3>1. \A i \in 0 .. n - 1 : i \notin S
      BY <1>5, <2>2
    <3>2. \A i \in S : n <= i
      BY <1>3, <3>1
    <3>. QED  BY <1>3, <3>2, FirstOfIs
  <2>. QED  BY <2>1, <2>2
<1>9. IsPrefix(t, s) <=> n <= len /\ \A i \in 0 .. n - 1 : m[a + i] = m[q + i]
  <2>1. IsPrefix(t, s) <=> n <= len /\ SubSeq(t, 1, n) = SubSeq(s, 1, n)
    BY <1>2 DEF IsPrefix
  <2>2. ASSUME n <= len
        PROVE  SubSeq(t, 1, n) = SubSeq(s, 1, n) <=> \A i \in 0 .. n - 1 : m[a + i] = m[q + i]
    <3>1. SubSeq(t, 1, n) = SubSeq(s, 1, n) <=> \A i \in 1 .. n : t[i] = s[i]
      <4>1. n <= Len(t) /\ n <= Len(s)
        BY <1>2, <2>2
      <4>. QED  BY <4>1, SameBeginning
    <3>2. (\A i \in 1 .. n : t[i] = s[i]) <=> \A i \in 0 .. n - 1 : t[i + 1] = s[i + 1]
      <4>1. \A i \in 1 .. n : i - 1 \in 0 .. n - 1 /\ (i - 1) + 1 = i
        OBVIOUS
      <4>2. \A i \in 0 .. n - 1 : i + 1 \in 1 .. n
        OBVIOUS
      <4>. QED  BY ONLY <4>1, <4>2
    <3>3. \A i \in 0 .. n - 1 : t[i + 1] = m[q + i] /\ s[i + 1] = m[a + i]
      BY <1>2, <2>2
    <3>. QED  BY ONLY <3>1, <3>2, <3>3
  <2>. QED  BY <2>1, <2>2
<1>10. FoundAt(m, a, q) <=> m[q + k] = 0
  <2>1. MatchedAt(m, a, q) = k
    BY DEF MatchedAt, Until, FirstOf, S
  <2>. QED  BY <2>1 DEF FoundAt
<1>. QED  BY <1>c, <1>7, <1>8, <1>9, <1>10

\* strstr finds the first place, also after a match that broke off.
LEMMA StrstrIs ==
  ASSUME NEW m \in Seq(Byte), NEW p \in Nat \ {0}, NEW z, Ends(m, p, z),
         NEW q \in Nat \ {0}, NEW e, Ends(m, q, e)
  PROVE  strstr(m, p, q) = FirstIn({a \in p .. z : IsPrefix(String(m, q), SubSeq(m, a, z - 1))})
<1>. DEFINE S == {i \in Nat : FoundAt(m, p + i, q) \/ m[p + i] = 0}
            A == {a \in p .. z : IsPrefix(String(m, q), SubSeq(m, a, z - 1))}
            k == FirstOf(S)
<1>1. PICK len \in Nat : StringAt(m, p, z, len)
  BY StringAtIs
<1>2. /\ z = p + len /\ m[p + len] = 0 /\ \A i \in 0 .. len : p + i \in p .. z
      /\ \A i \in 0 .. len - 1 : m[p + i] # 0
  BY <1>1 DEF StringAt
<1>3. \A i \in 0 .. len : FoundAt(m, p + i, q) <=> p + i \in A
  <2>1. ASSUME NEW i \in 0 .. len
        PROVE  FoundAt(m, p + i, q) <=> p + i \in A
    <3>1. PICK a \in p .. z : a = p + i
      BY <1>2
    <3>2. FoundAt(m, a, q) <=> IsPrefix(String(m, q), SubSeq(m, a, z - 1))
      BY FoundIs
    <3>. QED  BY <3>1, <3>2
  <2>. QED  BY <2>1
<1>4. strstr(m, p, q) = IF FoundAt(m, p + k, q) THEN p + k ELSE NULL
  <2>1. PlaceOf(m, p, q) = k
    BY DEF PlaceOf, Until, FirstOf
  <2>2. strstr(m, p, q)
          = IF FoundAt(m, p + PlaceOf(m, p, q), q) THEN p + PlaceOf(m, p, q) ELSE NULL
    BY DEF strstr, PlaceOf, Until, FoundAt, MatchedAt
  <2>. QED  BY <2>1, <2>2
<1>5. Searched(S, A, p, len)
  <2>1. S \in SUBSET Nat /\ len \in S /\ A \in SUBSET (p .. p + len)
    BY <1>2
  <2>2. ASSUME NEW i \in 0 .. len, p + i \in A
        PROVE  i \in S
    BY <1>3, <2>2
  <2>3. ASSUME NEW i \in S, i < len
        PROVE  p + i \in A
    <3>1. i \in 0 .. len /\ i \in 0 .. len - 1
      BY <2>3
    <3>2. FoundAt(m, p + i, q)
      BY <1>2, <3>1
    <3>. QED  BY <1>3, <3>1, <3>2
  <2>. HIDE DEF S, A
  <2>. QED  BY <2>1, <2>2, <2>3 DEF Searched
<1>. HIDE DEF S, A
<1>6. /\ k \in 0 .. len
      /\ p + k \in A => FirstIn(A) = p + k
      /\ p + k \notin A => k = len /\ FirstIn(A) = NULL
  BY <1>5, SearchIs
<1>7. strstr(m, p, q) = FirstIn(A)
  BY <1>3, <1>4, <1>6
<1>. QED  BY <1>7 DEF A

\* The index of the first difference of two sequences: they agree up to k, and
\* one ends there or they differ in the next.
FirstDifference(A, B, k) ==
  /\ k \in Nat /\ k <= Len(A) /\ k <= Len(B)
  /\ \A i \in 1 .. k : A[i] = B[i]
  /\ k < Len(A) /\ k < Len(B) => A[k + 1] # B[k + 1]

\* It is the same from either side.
LEMMA DifferenceSymmetric ==
  ASSUME NEW A, NEW B, NEW k, FirstDifference(A, B, k)
  PROVE  FirstDifference(B, A, k)
BY DEF FirstDifference

\* It decides the order.
LEMMA PrecedesIs ==
  ASSUME NEW A \in Seq(Nat), NEW B \in Seq(Nat), NEW k, FirstDifference(A, B, k)
  PROVE  Precedes(A, B) <=> k < Len(B) /\ (k = Len(A) \/ A[k + 1] < B[k + 1])
<1>1. PICK a, b \in Nat : a = Len(A) /\ b = Len(B)
  OBVIOUS
<1>2. /\ k \in Nat /\ k <= a /\ k <= b
      /\ \A i \in 1 .. k : A[i] = B[i]
      /\ k < a /\ k < b => A[k + 1] # B[k + 1]
  BY <1>1 DEF FirstDifference
<1>3. Min({a, b}) = IF a <= b THEN a ELSE b
  BY MinOfTwo
<1>4. ASSUME NEW j \in 0 .. Min({a, b})
      PROVE  /\ j \in Nat /\ j <= a /\ j <= b
             /\ SubSeq(A, 1, j) = SubSeq(B, 1, j) <=> \A i \in 1 .. j : A[i] = B[i]
  <2>1. j \in Nat /\ j <= a /\ j <= b
    BY <1>3
  <2>2. j <= Len(A) /\ j <= Len(B)
    BY <1>1, <2>1
  <2>3. SubSeq(A, 1, j) = SubSeq(B, 1, j) <=> \A i \in 1 .. j : A[i] = B[i]
    BY <2>1, <2>2, SameBeginning
  <2>. QED  BY <2>1, <2>3
<1>5. ASSUME Precedes(A, B)
      PROVE  k < b /\ (k = a \/ A[k + 1] < B[k + 1])
  <2>1. PICK j \in 0 .. Min({a, b}) : /\ SubSeq(A, 1, j) = SubSeq(B, 1, j) /\ j < b
                                      /\ j = a \/ A[j + 1] < B[j + 1]
    BY <1>1, <1>5 DEF Precedes
  <2>2. j \in Nat /\ j <= a /\ j <= b /\ \A i \in 1 .. j : A[i] = B[i]
    BY <1>4, <2>1
  <2>3. ~(k < j)
    <3>1. ASSUME k < j
          PROVE  FALSE
      <4>1. k + 1 \in 1 .. j /\ k < a /\ k < b
        BY <1>2, <2>2, <3>1
      <4>. QED  BY <1>2, <2>2, <4>1
    <3>. QED  BY <3>1
  <2>4. ~(j < k)
    <3>1. ASSUME j < k
          PROVE  FALSE
      <4>1. j + 1 \in 1 .. k /\ j # a
        BY <1>2, <2>2, <3>1
      <4>2. A[j + 1] = B[j + 1] /\ j + 1 \in 1 .. Len(A)
        BY <1>1, <1>2, <4>1
      <4>3. A[j + 1] \in Nat
        BY <4>2
      <4>. QED  BY <2>1, <4>1, <4>2, <4>3
    <3>. QED  BY <3>1
  <2>5. j = k
    BY <1>2, <2>2, <2>3, <2>4
  <2>. QED  BY <2>1, <2>5
<1>6. ASSUME k < b, k = a \/ A[k + 1] < B[k + 1]
      PROVE  Precedes(A, B)
  <2>1. k \in 0 .. Min({a, b})
    BY <1>2, <1>3
  <2>2. SubSeq(A, 1, k) = SubSeq(B, 1, k)
    BY <1>2, <1>4, <2>1
  <2>. QED  BY <1>1, <1>6, <2>1, <2>2 DEF Precedes
<1>. QED  BY <1>1, <1>5, <1>6

\* A character of a sequence, or the terminator behind it.
Ahead(A, i) == IF i <= Len(A) THEN A[i] ELSE 0

\* The difference of the characters there has the sign the order asks for, if
\* no character is a terminator or the sequences are of the same length.
LEMMA OrdersIs ==
  ASSUME NEW A \in Seq(Nat), NEW B \in Seq(Nat), NEW k, FirstDifference(A, B, k),
         \/ Len(A) = Len(B)
         \/ (\A i \in 1 .. Len(A) : A[i] # 0) /\ (\A i \in 1 .. Len(B) : B[i] # 0)
  PROVE  Orders(Ahead(A, k + 1) - Ahead(B, k + 1), A, B)
<1>1. PICK a, b \in Nat : a = Len(A) /\ b = Len(B)
  OBVIOUS
<1>2. /\ k \in Nat /\ k <= a /\ k <= b
      /\ k < a /\ k < b => A[k + 1] # B[k + 1]
  BY <1>1 DEF FirstDifference
<1>3. PICK x : x = Ahead(A, k + 1)
  OBVIOUS
<1>4. PICK y : y = Ahead(B, k + 1)
  OBVIOUS
<1>5. x \in Nat /\ (k < a => x = A[k + 1]) /\ (k = a => x = 0) /\ (a # b /\ k < a => x # 0)
  <2>1. CASE k < a
    <3>1. k + 1 \in 1 .. Len(A) /\ k + 1 <= Len(A)
      BY <1>1, <1>2, <2>1
    <3>2. x = A[k + 1] /\ A[k + 1] \in Nat /\ (a # b => A[k + 1] # 0)
      BY <1>1, <1>3, <3>1 DEF Ahead
    <3>. QED  BY <1>2, <2>1, <3>2
  <2>2. CASE k = a
    <3>1. ~(k + 1 <= Len(A))
      BY <1>1, <1>2, <2>2
    <3>. QED  BY <1>2, <1>3, <2>2, <3>1 DEF Ahead
  <2>. QED  BY <1>2, <2>1, <2>2
<1>6. y \in Nat /\ (k < b => y = B[k + 1]) /\ (k = b => y = 0) /\ (a # b /\ k < b => y # 0)
  <2>1. CASE k < b
    <3>1. k + 1 \in 1 .. Len(B) /\ k + 1 <= Len(B)
      BY <1>1, <1>2, <2>1
    <3>2. y = B[k + 1] /\ B[k + 1] \in Nat /\ (a # b => B[k + 1] # 0)
      BY <1>1, <1>4, <3>1 DEF Ahead
    <3>. QED  BY <1>2, <2>1, <3>2
  <2>2. CASE k = b
    <3>1. ~(k + 1 <= Len(B))
      BY <1>1, <1>2, <2>2
    <3>. QED  BY <1>2, <1>4, <2>2, <3>1 DEF Ahead
  <2>. QED  BY <1>2, <2>1, <2>2
<1>7. Precedes(A, B) <=> k < b /\ (k = a \/ A[k + 1] < B[k + 1])
  BY <1>1, PrecedesIs
<1>8. Precedes(B, A) <=> k < a /\ (k = b \/ B[k + 1] < A[k + 1])
  BY <1>1, PrecedesIs, DifferenceSymmetric
<1>9. x - y < 0 <=> Precedes(A, B)
  <2>1. CASE k < a /\ k < b
    BY <1>2, <1>5, <1>6, <1>7, <2>1
  <2>2. CASE ~(k < a /\ k < b)
    BY <1>2, <1>5, <1>6, <1>7, <2>2
  <2>. QED  BY <2>1, <2>2
<1>10. x - y > 0 <=> Precedes(B, A)
  <2>1. CASE k < a /\ k < b
    BY <1>2, <1>5, <1>6, <1>8, <2>1
  <2>2. CASE ~(k < a /\ k < b)
    BY <1>2, <1>5, <1>6, <1>8, <2>2
  <2>. QED  BY <2>1, <2>2
<1>. QED  BY <1>3, <1>4, <1>9, <1>10 DEF Orders

\* The bytes from p on are the characters of A.
BeginsWith(m, p, A, a) ==
  /\ A \in Seq(Nat) /\ Len(A) = a
  /\ \A i \in 0 .. a - 1 : A[i + 1] = m[p + i] /\ m[p + i] # 0

\* They agree with the bytes from q on up to k, and no further if none ends.
Agree(m, p, q, a, b, k) ==
  /\ k \in Nat /\ k <= a /\ k <= b
  /\ \A i \in 0 .. k - 1 : m[p + i] = m[q + i]
  /\ k < a /\ k < b => m[p + k] # m[q + k]

\* The difference of the characters in that place has the sign the order asks
\* for.
Difference(m, p, q, a, b, k) ==
  (IF k < a THEN m[p + k] ELSE 0) - (IF k < b THEN m[q + k] ELSE 0)

\* The first place where two strings differ decides a comparison.
LEMMA CompareIs ==
  ASSUME NEW m, NEW p, NEW q, NEW A, NEW B, NEW a \in Nat, NEW b \in Nat,
         BeginsWith(m, p, A, a), BeginsWith(m, q, B, b),
         NEW k, Agree(m, p, q, a, b, k)
  PROVE  Orders(Difference(m, p, q, a, b, k), A, B)
<1>0. /\ k \in Nat /\ k <= a /\ k <= b
      /\ \A i \in 0 .. k - 1 : m[p + i] = m[q + i]
      /\ k < a /\ k < b => m[p + k] # m[q + k]
  BY DEF Agree
<1>1. /\ A \in Seq(Nat) /\ Len(A) = a
      /\ \A i \in 0 .. a - 1 : A[i + 1] = m[p + i] /\ m[p + i] # 0
      /\ B \in Seq(Nat) /\ Len(B) = b
      /\ \A i \in 0 .. b - 1 : B[i + 1] = m[q + i] /\ m[q + i] # 0
  BY DEF BeginsWith
<1>2. ASSUME NEW i \in 1 .. k
      PROVE  A[i] = B[i]
  <2>1. PICK j \in 0 .. k - 1 : j + 1 = i
    <3>1. i - 1 \in 0 .. k - 1 /\ (i - 1) + 1 = i
      BY <1>0
    <3>. QED  BY <3>1
  <2>2. j \in 0 .. a - 1 /\ j \in 0 .. b - 1
    BY <1>0
  <2>. QED  BY <1>0, <1>1, <2>1, <2>2
<1>3. FirstDifference(A, B, k)
  <2>1. k < a /\ k < b => A[k + 1] # B[k + 1]
    BY <1>0, <1>1
  <2>. QED  BY <1>0, <1>1, <1>2, <2>1 DEF FirstDifference
<1>4. (\A i \in 1 .. Len(A) : A[i] # 0) /\ (\A i \in 1 .. Len(B) : B[i] # 0)
  <2>1. \A i \in 1 .. a : i - 1 \in 0 .. a - 1 /\ (i - 1) + 1 = i
    OBVIOUS
  <2>2. \A i \in 1 .. b : i - 1 \in 0 .. b - 1 /\ (i - 1) + 1 = i
    OBVIOUS
  <2>3. \A i \in 1 .. a : A[i] # 0
    BY ONLY <1>1, <2>1
  <2>4. \A i \in 1 .. b : B[i] # 0
    BY ONLY <1>1, <2>2
  <2>. QED  BY <1>1, <2>3, <2>4
<1>5. Orders(Ahead(A, k + 1) - Ahead(B, k + 1), A, B)
  BY <1>1, <1>3, <1>4, OrdersIs
<1>6. Ahead(A, k + 1) = IF k < a THEN m[p + k] ELSE 0
  <2>1. k + 1 <= Len(A) <=> k < a
    BY <1>0, <1>1
  <2>. QED  BY <1>0, <1>1, <2>1 DEF Ahead
<1>7. Ahead(B, k + 1) = IF k < b THEN m[q + k] ELSE 0
  <2>1. k + 1 <= Len(B) <=> k < b
    BY <1>0, <1>1
  <2>. QED  BY <1>0, <1>1, <2>1 DEF Ahead
<1>. QED  BY <1>5, <1>6, <1>7 DEF Difference

\* strcmp orders two strings.
LEMMA StrcmpIs ==
  ASSUME NEW m \in Seq(Byte), NEW p \in Nat \ {0}, NEW z, Ends(m, p, z),
         NEW q \in Nat \ {0}, NEW e, Ends(m, q, e)
  PROVE  Orders(strcmp(m, p, q), String(m, p), String(m, q))
<1>. DEFINE S == {i \in Nat : m[p + i] = 0 \/ m[p + i] # m[q + i]}
            k == FirstOf(S)
<1>1. PICK a \in Nat : StringAt(m, p, z, a)
  BY StringAtIs
<1>2. PICK b \in Nat : StringAt(m, q, e, b)
  BY StringAtIs
<1>3. /\ BeginsWith(m, p, String(m, p), a) /\ BeginsWith(m, q, String(m, q), b)
      /\ m[p + a] = 0 /\ m[q + b] = 0
  <2>1. Letter \subseteq Nat
    BY DEF Letter
  <2>2. String(m, p) \in Seq(Nat) /\ String(m, q) \in Seq(Nat)
    BY <1>1, <1>2, <2>1, SeqMonotonic DEF StringAt
  <2>. QED  BY <1>1, <1>2, <2>2 DEF StringAt, BeginsWith
<1>4. strcmp(m, p, q) = m[p + k] - m[q + k]
  BY DEF strcmp, Until, FirstOf
<1>5. S \in SUBSET Nat /\ a \in S
  BY <1>3
<1>6. \A i \in Nat : i \notin S => m[p + i] # 0 /\ m[p + i] = m[q + i]
  OBVIOUS
<1>7. \A i \in S : m[p + i] # 0 => m[p + i] # m[q + i]
  OBVIOUS
<1>. HIDE DEF S
<1>8. k \in S /\ k \in Nat /\ \A i \in S : k <= i
  BY <1>5, FirstOffset
<1>9. \A i \in 0 .. k - 1 : m[p + i] # 0 /\ m[p + i] = m[q + i]
  <2>1. \A i \in 0 .. k - 1 : i \in Nat /\ i \notin S
    BY <1>8
  <2>. QED  BY <1>6, <2>1
<1>10. k <= a /\ k <= b
  <2>1. k <= a
    BY <1>5, <1>8
  <2>2. b \notin 0 .. k - 1
    BY <1>3, <1>9
  <2>. QED  BY <1>8, <2>1, <2>2
<1>11. k < a /\ k < b => m[p + k] # m[q + k]
  <2>1. ASSUME k < a
        PROVE  m[p + k] # 0
    <3>1. k \in 0 .. a - 1
      BY <1>8, <2>1
    <3>. QED  BY <1>1, <3>1 DEF StringAt
  <2>. QED  BY <1>7, <1>8, <2>1
<1>12. Orders(Difference(m, p, q, a, b, k), String(m, p), String(m, q))
  <2>1. Agree(m, p, q, a, b, k)
    BY <1>8, <1>9, <1>10, <1>11 DEF Agree
  <2>. QED  BY ONLY <1>3, <2>1, a \in Nat, b \in Nat, CompareIs
<1>13. (IF k < a THEN m[p + k] ELSE 0) = m[p + k] /\ (IF k < b THEN m[q + k] ELSE 0) = m[q + k]
  <2>1. k < a \/ k = a
    BY <1>8, <1>10
  <2>2. k < b \/ k = b
    BY <1>8, <1>10
  <2>. QED  BY <1>3, <2>1, <2>2
<1>. QED  BY <1>4, <1>12, <1>13 DEF Difference

\* strncmp orders the first n characters.
LEMMA FirstCharacters ==
  ASSUME NEW m \in Seq(Byte), NEW p \in Nat \ {0}, NEW z, Ends(m, p, z), NEW n \in Nat
  PROVE  \E a \in Nat : /\ BeginsWith(m, p, First(String(m, p), n), a) /\ a <= n
                        /\ a < n => m[p + a] = 0
<1>1. PICK len \in Nat : StringAt(m, p, z, len)
  BY StringAtIs
<1>2. PICK a : a = IF n <= z - p THEN n ELSE z - p
  OBVIOUS
<1>3. PICK A : A = First(String(m, p), n)
  OBVIOUS
<1>4. A \in Seq(Nat) /\ BytesAt(m, p, a, A) /\ a \in Nat /\ Len(A) = a
  BY <1>2, <1>3, FirstIs
<1>5. z - p = len
  BY <1>1 DEF StringAt
<1>6. a <= n /\ a <= len /\ (a < n => a = len)
  BY <1>2, <1>5
<1>7. ASSUME NEW i \in 0 .. a - 1
      PROVE  A[i + 1] = m[p + i] /\ m[p + i] # 0
  <2>1. i + 1 \in 1 .. a /\ p + (i + 1) - 1 = p + i /\ i \in 0 .. len - 1
    BY <1>4, <1>6
  <2>2. A[i + 1] = m[p + i]
    BY <1>4, <2>1 DEF BytesAt
  <2>3. m[p + i] # 0
    BY <1>1, <2>1 DEF StringAt
  <2>. QED  BY <2>2, <2>3
<1>8. BeginsWith(m, p, A, a)
  BY <1>4, <1>7 DEF BeginsWith
<1>9. a < n => m[p + a] = 0
  BY <1>1, <1>6 DEF StringAt
<1>. QED  BY <1>3, <1>4, <1>6, <1>8, <1>9

\* The first place where one of them ends, or they differ, decides.
LEMMA StrncmpIs ==
  ASSUME NEW m \in Seq(Byte), NEW p \in Nat \ {0}, NEW z, Ends(m, p, z),
         NEW q \in Nat \ {0}, NEW e, Ends(m, q, e), NEW n \in Nat
  PROVE  Orders(strncmp(m, p, q, n), First(String(m, p), n), First(String(m, q), n))
<1>. DEFINE S == {i \in Nat : i = n - 1 \/ m[p + i] = 0 \/ m[p + i] # m[q + i]}
            K == FirstOf(S)
<1>1. PICK A, B : A = First(String(m, p), n) /\ B = First(String(m, q), n)
  OBVIOUS
<1>2. PICK a \in Nat : BeginsWith(m, p, A, a) /\ a <= n /\ (a < n => m[p + a] = 0)
  BY <1>1, FirstCharacters
<1>3. PICK b \in Nat : BeginsWith(m, q, B, b) /\ b <= n /\ (b < n => m[q + b] = 0)
  BY <1>1, FirstCharacters
<1>4. CASE n = 0
  <2>1. a = 0 /\ b = 0
    BY <1>2, <1>3, <1>4
  <2>2. Orders(Difference(m, p, q, a, b, n), A, B)
    <3>1. Agree(m, p, q, a, b, n)
      BY <1>4, <2>1 DEF Agree
    <3>. QED  BY ONLY <1>2, <1>3, <3>1, a \in Nat, b \in Nat, CompareIs
  <2>3. strncmp(m, p, q, n) = 0
    BY <1>4 DEF strncmp
  <2>4. Difference(m, p, q, a, b, n) = 0
    BY <1>4, <2>1 DEF Difference
  <2>. QED  BY <1>1, <2>2, <2>3, <2>4
<1>5. CASE n # 0
  <2>1. strncmp(m, p, q, n) = m[p + K] - m[q + K]
    BY <1>5 DEF strncmp, Compared, Until, FirstOf
  <2>2. S \in SUBSET Nat /\ n - 1 \in S /\ (a < n => a \in S)
    BY <1>2, <1>5
  <2>3. \A i \in Nat : i \notin S => m[p + i] # 0 /\ m[p + i] = m[q + i]
    OBVIOUS
  <2>4. \A i \in S : i = n - 1 \/ m[p + i] = 0 \/ m[p + i] # m[q + i]
    OBVIOUS
  <2>. HIDE DEF S
  <2>5. PICK k \in Nat : k = K /\ k \in S /\ \A i \in S : k <= i
    BY <2>2, FirstOffset
  <2>6. \A i \in 0 .. k - 1 : m[p + i] # 0 /\ m[p + i] = m[q + i]
    <3>1. \A i \in 0 .. k - 1 : i \in Nat /\ i \notin S
      BY <2>5
    <3>. QED  BY <2>3, <3>1
  <2>7. k < n /\ k <= a /\ k <= b
    <3>1. k <= n - 1
      BY <2>2, <2>5
    <3>2. a < n => k <= a
      BY <2>2, <2>5
    <3>3. b < n => b \notin 0 .. k - 1
      BY <1>3, <2>6
    <3>. QED  BY <1>2, <1>3, <3>1, <3>2, <3>3
  <2>8. (k < a => m[p + k] # 0) /\ (k < b => m[q + k] # 0)
    <3>1. (k < a => k \in 0 .. a - 1) /\ (k < b => k \in 0 .. b - 1)
      OBVIOUS
    <3>. QED  BY <1>2, <1>3, <3>1 DEF BeginsWith
  <2>9. (~(k < a) => m[p + k] = 0) /\ (~(k < b) => m[q + k] = 0)
    <3>1. (~(k < a) => k = a) /\ (~(k < b) => k = b)
      BY <2>7
    <3>. QED  BY <1>2, <1>3, <2>7, <3>1
  <2>10. CASE k < a /\ k < b /\ m[p + k] = m[q + k]
    <3>1. k = n - 1
      BY <2>4, <2>5, <2>8, <2>10
    <3>2. a = n /\ b = n
      BY <1>2, <1>3, <2>10, <3>1
    <3>3. \A i \in 0 .. n - 1 : m[p + i] = m[q + i]
      <4>1. \A i \in 0 .. n - 1 : i \in 0 .. k - 1 \/ i = k
        BY <3>1
      <4>. QED  BY <2>6, <2>10, <4>1
    <3>4. Orders(Difference(m, p, q, a, b, n), A, B)
      <4>1. Agree(m, p, q, a, b, n)
        BY <3>2, <3>3 DEF Agree
      <4>. QED  BY ONLY <1>2, <1>3, <4>1, a \in Nat, b \in Nat, CompareIs
    <3>5. Orders(0, A, B)
      <4>1. ~(n < a) /\ ~(n < b) /\ 0 - 0 = 0
        BY <3>2
      <4>. QED  BY <3>4, <4>1 DEF Difference
    <3>6. m[p + k] - m[q + k] = 0
      <4>1. k \in 0 .. a - 1 /\ A \in Seq(Nat) /\ Len(A) = a
        BY <1>2, <2>10 DEF BeginsWith
      <4>2. A[k + 1] = m[p + k] /\ k + 1 \in 1 .. Len(A)
        BY <1>2, <4>1 DEF BeginsWith
      <4>3. m[p + k] \in Nat
        BY <4>1, <4>2
      <4>. QED  BY <2>10, <4>3
    <3>. QED  BY <1>1, <2>1, <2>5, <3>5, <3>6
  <2>11. CASE ~(k < a /\ k < b /\ m[p + k] = m[q + k])
    <3>1. Orders(Difference(m, p, q, a, b, k), A, B)
      <4>1. Agree(m, p, q, a, b, k)
        BY <2>6, <2>7, <2>11 DEF Agree
      <4>. QED  BY ONLY <1>2, <1>3, <4>1, a \in Nat, b \in Nat, CompareIs
    <3>2. /\ (IF k < a THEN m[p + k] ELSE 0) = m[p + k]
          /\ (IF k < b THEN m[q + k] ELSE 0) = m[q + k]
      BY <2>9
    <3>. QED  BY <1>1, <2>1, <2>5, <3>1, <3>2 DEF Difference
  <2>. QED  BY <2>10, <2>11
<1>. QED  BY <1>4, <1>5

\* memcmp orders n bytes.
LEMMA MemcmpIs ==
  ASSUME mem \in Seq(Byte), NEW p \in Nat \ {0}, NEW q \in Nat \ {0}, NEW n \in Nat,
         p + n - 1 <= Len(mem), q + n - 1 <= Len(mem)
  PROVE  Orders(memcmp(mem, p, q, n), SubSeq(mem, p, p + n - 1), SubSeq(mem, q, q + n - 1))
<1>. DEFINE S == {i \in Nat : i = n \/ mem[p + i] # mem[q + i]}
            K == FirstOf(S)
<1>1. ASSUME NEW s \in Nat \ {0}, s + n - 1 <= Len(mem)
      PROVE  /\ SubSeq(mem, s, s + n - 1) \in Seq(Nat) /\ Len(SubSeq(mem, s, s + n - 1)) = n
             /\ \A i \in 0 .. n - 1 : SubSeq(mem, s, s + n - 1)[i + 1] = mem[s + i]
  <2>1. BytesAt(mem, s, n, SubSeq(mem, s, s + n - 1))
    BY <1>1, BytesFrom
  <2>2. PICK x, l : x = s + n - 1 /\ l \in Nat /\ l = Len(mem) /\ x \in Int /\ x <= l
    BY <1>1
  <2>3. ASSUME NEW i \in s .. x
        PROVE  mem[i] \in Nat
    <3>1. i \in 1 .. Len(mem)
      BY <2>2
    <3>2. mem[i] \in Byte
      BY <3>1
    <3>3. Byte \subseteq Nat
      BY DEF Byte
    <3>. QED  BY ONLY <3>2, <3>3
  <2>4. PICK u \in Seq(Nat) : u = SubSeq(mem, s, x)
    <3>1. SubSeq(mem, s, x) \in Seq(Nat)
      BY <2>2, <2>3, SubSeqProperties
    <3>. QED  BY <3>1
  <2>5. DOMAIN u = 1 .. n /\ \A i \in 1 .. n : u[i] = mem[s + i - 1]
    BY <2>1, <2>2, <2>4 DEF BytesAt
  <2>6. Len(u) = n
    BY <2>5
  <2>7. ASSUME NEW i \in 0 .. n - 1
        PROVE  u[i + 1] = mem[s + i]
    <3>1. i + 1 \in 1 .. n /\ s + (i + 1) - 1 = s + i
      OBVIOUS
    <3>. QED  BY <2>5, <3>1
  <2>. QED  BY <2>2, <2>4, <2>6, <2>7
<1>2. PICK A \in Seq(Nat) : /\ A = SubSeq(mem, p, p + n - 1) /\ Len(A) = n
                            /\ \A i \in 0 .. n - 1 : A[i + 1] = mem[p + i]
  BY <1>1
<1>3. PICK B \in Seq(Nat) : /\ B = SubSeq(mem, q, q + n - 1) /\ Len(B) = n
                            /\ \A i \in 0 .. n - 1 : B[i + 1] = mem[q + i]
  BY <1>1
<1>4. memcmp(mem, p, q, n) = IF K = n THEN 0 ELSE mem[p + K] - mem[q + K]
  BY DEF memcmp, Until, FirstOf
<1>5. S \in SUBSET Nat /\ n \in S
  OBVIOUS
<1>6. \A i \in Nat : i \notin S => mem[p + i] = mem[q + i]
  OBVIOUS
<1>7. \A i \in S : i = n \/ mem[p + i] # mem[q + i]
  OBVIOUS
<1>. HIDE DEF S
<1>8. PICK k \in Nat : k = K /\ k \in S /\ \A i \in S : k <= i
  BY <1>5, FirstOffset
<1>9. k <= n /\ (k < n => mem[p + k] # mem[q + k])
  BY <1>5, <1>7, <1>8
<1>10. ASSUME NEW i \in 1 .. k
       PROVE  A[i] = B[i]
  <2>1. PICK j \in 0 .. k - 1 : j + 1 = i
    <3>1. i - 1 \in 0 .. k - 1 /\ (i - 1) + 1 = i
      OBVIOUS
    <3>. QED  BY <3>1
  <2>2. j \in 0 .. n - 1 /\ j \in Nat /\ j \notin S
    <3>1. j \in 0 .. n - 1 /\ j \in Nat /\ ~(k <= j)
      BY ONLY <1>9, <2>1, k \in Nat, n \in Nat
    <3>. QED  BY ONLY <1>8, <3>1
  <2>3. A[j + 1] = mem[p + j] /\ B[j + 1] = mem[q + j]
    BY ONLY <1>2, <1>3, <2>2
  <2>4. mem[p + j] = mem[q + j]
    BY ONLY <1>6, <2>2
  <2>. QED  BY ONLY <2>1, <2>3, <2>4
<1>11. k < n => A[k + 1] = mem[p + k] /\ B[k + 1] = mem[q + k]
  <2>1. k < n => k \in 0 .. n - 1
    BY ONLY k \in Nat, n \in Nat
  <2>. QED  BY ONLY <1>2, <1>3, <2>1
<1>12. FirstDifference(A, B, k)
  BY <1>2, <1>3, <1>9, <1>10, <1>11 DEF FirstDifference
<1>13. Orders(Ahead(A, k + 1) - Ahead(B, k + 1), A, B)
  BY <1>2, <1>3, <1>12, OrdersIs
<1>14. Ahead(A, k + 1) - Ahead(B, k + 1) = IF k = n THEN 0 ELSE mem[p + k] - mem[q + k]
  <2>1. (k + 1 <= Len(A) <=> k < n) /\ (k + 1 <= Len(B) <=> k < n) /\ (k < n <=> k # n)
    BY <1>2, <1>3, <1>9
  <2>. QED  BY <1>11, <2>1 DEF Ahead
<1>. QED  BY <1>2, <1>3, <1>4, <1>8, <1>13, <1>14

\* The answer to a question is right in terms of the whole strings.
LEMMA AnswerIsRight ==
  ASSUME mem \in Texts, NEW fn, NEW p \in Nat \ {0}, NEW q \in Nat \ {0},
         NEW c \in Int, NEW n \in Nat, p \in Pointers,
         \/ fn \in {"strlen", "strnlen", "memchr", "strchr", "strrchr"}
         \/ /\ fn \in {"strncmp", "strcmp", "strspn", "strcspn", "strpbrk", "strstr", "memcmp"}
            /\ q \in Pointers
            /\ fn = "memcmp" => Room(p, n) /\ Room(q, n)
  PROVE  Right([fn |-> fn, p |-> p, q |-> q, c |-> c, n |-> n], Answer(fn, p, q, c, n))
<1>. DEFINE a == [fn |-> fn, p |-> p, q |-> q, c |-> c, n |-> n]
            Two == {"strncmp", "strcmp", "strspn", "strcspn", "strpbrk", "strstr", "memcmp"}
<1>0. a.fn = fn /\ a.p = p /\ a.q = q /\ a.c = c /\ a.n = n
  OBVIOUS
<1>. HIDE DEF a
<1>1. MemoryOK(mem)
  BY MemoryAssumption, TextsAreOK
<1>2. mem \in Seq(Byte)
  BY <1>1, PointerString
<1>3. PICK z : Ends(mem, p, z)
  BY <1>1, PointerString
<1>4. PICK s : s = String(mem, p)
  OBVIOUS
<1>5. Len(s) = z - p /\ p + Len(s) = z
  <2>1. Len(s) = z - p
    BY <1>2, <1>3, <1>4, StringBytes
  <2>2. z \in Int
    BY <1>3 DEF Ends
  <2>. QED  BY ONLY <2>1, <2>2, p \in Nat \ {0}
<1>6. CASE fn = "strlen"
  <2>1. strlen(mem, p) = Len(s)
    BY <1>2, <1>3, <1>5, StrlenIs
  <2>. QED  BY <1>0, <1>4, <1>6, <2>1 DEF Right, Answer
<1>7. CASE fn = "strnlen"
  <2>1. strnlen(mem, p, n) = Min({Len(s), n})
    BY <1>2, <1>3, <1>4, StrnlenIs
  <2>. QED  BY <1>0, <1>4, <1>7, <2>1 DEF Right, Answer
<1>8. CASE fn = "memchr"
  <2>1. memchr(mem, p, c, n) = FirstIn({b \in p .. p + n - 1 : mem[b] = c})
    BY MemchrIs
  <2>. QED  BY <1>0, <1>8, <2>1 DEF Right, Answer
<1>9. CASE fn = "strchr"
  <2>1. strchr(mem, p, c) = FirstIn({b \in p .. p + Len(s) : CharAt(mem, b, c)})
    BY <1>2, <1>3, <1>5, StrchrIs
  <2>. QED  BY <1>0, <1>4, <1>9, <2>1 DEF Right, Answer, CharAt
<1>10. CASE fn = "strrchr"
  <2>1. strrchr(mem, p, c) = LastIn({b \in p .. p + Len(s) : CharAt(mem, b, c)})
    BY <1>2, <1>3, <1>5, StrrchrIs
  <2>. QED  BY <1>0, <1>4, <1>10, <2>1 DEF Right, Answer, CharAt
<1>11. CASE q \in Pointers /\ fn \in Two /\ (fn = "memcmp" => Room(p, n) /\ Room(q, n))
  <2>1. PICK e : Ends(mem, q, e)
    BY <1>1, <1>11, PointerString
  <2>2. PICK t : t = String(mem, q)
    OBVIOUS
  <2>3. PICK C : C = ToSet(t) /\ C = ToSet(String(mem, q))
    BY <2>2
  <2>4. CASE fn = "strcmp"
    <3>1. Orders(strcmp(mem, p, q), s, t)
      BY <1>2, <1>3, <1>4, <2>1, <2>2, StrcmpIs
    <3>. QED  BY <1>0, <1>4, <2>2, <2>4, <3>1 DEF Right, Answer
  <2>5. CASE fn = "strncmp"
    <3>1. Orders(strncmp(mem, p, q, n), First(s, n), First(t, n))
      BY <1>2, <1>3, <1>4, <2>1, <2>2, StrncmpIs
    <3>. QED  BY <1>0, <1>4, <2>2, <2>5, <3>1 DEF Right, Answer
  <2>6. CASE fn = "memcmp"
    <3>1. p + n - 1 <= Len(mem) /\ q + n - 1 <= Len(mem)
      BY <1>11, <2>6 DEF Room
    <3>2. Orders(memcmp(mem, p, q, n), SubSeq(mem, p, p + n - 1), SubSeq(mem, q, q + n - 1))
      BY <1>2, <3>1, MemcmpIs
    <3>. QED  BY <1>0, <2>6, <3>2 DEF Right, Answer
  <2>7. CASE fn = "strspn"
    <3>1. p + strspn(mem, p, q) = FirstIn({b \in p .. z : b = z \/ mem[b] \notin C})
      BY ONLY <1>2, <1>3, <2>1, <2>3, p \in Nat \ {0}, q \in Nat \ {0}, StrspnFinds
    <3>. QED  BY <1>0, <1>4, <1>5, <2>2, <2>3, <2>7, <3>1 DEF Right, Answer
  <2>8. /\ p + strcspn(mem, p, q) = FirstIn(EndOrIn(mem, p, z, C))
        /\ strpbrk(mem, p, q) = FirstIn(In(mem, p, z, C))
    BY ONLY <1>2, <1>3, <2>1, <2>3, p \in Nat \ {0}, q \in Nat \ {0}, StrcspnFinds
  <2>9. CASE fn = "strcspn"
    BY <1>0, <1>4, <1>5, <2>2, <2>3, <2>8, <2>9 DEF Right, Answer, In, EndOrIn
  <2>11. CASE fn = "strpbrk"
    BY <1>0, <1>4, <1>5, <2>2, <2>3, <2>8, <2>11 DEF Right, Answer, In, EndOrIn
  <2>10. CASE fn = "strstr"
    <3>1. strstr(mem, p, q) = FirstIn({b \in p .. z : IsPrefix(t, SubSeq(mem, b, z - 1))})
      BY <1>2, <1>3, <2>1, <2>2, StrstrIs
    <3>. QED  BY <1>0, <1>4, <1>5, <2>2, <2>10, <3>1 DEF Right, Answer
  <2>. QED  BY <1>11, <2>4, <2>5, <2>6, <2>7, <2>9, <2>10, <2>11
<1>. QED  BY <1>6, <1>7, <1>8, <1>9, <1>10, <1>11 DEF a

-----------------------------------------------------------------------------
(* Classes of characters *)

\* One of two names is in a set.
LEMMA OneOfTwo ==
  ASSUME NEW R, NEW x, NEW y, x # y
  PROVE  Cardinality({x, y} \cap R) = 1 <=> (x \in R <=> y \notin R)
<1>1. IsFiniteSet({x, y} \cap R)
  <2>1. IsFiniteSet({x} \cup {y})
    BY FS_Singleton, FS_AddElement
  <2>2. {x, y} \cap R \in SUBSET ({x} \cup {y})
    OBVIOUS
  <2>. QED  BY <2>1, <2>2, FS_Subset
<1>2. Cardinality({x, y} \cap R) = 1 <=> \E u : {x, y} \cap R = {u}
  BY <1>1, FS_Singleton
<1>3. (\E u : {x, y} \cap R = {u}) <=> (x \in R <=> y \notin R)
  <2>1. ASSUME NEW u, {x, y} \cap R = {u}
        PROVE  x \in R <=> y \notin R
    BY <2>1
  <2>2. x \in R /\ y \notin R => {x, y} \cap R = {x}
    OBVIOUS
  <2>3. y \in R /\ x \notin R => {x, y} \cap R = {y}
    OBVIOUS
  <2>. QED  BY <2>1, <2>2, <2>3
<1>. QED  BY <1>2, <1>3

\* One of three.
LEMMA OneOfThree ==
  ASSUME NEW R, NEW x, NEW y, NEW w, x # y, x # w, y # w
  PROVE  Cardinality({x, y, w} \cap R) = 1
           <=> \/ x \in R /\ y \notin R /\ w \notin R
               \/ y \in R /\ x \notin R /\ w \notin R
               \/ w \in R /\ x \notin R /\ y \notin R
<1>1. IsFiniteSet({x, y, w} \cap R)
  <2>1. IsFiniteSet({x} \cup {y})
    BY FS_Singleton, FS_AddElement
  <2>2. IsFiniteSet(({x} \cup {y}) \cup {w})
    BY <2>1, FS_AddElement
  <2>3. {x, y, w} \cap R \in SUBSET (({x} \cup {y}) \cup {w})
    OBVIOUS
  <2>. QED  BY <2>2, <2>3, FS_Subset
<1>2. Cardinality({x, y, w} \cap R) = 1 <=> \E u : {x, y, w} \cap R = {u}
  BY <1>1, FS_Singleton
<1>3. ASSUME NEW u, {x, y, w} \cap R = {u}
      PROVE  \/ x \in R /\ y \notin R /\ w \notin R
             \/ y \in R /\ x \notin R /\ w \notin R
             \/ w \in R /\ x \notin R /\ y \notin R
  <2>1. u \in R /\ u \in {x, y, w} /\ \A v \in {x, y, w} : v \in R => v = u
    BY <1>3
  <2>. QED  BY <2>1
<1>4. x \in R /\ y \notin R /\ w \notin R => {x, y, w} \cap R = {x}
  OBVIOUS
<1>5. y \in R /\ x \notin R /\ w \notin R => {x, y, w} \cap R = {y}
  OBVIOUS
<1>6. w \in R /\ x \notin R /\ y \notin R => {x, y, w} \cap R = {w}
  OBVIOUS
<1>. QED  BY <1>2, <1>3, <1>4, <1>5, <1>6

\* The classes of a character are those its number says.
LEMMA ClassesAreRight ==
  ASSUME NEW c \in Int
  PROVE  RightClasses(c, [classes |-> ClassesOf(c), lower |-> tolower(c), upper |-> toupper(c)])
<1>1. PICK R : R = ClassesOf(c)
  OBVIOUS
<1>. DEFINE Names == {"upper", "lower", "alpha", "digit", "alnum", "cntrl", "graph", "print",
                      "space", "punct", "xdigit"}
<1>2. /\ "upper" \in R <=> c \in 65 .. 90
      /\ "lower" \in R <=> c \in 97 .. 122
      /\ "digit" \in R <=> c \in 48 .. 57
      /\ "alpha" \in R <=> c \in 65 .. 90 \/ c \in 97 .. 122
  BY <1>1 DEF ClassesOf, isupper, islower, isdigit, isalpha
<1>3. /\ "alnum" \in R <=> c \in 65 .. 90 \/ c \in 97 .. 122 \/ c \in 48 .. 57
      /\ "cntrl" \in R <=> c \in 0 .. 31 \/ c = 127
      /\ "graph" \in R <=> c \in 33 .. 126
      /\ "print" \in R <=> c \in 32 .. 126
  BY <1>1 DEF ClassesOf, isupper, islower, isdigit, isalpha, isalnum, iscntrl, isgraph, isprint
<1>4. /\ "xdigit" \in R <=> c \in 48 .. 57 \/ c \in 65 .. 70 \/ c \in 97 .. 102
      /\ "punct" \in R <=> /\ c \in 32 .. 126
                           /\ ~(c \in 65 .. 90 \/ c \in 97 .. 122 \/ c \in 48 .. 57)
                           /\ ~(c = 32 \/ c \in 9 .. 13)
  BY <1>1 DEF ClassesOf, isupper, islower, isdigit, isalpha, isalnum, isxdigit, isprint, isspace,
              ispunct
<1>5. PICK r : r = [classes |-> R, lower |-> tolower(c), upper |-> toupper(c)]
  OBVIOUS
<1>6. r.classes = R /\ r.lower = tolower(c) /\ r.upper = toupper(c)
  BY <1>5
<1>7. Cardinality({"cntrl", "print"} \cap R) = 1 <=> ("cntrl" \in R <=> "print" \notin R)
  BY OneOfTwo
<1>8. Cardinality({"alnum", "punct"} \cap R) = 1 <=> ("alnum" \in R <=> "punct" \notin R)
  BY OneOfTwo
<1>9. Cardinality({"upper", "lower"} \cap R) = 1 <=> ("upper" \in R <=> "lower" \notin R)
  BY OneOfTwo
<1>10. Cardinality({"upper", "lower", "digit"} \cap R) = 1
         <=> \/ "upper" \in R /\ "lower" \notin R /\ "digit" \notin R
             \/ "lower" \in R /\ "upper" \notin R /\ "digit" \notin R
             \/ "digit" \in R /\ "upper" \notin R /\ "lower" \notin R
  BY OneOfThree
<1>11. c \in 0 .. 127 <=> Cardinality({"cntrl", "print"} \cap R) = 1
  BY <1>3, <1>7
<1>12. "print" \in R <=> ("graph" \in R \/ c = 32)
  BY <1>3
<1>13. "graph" \in R <=> Cardinality({"alnum", "punct"} \cap R) = 1
  BY <1>3, <1>4, <1>8
<1>14. "alnum" \in R <=> Cardinality({"upper", "lower", "digit"} \cap R) = 1
  BY <1>2, <1>3, <1>10
<1>15. "alpha" \in R <=> Cardinality({"upper", "lower"} \cap R) = 1
  BY <1>2, <1>9
<1>16. /\ r.lower = IF c \in 65 .. 90 THEN c + 32 ELSE c
       /\ r.upper = IF c \in 97 .. 122 THEN c - 32 ELSE c
  BY <1>6 DEF tolower, toupper, isupper, islower
<1>17. "digit" \in R \/ ("alpha" \in R /\ r.lower \in 97 .. 102) <=> "xdigit" \in R
  BY <1>2, <1>4, <1>16
<1>18. /\ r.lower = (IF "upper" \in R THEN c + 32 ELSE c)
       /\ r.upper = (IF "lower" \in R THEN c - 32 ELSE c)
  BY <1>2, <1>16
<1>19. RightClasses(c, r)
  BY <1>6, <1>11, <1>12, <1>13, <1>14, <1>15, <1>17, <1>18 DEF RightClasses
<1>. QED  BY <1>1, <1>5, <1>19

\* Searches, comparisons and classes are right (string.c:80-160, 170-227,
\* 250-302): for every memory, any two pointers, any character and any length.
THEOREM AnswersAreRightAlways == Spec => AnswersAreRight
<1>. DEFINE OK == CASE call'.fn = "ctype" -> RightClasses(call'.c, ret')
                    [] "q" \in DOMAIN call' -> Right(call', ret')
                    [] OTHER -> TRUE
<1>1. ASSUME [Next]_vars
      PROVE  [OK]_vars
  <2>1. CASE Question
    <3>1. PICK p, q \in Pointers, c \in Ints, n \in Counts :
            \/ Ask("strlen", p, 1, 1, 1)
            \/ Ask("strnlen", p, 1, 1, n)
            \/ Room(p, n) /\ Room(q, n) /\ Ask("memcmp", p, q, 1, n)
            \/ Ask("strncmp", p, q, 1, n)
            \/ Room(p, n) /\ Ask("memchr", p, 1, c, n)
            \/ \E fn \in {"strchr", "strrchr"} : Ask(fn, p, 1, c, 1)
            \/ \E fn \in {"strcmp", "strspn", "strcspn", "strpbrk", "strstr"} : Ask(fn, p, q, 1, 1)
      BY <2>1 DEF Question
    <3>2. mem \in Texts
      BY <2>1 DEF Question, Fresh
    <3>3. /\ p \in Nat \ {0} /\ q \in Nat \ {0} /\ 1 \in Nat \ {0}
          /\ c \in Int /\ 1 \in Int /\ n \in Nat /\ 1 \in Nat
      BY MemoryAssumption
    <3>4. PICK fn, x, y, k : /\ Ask(fn, p, x, y, k)
                             /\ x \in Nat \ {0} /\ y \in Int /\ k \in Nat
                             /\ \/ fn \in {"strlen", "strnlen", "memchr", "strchr", "strrchr"}
                                \/ /\ fn \in {"strncmp", "strcmp", "strspn", "strcspn",
                                              "strpbrk", "strstr", "memcmp"}
                                   /\ x \in Pointers
                                   /\ fn = "memcmp" => Room(p, k) /\ Room(x, k)
      <4>1. CASE Ask("strlen", p, 1, 1, 1) \/ Ask("strnlen", p, 1, 1, n)
        BY <3>3, <4>1
      <4>2. CASE Room(p, n) /\ Room(q, n) /\ Ask("memcmp", p, q, 1, n)
        BY <3>3, <4>2
      <4>3. CASE Ask("strncmp", p, q, 1, n) \/ Ask("memchr", p, 1, c, n)
        BY <3>3, <4>3
      <4>4. CASE \E fn \in {"strchr", "strrchr"} : Ask(fn, p, 1, c, 1)
        BY <3>3, <4>4
      <4>5. CASE \E fn \in {"strcmp", "strspn", "strcspn", "strpbrk", "strstr"} :
                   Ask(fn, p, q, 1, 1)
        BY <3>3, <4>5
      <4>. QED  BY <3>1, <4>1, <4>2, <4>3, <4>4, <4>5
    <3>5. Right([fn |-> fn, p |-> p, q |-> x, c |-> y, n |-> k], Answer(fn, p, x, y, k))
      BY <3>2, <3>3, <3>4, AnswerIsRight
    <3>6. call' = [fn |-> fn, p |-> p, q |-> x, c |-> y, n |-> k] /\ ret' = Answer(fn, p, x, y, k)
      BY <3>4 DEF Ask
    <3>7. call'.fn # "ctype" /\ "q" \in DOMAIN call'
      BY <3>4, <3>6
    <3>8. Right(call', ret')
      BY <3>5, <3>6
    <3>. QED  BY <3>7, <3>8
  <2>2. CASE Classify
    <3>1. PICK c \in -128 .. 255 :
            /\ ret' = [classes |-> ClassesOf(c), lower |-> tolower(c), upper |-> toupper(c)]
            /\ call' = [fn |-> "ctype", c |-> c]
      BY <2>2 DEF Classify
    <3>2. RightClasses(c, ret')
      BY <3>1, ClassesAreRight
    <3>3. call'.fn = "ctype" /\ call'.c = c /\ "q" \notin DOMAIN call'
      BY <3>1
    <3>. QED  BY <3>2, <3>3
  <2>3. CASE CopyCall \/ SetCall \/ Tokenise \/ PrintNumber \/ ReadNumber
    <3>1. CopyCall => call'.fn # "ctype" /\ "q" \notin DOMAIN call'
      BY DEF CopyCall
    <3>2. SetCall => call'.fn # "ctype" /\ "q" \notin DOMAIN call'
      BY DEF SetCall
    <3>3. Tokenise => call'.fn # "ctype" /\ "q" \notin DOMAIN call'
      <4>1. Tokenise => \E str : call' = [fn |-> "strtok", str |-> str]
        BY DEF Tokenise
      <4>. QED  BY <4>1
    <3>4. PrintNumber => call'.fn # "ctype" /\ "q" \notin DOMAIN call'
      BY DEF PrintNumber
    <3>5. ReadNumber => call'.fn # "ctype" /\ "q" \notin DOMAIN call'
      BY DEF ReadNumber
    <3>. QED  BY <2>3, <3>1, <3>2, <3>3, <3>4, <3>5
  <2>4. CASE Done \/ UNCHANGED vars
    <3>1. UNCHANGED vars
      BY <2>4 DEF Done
    <3>. QED  BY <3>1
  <2>. QED  BY <1>1, <2>1, <2>2, <2>3, <2>4 DEF Next
<1>. QED  BY <1>1, PTL DEF Spec, AnswersAreRight

=============================================================================
