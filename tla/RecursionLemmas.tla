--------------------------- MODULE RecursionLemmas ---------------------------
(***************************************************************************)
(* What the loops of the models compute: a loop that ends at the first     *)
(* index of a kind (Until), and one that goes through a sequence           *)
(* (FoldLeft).  Both are recursive functions, so that two things have to   *)
(* be shown: that there is a function as the recursion says, and what      *)
(* every such function is at the one place where it is used.  Induction is *)
(* done by taking a least counterexample.                                  *)
(***************************************************************************)
EXTENDS Integers, FiniteSetsExt, SequencesExt, TLAPS, WellFoundedInduction

\* A set of natural numbers has a least one.
LEMMA Least ==
  ASSUME NEW S \in SUBSET Nat, S # {}
  PROVE  \E n \in S : \A m \in S : n <= m
<1>1. PICK R : IsWellFoundedOn(R, Nat) /\ R = {p \in Nat \X Nat : p[1] < p[2]}
  BY NatLessThanWellFounded DEF OpToRel
<1>2. PICK x \in S : \A y \in S : ~(<<y, x>> \in R)
  BY <1>1, WFMin
<1>3. ASSUME NEW m \in S
      PROVE  x <= m
  <2>1. <<m, x>> \notin R
    BY <1>2
  <2>. QED  BY <1>1, <2>1
<1>. QED  BY <1>3

\* A set of numbers from 0 to n that has 0, and k + 1 with k, has all of them.
LEMMA Count ==
  ASSUME NEW n \in Nat, NEW S, 0 \in S, \A k \in 0 .. n - 1 : k \in S => k + 1 \in S
  PROVE  0 .. n \subseteq S
<1>. DEFINE Missing == {k \in 0 .. n : k \notin S}
<1>1. CASE Missing = {}
  BY <1>1
<1>2. CASE Missing # {}
  <2>1. Missing \in SUBSET Nat
    OBVIOUS
  <2>2. PICK k \in Missing : \A j \in Missing : k <= j
    BY <1>2, <2>1, Least
  <2>3. k # 0 /\ k \in 1 .. n
    OBVIOUS
  <2>4. k - 1 \in 0 .. n - 1 /\ k - 1 \notin Missing /\ (k - 1) + 1 = k
    BY <2>2, <2>3
  <2>. QED  BY <2>4
<1>. QED  BY <1>1, <1>2

-----------------------------------------------------------------------------
(* A loop that ends at the first index of a set *)

EndsIn(f, S) == f = [i \in Nat |-> IF i \in S THEN i ELSE f[i + 1]]
FirstOf(S) == LET run[i \in Nat] == IF i \in S THEN i ELSE run[i + 1] IN run[0]

\* There is such a function: behind the last index of S it is any constant.
LEMMA EndsInExists ==
  ASSUME NEW S \in SUBSET Nat
  PROVE  \E f : EndsIn(f, S)
<1>. DEFINE From(i) == {j \in S : i <= j}
            Smallest(N) == CHOOSE j \in N : \A k \in N : j <= k
            First(i) == Smallest(From(i))
            f == [i \in Nat |-> IF From(i) = {} THEN 0 ELSE First(i)]
<1>1. ASSUME NEW i \in Nat, From(i) # {}
      PROVE  First(i) \in From(i) /\ \A k \in From(i) : First(i) <= k
  <2>1. \E j \in From(i) : \A k \in From(i) : j <= k
    BY <1>1, Least
  <2>. QED  BY <2>1
<1>2. ASSUME NEW i \in Nat
      PROVE  f[i] = IF i \in S THEN i ELSE f[i + 1]
  <2>1. CASE i \in S
    <3>1. i \in From(i)
      BY <2>1
    <3>2. First(i) \in Nat /\ First(i) <= i /\ i <= First(i)
      BY <1>1, <3>1
    <3>. QED  BY <2>1, <3>1, <3>2
  <2>2. CASE i \notin S
    <3>1. From(i) = From(i + 1)
      <4>1. ASSUME NEW j \in S
            PROVE  i <= j <=> i + 1 <= j
        BY <2>2
      <4>. QED  BY <4>1
    <3>2. First(i) = First(i + 1)
      BY <3>1
    <3>3. f[i] = f[i + 1]
      <4>1. \A j \in Nat : f[j] = IF From(j) = {} THEN 0 ELSE First(j)
        OBVIOUS
      <4>. HIDE DEF From, First, f
      <4>. QED  BY <3>1, <3>2, <4>1
    <3>. QED  BY <2>2, <3>3
  <2>. QED  BY <2>1, <2>2
<1>3. f = [i \in Nat |-> IF i \in S THEN i ELSE f[i + 1]]
  <2>1. f = [i \in Nat |-> f[i]]
    OBVIOUS
  <2>. HIDE DEF f
  <2>. QED  BY <1>2, <2>1
<1>. QED  BY <1>3 DEF EndsIn

\* It leads from 0 to the first index of S.
LEMMA EndsAtFirst ==
  ASSUME NEW S \in SUBSET Nat, NEW k \in S, \A i \in S : k <= i, NEW f, EndsIn(f, S)
  PROVE  f[0] = k
<1>1. \A i \in 0 .. k - 1 : f[i] = f[i + 1]
  BY DEF EndsIn
<1>. DEFINE Same == {i \in 0 .. k : f[0] = f[i]}
<1>2. 0 .. k \subseteq Same
  <2>1. 0 \in Same
    OBVIOUS
  <2>2. ASSUME NEW i \in 0 .. k - 1, i \in Same
        PROVE  i + 1 \in Same
    BY <1>1, <2>2
  <2>. HIDE DEF Same
  <2>. QED  BY <2>1, <2>2, Count
<1>3. f[0] = f[k]
  BY <1>2
<1>. QED  BY <1>3 DEF EndsIn

\* The index a loop ends at.
LEMMA FirstOfIs ==
  ASSUME NEW S \in SUBSET Nat, NEW k \in S, \A i \in S : k <= i
  PROVE  FirstOf(S) = k
<1>. DEFINE run == CHOOSE f : EndsIn(f, S)
<1>1. EndsIn(run, S)
  BY EndsInExists
<1>2. FirstOf(S) = run[0]
  BY DEF FirstOf, EndsIn
<1>. QED  BY <1>1, <1>2, EndsAtFirst

-----------------------------------------------------------------------------
(* A loop that goes through a sequence *)

\* The greatest number of a set.
LEMMA MaxIs ==
  ASSUME NEW S \in SUBSET Int, NEW x \in S, \A y \in S : y <= x
  PROVE  Max(S) = x
<1>1. \E y \in S : \A z \in S : y >= z
  OBVIOUS
<1>2. Max(S) \in S /\ \A z \in S : Max(S) >= z
  BY <1>1 DEF Max
<1>3. PICK y \in S : y = Max(S) /\ y >= x /\ y <= x
  BY <1>2
<1>4. x \in Int /\ y \in Int
  OBVIOUS
<1>. QED  BY <1>3, <1>4

\* A set of numbers from 1 to n has a greatest one.
LEMMA GreatestOf ==
  ASSUME NEW n \in Nat, NEW T \in SUBSET (1 .. n), T # {}
  PROVE  Max(T) \in T /\ \A k \in T : k <= Max(T)
<1>. DEFINE Back == {n - k : k \in T}
<1>1. Back \in SUBSET Nat /\ Back # {}
  <2>1. ASSUME NEW k \in T
        PROVE  n - k \in Nat
    <3>1. k \in 1 .. n
      OBVIOUS
    <3>. QED  BY <3>1
  <2>. QED  BY <2>1
<1>2. PICK b \in Back : \A c \in Back : b <= c
  BY <1>1, Least
<1>3. PICK x \in T : b = n - x
  OBVIOUS
<1>4. ASSUME NEW k \in T
      PROVE  k <= x
  <2>1. b <= n - k /\ k \in Nat /\ x \in Nat
    BY <1>2
  <2>. QED  BY <1>3, <2>1
<1>5. Max(T) = x
  BY <1>4, MaxIs
<1>. QED  BY <1>4, <1>5

\* The numbers from 1 to k have k as the greatest.
LEMMA GreatestIs ==
  ASSUME NEW n \in Nat, NEW k \in 1 .. n
  PROVE  Max(1 .. k) = k /\ 1 .. k \in SUBSET (1 .. n) /\ 1 .. k # {}
<1>1. k \in Nat /\ 1 <= k /\ k <= n
  OBVIOUS
<1>2. 1 .. k \subseteq 1 .. n
  BY <1>1
<1>3. k \in 1 .. k
  BY <1>1
<1>4. 1 .. k \in SUBSET Int /\ \A y \in 1 .. k : y <= k
  BY <1>1
<1>5. Max(1 .. k) = k
  BY <1>3, <1>4, MaxIs
<1>. QED  BY <1>2, <1>3, <1>5, Zenon

\* The least number of a set.
LEMMA MinIs ==
  ASSUME NEW S \in SUBSET Int, NEW x \in S, \A y \in S : x <= y
  PROVE  Min(S) = x
<1>1. \E y \in S : \A z \in S : y <= z
  OBVIOUS
<1>2. Min(S) \in S /\ \A z \in S : Min(S) <= z
  BY <1>1 DEF Min
<1>3. PICK y \in S : y = Min(S) /\ y >= x /\ y <= x
  BY <1>2
<1>4. x \in Int /\ y \in Int
  OBVIOUS
<1>. QED  BY <1>3, <1>4

GoesThrough(g, n, base, step) ==
  g = [T \in SUBSET (1 .. n) |-> IF T = {} THEN base ELSE step[<<g[T \ {Max(T)}], Max(T)>>]]

\* There is such a function: one for subsets of 1..k + 1 is made of one for
\* subsets of 1..k.
LEMMA GoesThroughExists ==
  ASSUME NEW D, NEW base \in D, NEW n \in Nat, NEW step \in [D \X (1 .. n) -> D]
  PROVE  \E g \in [SUBSET (1 .. n) -> D] : GoesThrough(g, n, base, step)
<1>. DEFINE At(k) == \E g \in [SUBSET (1 .. k) -> D] : GoesThrough(g, k, base, step)
            Good == {k \in 0 .. n : At(k)}
<1>1. At(0)
  <2>. DEFINE g == [T \in SUBSET (1 .. 0) |-> base]
  <2>1. g \in [SUBSET (1 .. 0) -> D]
    OBVIOUS
  <2>2. SUBSET (1 .. 0) = {{}}
    OBVIOUS
  <2>3. GoesThrough(g, 0, base, step)
    BY <2>2 DEF GoesThrough
  <2>. QED  BY <2>1, <2>3
<1>2. ASSUME NEW k \in 0 .. n - 1, At(k)
      PROVE  At(k + 1)
  <2>1. PICK g \in [SUBSET (1 .. k) -> D] : GoesThrough(g, k, base, step)
    BY <1>2
  <2>2. PICK l \in 1 .. n : l = k + 1
    OBVIOUS
  <2>. DEFINE h == [T \in SUBSET (1 .. l) |->
                      IF l \in T THEN step[<<g[T \ {l}], l>>] ELSE g[T]]
  <2>3. \A T \in SUBSET (1 .. l) : T \ {l} \in SUBSET (1 .. k)
    BY <2>2
  <2>4. \A T \in SUBSET (1 .. l) : l \notin T => T \in SUBSET (1 .. k)
    BY <2>2
  <2>5. h \in [SUBSET (1 .. l) -> D]
    <3>1. ASSUME NEW T \in SUBSET (1 .. l)
          PROVE  (IF l \in T THEN step[<<g[T \ {l}], l>>] ELSE g[T]) \in D
      <4>1. g[T \ {l}] \in D
        BY <2>3
      <4>2. <<g[T \ {l}], l>> \in D \X (1 .. n)
        BY <4>1
      <4>3. step[<<g[T \ {l}], l>>] \in D
        BY <4>2
      <4>4. l \notin T => g[T] \in D
        BY <2>4
      <4>. QED  BY <4>3, <4>4
    <3>. QED  BY <3>1
  <2>6. ASSUME NEW T \in SUBSET (1 .. l)
        PROVE  h[T] = IF T = {} THEN base ELSE step[<<h[T \ {Max(T)}], Max(T)>>]
    <3>1. CASE l \in T
      <4>1. Max(T) = l
        <5>1. T \in SUBSET Int /\ \A y \in T : y <= l
          BY <2>2
        <5>. QED  BY <3>1, <5>1, MaxIs
      <4>2. T \ {l} \in SUBSET (1 .. l) /\ l \notin T \ {l}
        OBVIOUS
      <4>3. h[T \ {l}] = g[T \ {l}]
        BY <4>2
      <4>4. h[T] = step[<<g[T \ {l}], l>>] /\ T # {}
        BY <3>1
      <4>. QED  BY <4>1, <4>3, <4>4
    <3>2. CASE l \notin T
      <4>1. T \in SUBSET (1 .. k) /\ h[T] = g[T]
        BY <2>4, <3>2
      <4>2. T \ {Max(T)} \in SUBSET (1 .. l) /\ l \notin T \ {Max(T)}
        BY <3>2
      <4>3. h[T \ {Max(T)}] = g[T \ {Max(T)}]
        BY <4>2
      <4>4. g[T] = IF T = {} THEN base ELSE step[<<g[T \ {Max(T)}], Max(T)>>]
        BY <2>1, <4>1 DEF GoesThrough
      <4>. QED  BY <4>1, <4>3, <4>4
    <3>. QED  BY <3>1, <3>2
  <2>7. h = [T \in SUBSET (1 .. l) |->
               IF T = {} THEN base ELSE step[<<h[T \ {Max(T)}], Max(T)>>]]
    <3>1. h = [T \in SUBSET (1 .. l) |-> h[T]]
      BY <2>5
    <3>. QED  BY <2>6, <3>1
  <2>8. GoesThrough(h, l, base, step)
    BY <2>7 DEF GoesThrough
  <2>. QED  BY <2>2, <2>5, <2>8
<1>3. 0 .. n \subseteq Good
  <2>. HIDE DEF At
  <2>1. 0 \in Good
    BY <1>1
  <2>2. ASSUME NEW k \in 0 .. n - 1, k \in Good
        PROVE  k + 1 \in Good
    <3>1. k + 1 \in 0 .. n /\ At(k)
      BY <2>2
    <3>. QED  BY <1>2, <3>1
  <2>. HIDE DEF Good
  <2>. QED  BY <2>1, <2>2, Count
<1>4. At(n)
  <2>. HIDE DEF At
  <2>1. n \in Good
    BY <1>3
  <2>. QED  BY <2>1
<1>. QED  BY <1>4

\* What such a function is for all numbers from 1 to n, if for those from 1 to
\* k it is v[k] one after the other.
LEMMA GoesThroughAll ==
  ASSUME NEW n \in Nat, NEW g, NEW v, g[{}] = v[0],
         \A k \in 1 .. n : g[(1 .. k) \ {k}] = v[k - 1] => g[1 .. k] = v[k]
  PROVE  g[1 .. n] = v[n]
<1>. DEFINE Good == {k \in 0 .. n : g[1 .. k] = v[k]}
<1>1. 0 .. n \subseteq Good
  <2>1. 0 \in Good
    <3>1. 1 .. 0 = {}
      OBVIOUS
    <3>. QED  BY <3>1
  <2>2. ASSUME NEW k \in 0 .. n - 1, k \in Good
        PROVE  k + 1 \in Good
    <3>1. PICK l \in 1 .. n : l = k + 1
      OBVIOUS
    <3>2. (1 .. l) \ {l} = 1 .. k
      BY <3>1
    <3>3. g[(1 .. l) \ {l}] = v[l - 1]
      <4>1. g[1 .. k] = v[k] /\ l - 1 = k
        BY <2>2, <3>1
      <4>. QED  BY <3>2, <4>1
    <3>4. g[1 .. l] = v[l]
      BY <3>3
    <3>. QED  BY <3>1, <3>4
  <2>. HIDE DEF Good
  <2>. QED  BY <2>1, <2>2, Count
<1>. QED  BY <1>1

=============================================================================
