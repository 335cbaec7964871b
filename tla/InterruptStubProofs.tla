-------------------------- MODULE InterruptStubProofs --------------------------
(***************************************************************************)
(* Proofs about InterruptStub, for every set of vectors and every depth of *)
(* nesting: the handler finds the frame of its interrupt, the stack is     *)
(* aligned when it is called, and iretq resumes what was interrupted.      *)
(*                                                                         *)
(* The inductive invariant says of every interrupt in progress, the one    *)
(* that runs and those it has interrupted, how far its stub has come: the  *)
(* words of its frame that are on the stack and the registers it has given *)
(* back.  Because what it says of one interrupt is said of the words, the  *)
(* registers and the place where the next one has found it, an interrupt   *)
(* that returns leaves behind what it needs to hold again.                 *)
(***************************************************************************)
EXTENDS InterruptStub, SequenceTheorems, TLAPS

Locations ==
  [at : {"code", "handler", "stub", "crash"}, vector : 0 .. 255, k : Nat]

\* The words on the stack and in the registers.
Kinds ==
  {"rdi", "rsi", "rbp", "rdx", "rcx", "rbx", "rax", "r8", "r9", "r10", "r11", "r12", "r13",
   "r14", "r15", "cr0", "cr2", "cr3", "cr4", "ds", "es", "frame", "padding", "ss", "rsp",
   "rflags", "cs", "rip", "error", "number", "realHandler", "scratch"}
Words == Kinds \X (Int \cup BOOLEAN \cup Locations)
Registers == [General -> Words]
Interrupts ==
  [vector : Vectors, regs : Registers, iflag : BOOLEAN, pc : Locations, rsp : Nat]

Types ==
  /\ regs \in Registers /\ stack \in Seq(Words) /\ iflag \in BOOLEAN
  /\ pc \in Locations /\ saved \in Seq(Interrupts) /\ Len(saved) <= MaxNest

-----------------------------------------------------------------------------
(* One interrupt *)

EntryLength(v) == IF HasErrorCode(v) THEN 1 ELSE 2

\* The word of its frame that holds the vector, counted from the bottom.
NumberAt(v) == 5 + (IF PushesErrorCode(v) THEN 1 ELSE 0) + EntryLength(v)

\* The frame starts where the stack is aligned.
Base(e) == e.rsp + (e.rsp % 2)

\* Word i of the frame.
FrameWord(e, i) ==
  LET n == NumberAt(e.vector)
  IN IF i = 1 THEN <<"ss", 0>>
     ELSE IF i = 2 THEN <<"rsp", e.rsp>>
     ELSE IF i = 3 THEN <<"rflags", e.iflag>>
     ELSE IF i = 4 THEN <<"cs", 0>>
     ELSE IF i = 5 THEN <<"rip", e.pc>>
     ELSE IF i = 6 /\ PushesErrorCode(e.vector) THEN <<"error", e.vector>>
     ELSE IF i < n THEN <<"number", 0>>
     ELSE IF i = n THEN <<"number", e.vector>>
     ELSE IF i <= n + 15 THEN e.regs[Pushed[i - n]]
     ELSE <<Controls[i - n - 15], 0>>

\* How far the stub has come at instruction k: 1 is its first push, 16 the
\* first control register, 22 the call, 24 the first pop, 40 iretq.
Progress(v, k) == k - EntryLength(v)

\* How many words of the frame are on the stack then.
Height(v, k) ==
  LET s == Progress(v, k)
  IN NumberAt(v) + (IF s <= 22 THEN s - 1 ELSE IF s = 23 THEN 21
                    ELSE IF s <= 39 THEN 39 - s ELSE -2)

\* The registers are those of the interrupted code until the first control
\* register, and from the pops on those that are popped are.
Kept(e, r, k) ==
  LET s == Progress(e.vector, k)
  IN /\ s <= 16 => r = e.regs
     /\ \A j \in 1 .. 15 : j <= s - 24 => r[Popped[j]] = e.regs[Popped[j]]

\* Interrupt e, whose code is at place at with registers r and stack st up to top.
InProgress(e, at, r, top, st) ==
  /\ at.vector = e.vector
  /\ \A i \in 1 .. NumberAt(e.vector) + 21 :
       Base(e) + i <= top => st[Base(e) + i] = FrameWord(e, i)
  /\ \/ /\ at.at = "stub" /\ at.k \in 1 .. EntryLength(e.vector) + 40
        /\ top = Base(e) + Height(e.vector, at.k)
        /\ Kept(e, r, at.k)
     \/ /\ at.at = "handler"
        /\ top = Base(e) + NumberAt(e.vector) + 22
        /\ st[top] = <<"rip", Location("stub", e.vector, EntryLength(e.vector) + 23)>>
        /\ r["rdi"] = <<"rsp", top - 1>>

-----------------------------------------------------------------------------
(* All of them: where level d of the nesting is *)

PlaceOf(inProgress, at, d) == IF d < Len(inProgress) THEN inProgress[d + 1].pc ELSE at
RegistersOf(inProgress, r, d) == IF d < Len(inProgress) THEN inProgress[d + 1].regs ELSE r
TopOf(inProgress, st, d) == IF d < Len(inProgress) THEN inProgress[d + 1].rsp ELSE Len(st)

\* An interrupt begins its frame above those that it interrupts.
NestedIn(inProgress, st) ==
  \A d \in 1 .. Len(inProgress) :
    /\ inProgress[d].rsp <= Len(st)
    /\ \A c \in 1 .. d : inProgress[c].rsp <= inProgress[d].rsp

FramesIn(inProgress, at, r, st) ==
  /\ PlaceOf(inProgress, at, 0) = Code
  /\ \A d \in 1 .. Len(inProgress) :
       InProgress(inProgress[d], PlaceOf(inProgress, at, d), RegistersOf(inProgress, r, d),
                  TopOf(inProgress, st, d), st)

IInv ==
  /\ Types
  /\ NestedIn(saved, stack)
  /\ IF pc.at = "crash" THEN pc = Crash ELSE FramesIn(saved, pc, regs, stack)

-----------------------------------------------------------------------------
(* The program *)

Operations == {"number", "push", "control", "call", "drop", "pop", "iretq"}
Arguments == Kinds \cup Int
Instructions == [op : Operations, arg : Arguments]

\* A sequence of n instructions.
Part(s, n) == s \in Seq(Instructions) /\ Len(s) = n

\* Sequence t lies in s after position at.
Lies(t, n, s, at) == \A k \in Nat : 1 <= k /\ k <= n => s[at + k] = t[k]

\* Each makes one instruction of each of its arguments (intr.S).
LEMMA EachLemma ==
  ASSUME NEW op \in Operations, NEW n \in Nat, NEW args \in Seq(Arguments), Len(args) = n
  PROVE  /\ Part(Each(op, args), n)
         /\ \A k \in Nat : 1 <= k /\ k <= n => Each(op, args)[k] = [op |-> op, arg |-> args[k]]
BY DEF Each, Instructions, Part

\* The lists of intr.S name registers.
LEMMA Lists ==
  /\ Pushed \in Seq(Arguments) /\ Len(Pushed) = 15
  /\ Popped \in Seq(Arguments) /\ Len(Popped) = 15
  /\ Controls \in Seq(Arguments) /\ Len(Controls) = 6
  /\ \A j \in 1 .. 15 : Popped[j] \in General /\ Pushed[j] \in General
  /\ \A j \in 1 .. 6 : Controls[j] \in Kinds
  /\ General \subseteq Kinds
<1>1. Pushed \in Seq(Arguments) /\ Len(Pushed) = 15
  BY DEF Pushed, Arguments, Kinds
<1>2. Popped \in Seq(Arguments) /\ Len(Popped) = 15
  BY DEF Popped, Arguments, Kinds
<1>3. Controls \in Seq(Arguments) /\ Len(Controls) = 6
  BY DEF Controls, Arguments, Kinds
<1>4. \A j \in 1 .. 15 : Pushed[j] \in General
  BY <1>1 DEF General, ToSet
<1>5. \A j \in 1 .. 15 : Popped[j] \in General
  <2>1. General = {"rdi", "rsi", "rbp", "rdx", "rcx", "rbx", "rax", "r8", "r9", "r10",
                   "r11", "r12", "r13", "r14", "r15"}
    BY <1>1 DEF General, ToSet, Pushed
  <2>. QED  BY <2>1 DEF Popped
<1>6. \A j \in 1 .. 6 : Controls[j] \in Kinds
  BY DEF Controls, Kinds
<1>7. General \subseteq Kinds
  BY <1>1 DEF General, ToSet, Pushed, Kinds
<1>. QED  BY <1>1, <1>2, <1>3, <1>4, <1>5, <1>6, <1>7

StubInstruction(s) ==
  IF s <= 15 THEN [op |-> "push", arg |-> Pushed[s]]
  ELSE IF s <= 21 THEN [op |-> "control", arg |-> Controls[s - 15]]
  ELSE IF s = 22 THEN [op |-> "call", arg |-> 21]
  ELSE IF s = 23 THEN [op |-> "drop", arg |-> 6]
  ELSE IF s <= 38 THEN [op |-> "pop", arg |-> Popped[s - 23]]
  ELSE IF s = 39 THEN [op |-> "drop", arg |-> 2]
  ELSE [op |-> "iretq", arg |-> 0]

\* Instructions one after the other.
Then(s, t) == s \o t

\* Each part of joined sequences keeps its instructions, in its place.
LEMMA Joined ==
  ASSUME NEW m \in Nat, NEW n \in Nat, NEW s, NEW t, Part(s, m), Part(t, n)
  PROVE  /\ Part(Then(s, t), m + n)
         /\ Lies(s, m, Then(s, t), 0) /\ Lies(t, n, Then(s, t), m)
<1>1. /\ Part(Then(s, t), m + n)
      /\ \A k \in 1 .. m : Then(s, t)[k] = s[k]
      /\ \A k \in 1 .. n : Then(s, t)[m + k] = t[k]
  BY DEF Part, Then
<1>. QED  BY <1>1 DEF Lies

\* One instruction.
LEMMA Single ==
  ASSUME NEW op \in Operations, NEW n \in Int
  PROVE  Part(Each(op, <<n>>), 1) /\ Each(op, <<n>>)[1] = [op |-> op, arg |-> n]
BY DEF Each, Instructions, Part, Arguments

\* The parts of isr_handler_stub.
LEMMA Parts ==
  /\ Part(Each("push", Pushed), 15)
  /\ \A k \in Nat : 1 <= k /\ k <= 15 =>
       Each("push", Pushed)[k] = [op |-> "push", arg |-> Pushed[k]]
  /\ Part(Each("control", Controls), 6)
  /\ \A k \in Nat : 1 <= k /\ k <= 6 =>
       Each("control", Controls)[k] = [op |-> "control", arg |-> Controls[k]]
  /\ Part(Each("pop", Popped), 15)
  /\ \A k \in Nat : 1 <= k /\ k <= 15 =>
       Each("pop", Popped)[k] = [op |-> "pop", arg |-> Popped[k]]
<1>1. "push" \in Operations /\ "control" \in Operations /\ "pop" \in Operations
  BY DEF Operations
<1>2. PICK n \in Nat : n = 15 /\ Len(Pushed) = n /\ Len(Popped) = n
  BY Lists
<1>3. PICK m \in Nat : m = 6 /\ Len(Controls) = m
  BY Lists
<1>4. Pushed \in Seq(Arguments) /\ Popped \in Seq(Arguments) /\ Controls \in Seq(Arguments)
  BY Lists
<1>5. /\ Part(Each("push", Pushed), n)
      /\ \A k \in Nat : 1 <= k /\ k <= n =>
           Each("push", Pushed)[k] = [op |-> "push", arg |-> Pushed[k]]
  BY <1>1, <1>2, <1>4, EachLemma, ZenonT(40)
<1>6. /\ Part(Each("pop", Popped), n)
      /\ \A k \in Nat : 1 <= k /\ k <= n =>
           Each("pop", Popped)[k] = [op |-> "pop", arg |-> Popped[k]]
  BY <1>1, <1>2, <1>4, EachLemma, ZenonT(40)
<1>7. /\ Part(Each("control", Controls), m)
      /\ \A k \in Nat : 1 <= k /\ k <= m =>
           Each("control", Controls)[k] = [op |-> "control", arg |-> Controls[k]]
  BY <1>1, <1>3, <1>4, EachLemma
<1>. QED  BY <1>2, <1>3, <1>5, <1>6, <1>7

\* Seven sequences of instructions, as isr_handler_stub is.
LEMMA Seven ==
  ASSUME NEW a, Part(a, 15), NEW b, Part(b, 6), NEW c, Part(c, 1), NEW d, Part(d, 1),
         NEW e, Part(e, 15), NEW f, Part(f, 1), NEW g, Part(g, 1),
         NEW all, all = Then(Then(Then(Then(Then(Then(a, b), c), d), e), f), g)
  PROVE  /\ Part(all, 40)
         /\ Lies(a, 15, all, 0) /\ Lies(b, 6, all, 15) /\ Lies(c, 1, all, 21)
         /\ Lies(d, 1, all, 22) /\ Lies(e, 15, all, 23) /\ Lies(f, 1, all, 38)
         /\ Lies(g, 1, all, 39)
<1>0. ASSUME NEW s, NEW t, NEW u, NEW m \in Nat, NEW n \in Nat, NEW at \in Nat, at + m <= n,
             Lies(s, m, t, at), Lies(t, n, u, 0)
      PROVE  Lies(s, m, u, at)
  BY <1>0 DEF Lies
<1>1. PICK ab : ab = Then(a, b)
  OBVIOUS
<1>2. Part(ab, 21) /\ Lies(a, 15, ab, 0) /\ Lies(b, 6, ab, 15)
  BY <1>1, Joined
<1>3. PICK abc : abc = Then(ab, c)
  OBVIOUS
<1>4. Part(abc, 22) /\ Lies(ab, 21, abc, 0) /\ Lies(c, 1, abc, 21)
  BY <1>2, <1>3, Joined
<1>5. PICK abcd : abcd = Then(abc, d)
  OBVIOUS
<1>6. Part(abcd, 23) /\ Lies(abc, 22, abcd, 0) /\ Lies(d, 1, abcd, 22)
  BY <1>4, <1>5, Joined
<1>7. PICK abcde : abcde = Then(abcd, e)
  OBVIOUS
<1>8. Part(abcde, 38) /\ Lies(abcd, 23, abcde, 0) /\ Lies(e, 15, abcde, 23)
  BY <1>6, <1>7, Joined
<1>9. PICK abcdef : abcdef = Then(abcde, f)
  OBVIOUS
<1>10. Part(abcdef, 39) /\ Lies(abcde, 38, abcdef, 0) /\ Lies(f, 1, abcdef, 38)
  BY <1>8, <1>9, Joined
<1>11. all = Then(abcdef, g)
  BY <1>1, <1>3, <1>5, <1>7, <1>9
<1>12. Part(all, 40) /\ Lies(abcdef, 39, all, 0) /\ Lies(g, 1, all, 39)
  BY <1>10, <1>11, Joined
<1>13. Lies(abcde, 38, all, 0) /\ Lies(f, 1, all, 38)
  BY <1>0, <1>10, <1>12
<1>14. Lies(abcd, 23, all, 0) /\ Lies(e, 15, all, 23)
  BY <1>0, <1>8, <1>13
<1>15. Lies(abc, 22, all, 0) /\ Lies(d, 1, all, 22)
  BY <1>0, <1>6, <1>14
<1>16. Lies(ab, 21, all, 0) /\ Lies(c, 1, all, 21)
  BY <1>0, <1>4, <1>15
<1>17. Lies(a, 15, all, 0) /\ Lies(b, 6, all, 15)
  BY <1>0, <1>2, <1>16
<1>. QED  BY <1>12, <1>13, <1>14, <1>15, <1>16, <1>17

\* isr_handler_stub, instruction by instruction.
LEMMA StubLemma ==
  /\ Part(isr_handler_stub, 40)
  /\ \A s \in 1 .. 40 : isr_handler_stub[s] = StubInstruction(s)
<1>1. VectorOffset = 21 /\ 48 \div 8 = 6 /\ 16 \div 8 = 2
  BY DEF VectorOffset
<1>2. Part(Each("call", <<21>>), 1) /\ Each("call", <<21>>)[1] = [op |-> "call", arg |-> 21]
  BY Single DEF Operations
<1>3. Part(Each("drop", <<6>>), 1) /\ Each("drop", <<6>>)[1] = [op |-> "drop", arg |-> 6]
  BY Single DEF Operations
<1>4. Part(Each("drop", <<2>>), 1) /\ Each("drop", <<2>>)[1] = [op |-> "drop", arg |-> 2]
  BY Single DEF Operations
<1>5. Part(Each("iretq", <<0>>), 1) /\ Each("iretq", <<0>>)[1] = [op |-> "iretq", arg |-> 0]
  BY Single DEF Operations
<1>6. isr_handler_stub =
        Each("push", Pushed) \o Each("control", Controls) \o Each("call", <<21>>)
          \o Each("drop", <<6>>) \o Each("pop", Popped) \o Each("drop", <<2>>)
          \o Each("iretq", <<0>>)
  BY <1>1 DEF isr_handler_stub
<1>7. /\ Part(isr_handler_stub, 40)
      /\ Lies(Each("push", Pushed), 15, isr_handler_stub, 0)
      /\ Lies(Each("control", Controls), 6, isr_handler_stub, 15)
      /\ Lies(Each("call", <<21>>), 1, isr_handler_stub, 21)
      /\ Lies(Each("drop", <<6>>), 1, isr_handler_stub, 22)
      /\ Lies(Each("pop", Popped), 15, isr_handler_stub, 23)
      /\ Lies(Each("drop", <<2>>), 1, isr_handler_stub, 38)
      /\ Lies(Each("iretq", <<0>>), 1, isr_handler_stub, 39)
  <2>1. /\ Part(Each("push", Pushed), 15) /\ Part(Each("control", Controls), 6)
        /\ Part(Each("pop", Popped), 15)
    BY Parts
  <2>2. PICK a, b, c, d, e, f, g :
          /\ a = Each("push", Pushed) /\ b = Each("control", Controls) /\ c = Each("call", <<21>>)
          /\ d = Each("drop", <<6>>) /\ e = Each("pop", Popped) /\ f = Each("drop", <<2>>)
          /\ g = Each("iretq", <<0>>)
    OBVIOUS
  <2>3. /\ Part(a, 15) /\ Part(b, 6) /\ Part(c, 1) /\ Part(d, 1) /\ Part(e, 15) /\ Part(f, 1)
        /\ Part(g, 1)
    BY <1>2, <1>3, <1>4, <1>5, <2>1, <2>2
  <2>4. isr_handler_stub = Then(Then(Then(Then(Then(Then(a, b), c), d), e), f), g)
    BY <1>6, <2>2, Zenon DEF Then
  <2>5. /\ Part(isr_handler_stub, 40)
        /\ Lies(a, 15, isr_handler_stub, 0) /\ Lies(b, 6, isr_handler_stub, 15)
        /\ Lies(c, 1, isr_handler_stub, 21) /\ Lies(d, 1, isr_handler_stub, 22)
        /\ Lies(e, 15, isr_handler_stub, 23) /\ Lies(f, 1, isr_handler_stub, 38)
        /\ Lies(g, 1, isr_handler_stub, 39)
    BY <2>3, <2>4, Seven
  <2>. QED  BY <2>2, <2>5
<1>8. ASSUME NEW s \in 1 .. 40
      PROVE  isr_handler_stub[s] = StubInstruction(s)
  <2>1. CASE s <= 15
    BY <2>1, <1>7, Parts DEF StubInstruction, Lies
  <2>2. CASE 16 <= s /\ s <= 21
    <3>1. s - 15 \in Nat /\ 1 <= s - 15 /\ s - 15 <= 6 /\ s = 15 + (s - 15) /\ ~(s <= 15)
      BY <2>2
    <3>. QED  BY <3>1, <2>2, <1>7, Parts DEF StubInstruction, Lies
  <2>3. CASE s = 22 \/ s = 23 \/ s = 39 \/ s = 40
    BY <2>3, <1>2, <1>3, <1>4, <1>5, <1>7 DEF StubInstruction, Lies
  <2>4. CASE 24 <= s /\ s <= 38
    <3>1. s - 23 \in Nat /\ 1 <= s - 23 /\ s - 23 <= 15 /\ s = 23 + (s - 23) /\ ~(s <= 23)
      BY <2>4
    <3>. QED  BY <3>1, <2>4, <1>7, Parts DEF StubInstruction, Lies
  <2>. QED  BY <2>1, <2>2, <2>3, <2>4
<1>. QED  BY <1>7, <1>8

\* The whole program of a vector: its entry, then the stub.
LEMMA ProgramLemma ==
  ASSUME NEW v \in 0 .. 255
  PROVE  /\ Part(Program(v), EntryLength(v) + 40)
         /\ \A k \in 1 .. EntryLength(v) :
              Program(v)[k] = [op |-> "number", arg |-> IF k = EntryLength(v) THEN v ELSE 0]
         /\ \A k \in EntryLength(v) + 1 .. EntryLength(v) + 40 :
              Program(v)[k] = StubInstruction(Progress(v, k))
<1>1. /\ Part(Entry(v), EntryLength(v))
      /\ \A k \in 1 .. EntryLength(v) :
           Entry(v)[k] = [op |-> "number", arg |-> IF k = EntryLength(v) THEN v ELSE 0]
  <2>1. CASE HasErrorCode(v)
    <3>1. Entry(v) = Each("number", <<v>>) /\ EntryLength(v) = 1
      BY <2>1 DEF Entry, EntryLength
    <3>. QED  BY <3>1, Single DEF Operations
  <2>2. CASE ~HasErrorCode(v)
    <3>1. Entry(v) = Each("number", <<0, v>>) /\ EntryLength(v) = 2
      BY <2>2 DEF Entry, EntryLength
    <3>. QED  BY <3>1 DEF Each, Part, Instructions, Arguments, Operations
  <2>. QED  BY <2>1, <2>2
<1>2. EntryLength(v) \in Nat
  BY DEF EntryLength
<1>3. /\ Part(Program(v), EntryLength(v) + 40)
      /\ Lies(Entry(v), EntryLength(v), Program(v), 0)
      /\ Lies(isr_handler_stub, 40, Program(v), EntryLength(v))
  <2>1. Program(v) = Then(Entry(v), isr_handler_stub)
    BY DEF Program, Then
  <2>. QED  BY <2>1, <1>1, <1>2, StubLemma, Joined
<1>4. ASSUME NEW k \in EntryLength(v) + 1 .. EntryLength(v) + 40
      PROVE  Program(v)[k] = StubInstruction(Progress(v, k))
  <2>1. /\ k - EntryLength(v) \in 1 .. 40 /\ k - EntryLength(v) \in Nat
        /\ 1 <= k - EntryLength(v) /\ k - EntryLength(v) <= 40
        /\ k = EntryLength(v) + (k - EntryLength(v))
    BY <1>2
  <2>2. Program(v)[k] = isr_handler_stub[k - EntryLength(v)]
    BY <2>1, <1>3 DEF Lies
  <2>. QED  BY <2>1, <2>2, StubLemma DEF Progress
<1>. QED  BY <1>1, <1>2, <1>3, <1>4 DEF Lies

-----------------------------------------------------------------------------
(* One interrupt and one instruction *)

\* The offsets of a frame are small.
LEMMA Numbers ==
  ASSUME NEW v \in 0 .. 255
  PROVE  /\ EntryLength(v) \in 1 .. 2 /\ NumberAt(v) \in 7 .. 8
         /\ PushesErrorCode(v) => NumberAt(v) = 6 + EntryLength(v)
         /\ ~PushesErrorCode(v) => NumberAt(v) = 5 + EntryLength(v)
         /\ HasErrorCode(v) => EntryLength(v) = 1 /\ PushesErrorCode(v)
         /\ ~HasErrorCode(v) => EntryLength(v) = 2
BY DEF EntryLength, NumberAt, PushesErrorCode, HasErrorCode

\* The frame of an interrupt lies above what it interrupted.
LEMMA Bases ==
  ASSUME NEW e \in Interrupts
  PROVE  /\ Base(e) \in Nat /\ e.rsp \in Nat /\ Base(e) % 2 = 0
         /\ e.rsp <= Base(e) /\ Base(e) <= e.rsp + 1 /\ e.vector \in 0 .. 255
<1>1. e.rsp \in Nat /\ e.vector \in 0 .. 255
  BY VectorAssumption DEF Interrupts
<1>. QED  BY <1>1 DEF Base

\* The same, of the vector of an interrupt.
LEMMA NumbersOf ==
  ASSUME NEW e \in Interrupts
  PROVE  /\ EntryLength(e.vector) \in 1 .. 2 /\ NumberAt(e.vector) \in 7 .. 8
         /\ PushesErrorCode(e.vector) => NumberAt(e.vector) = 6 + EntryLength(e.vector)
         /\ ~PushesErrorCode(e.vector) => NumberAt(e.vector) = 5 + EntryLength(e.vector)
         /\ HasErrorCode(e.vector) => EntryLength(e.vector) = 1 /\ PushesErrorCode(e.vector)
         /\ ~HasErrorCode(e.vector) => EntryLength(e.vector) = 2
<1>1. PICK v \in 0 .. 255 : v = e.vector
  BY Bases
<1>. QED  BY <1>1, Numbers, SMTT(40)

\* What is said of an interrupt holds while its part of the stack stays.
LEMMA Unmoved ==
  ASSUME NEW e \in Interrupts, NEW at, NEW r, NEW top \in Nat, NEW s, NEW t,
         InProgress(e, at, r, top, s), \A p \in 1 .. top : t[p] = s[p]
  PROVE  InProgress(e, at, r, top, t)
<1>1. Base(e) \in Nat /\ NumberAt(e.vector) \in 7 .. 8
  BY NumbersOf, Bases
<1>2. \A i \in 1 .. NumberAt(e.vector) + 21 :
        Base(e) + i <= top => t[Base(e) + i] = FrameWord(e, i)
  BY <1>1 DEF InProgress
<1>3. at.at = "handler" /\ top = Base(e) + NumberAt(e.vector) + 22 => t[top] = s[top]
  BY <1>1
<1>. QED  BY <1>2, <1>3 DEF InProgress

\* The stub has the number of words on the stack that it should.
LEMMA Heights ==
  ASSUME NEW v \in 0 .. 255, NEW k \in 1 .. EntryLength(v) + 40
  PROVE  /\ Height(v, k) \in 5 .. NumberAt(v) + 21
         /\ Progress(v, k) \in Int /\ Progress(v, k) <= 40 /\ Progress(v, k) > -2
BY Numbers DEF Height, Progress

\* What an instruction of the stub does to it.
LEMMA HeightSteps ==
  ASSUME NEW v \in 0 .. 255, NEW k \in 1 .. EntryLength(v) + 40
  PROVE  /\ k <= EntryLength(v) + 21 => Height(v, k + 1) = Height(v, k) + 1
         /\ k = EntryLength(v) + 22 => Height(v, k) = NumberAt(v) + 21
         /\ k = EntryLength(v) + 22 => Height(v, k + 1) = Height(v, k)
         /\ k = EntryLength(v) + 23 => Height(v, k + 1) = Height(v, k) - 6
         /\ k \in EntryLength(v) + 24 .. EntryLength(v) + 38 =>
              Height(v, k + 1) = Height(v, k) - 1
         /\ k = EntryLength(v) + 39 => Height(v, k + 1) = Height(v, k) - 2
         /\ k = EntryLength(v) + 40 => Height(v, k) = NumberAt(v) - 2
<1>1. EntryLength(v) \in 1 .. 2 /\ NumberAt(v) \in 7 .. 8
  BY Numbers
<1>. DEFINE H(n) == NumberAt(v) + (IF n <= 22 THEN n - 1 ELSE IF n = 23 THEN 21
                                   ELSE IF n <= 39 THEN 39 - n ELSE -2)
<1>2. \A n \in Int : Height(v, n) = H(n - EntryLength(v))
  BY DEF Height, Progress
<1>3. \A n \in Int : /\ n <= 21 => H(n + 1) = H(n) + 1
                     /\ n = 22 => H(n) = NumberAt(v) + 21 /\ H(n + 1) = H(n)
                     /\ n = 23 => H(n + 1) = H(n) - 6
                     /\ n \in 24 .. 38 => H(n + 1) = H(n) - 1
                     /\ n = 39 => H(n + 1) = H(n) - 2
                     /\ n = 40 => H(n) = NumberAt(v) - 2
  BY <1>1
<1>. HIDE DEF H
<1>4. /\ k - EntryLength(v) \in Int /\ k + 1 - EntryLength(v) = (k - EntryLength(v)) + 1
      /\ k \in Int /\ k + 1 \in Int
  BY <1>1
<1>. QED  BY <1>1, <1>2, <1>3, <1>4

\* What is on the stack of an interrupt in progress is its own.
LEMMA Above ==
  ASSUME NEW e \in Interrupts, NEW at, NEW r, NEW top, NEW s, InProgress(e, at, r, top, s)
  PROVE  e.rsp <= top /\ at.at \in {"stub", "handler"} /\ top \in Nat
<1>1. PICK b \in Nat, n \in 7 .. 8, v \in 0 .. 255 :
        b = Base(e) /\ n = NumberAt(e.vector) /\ v = e.vector /\ e.rsp \in Nat /\ e.rsp <= b
  BY NumbersOf, Bases
<1>2. CASE at.at = "handler" /\ top = Base(e) + NumberAt(e.vector) + 22
  BY <1>1, <1>2
<1>3. CASE at.at = "stub" /\ at.k \in 1 .. EntryLength(v) + 40 /\ top = b + Height(v, at.k)
  <2>1. Height(v, at.k) \in 5 .. n + 21
    BY <1>1, <1>3, Heights
  <2>. QED  BY <1>1, <1>3, <2>1
<1>. QED  BY <1>1, <1>2, <1>3 DEF InProgress

\* The next place in a program.
Onwards(at) == [at EXCEPT !.k = @ + 1]
Follows(at, au) == au = Onwards(at)

\* The word that comes next in frame e, a word added to s, and words taken from it.
IsNext(e, k, w) == w = FrameWord(e, Height(e.vector, k) + 1)
Added(s, w, t) == t = Append(s, w)
Taken(s, n, t) == t = SubSeq(s, 1, Len(s) - n)

\* The registers are kept, and so many words are dropped, at the next instruction.
KeptNext(e, r, k) == Kept(e, r, k + 1)
Lower(v, k, n) == Height(v, k + 1) = Height(v, k) - n

\* An instruction puts the next word of the frame on the stack.
LEMMA Pushes ==
  ASSUME NEW e \in Interrupts, NEW at \in Locations, NEW au, Follows(at, au), NEW r,
         NEW s \in Seq(Words), NEW w,
         InProgress(e, at, r, Len(s), s), at.at = "stub",
         at.k <= EntryLength(e.vector) + 21, IsNext(e, at.k, w),
         NEW q, KeptNext(e, q, at.k), NEW t, Added(s, w, t)
  PROVE  /\ InProgress(e, au, q, Len(t), t)
         /\ Len(t) = Len(s) + 1 /\ \A p \in 1 .. Len(s) : t[p] = s[p]
<1>1. /\ Len(t) = Len(s) + 1 /\ Len(s) \in Nat /\ t[Len(s) + 1] = w
      /\ \A p \in 1 .. Len(s) : t[p] = s[p]
  BY DEF Added
<1>2. /\ at.k \in 1 .. EntryLength(e.vector) + 40 /\ at.vector = e.vector
      /\ Len(s) = Base(e) + Height(e.vector, at.k)
      /\ \A i \in 1 .. NumberAt(e.vector) + 21 :
           Base(e) + i <= Len(s) => s[Base(e) + i] = FrameWord(e, i)
  BY DEF InProgress
<1>3. /\ Base(e) \in Nat /\ NumberAt(e.vector) \in 7 .. 8 /\ EntryLength(e.vector) \in 1 .. 2
      /\ Height(e.vector, at.k) \in 5 .. NumberAt(e.vector) + 21
  BY <1>2, NumbersOf, Bases, Heights
<1>4. Height(e.vector, at.k + 1) = Height(e.vector, at.k) + 1
  BY <1>2, Bases, HeightSteps
<1>5. /\ au.vector = e.vector /\ au.at = "stub"
      /\ au.k = at.k + 1 /\ au.k \in 1 .. EntryLength(e.vector) + 40
  BY <1>2, <1>3 DEF Follows, Onwards, Locations
<1>6. ASSUME NEW i \in 1 .. NumberAt(e.vector) + 21, Base(e) + i <= Len(t)
      PROVE  t[Base(e) + i] = FrameWord(e, i)
  <2>1. CASE Base(e) + i <= Len(s)
    <3>1. Base(e) + i \in 1 .. Len(s)
      BY <1>1, <1>3, <2>1
    <3>. QED  BY <1>1, <1>2, <2>1, <3>1
  <2>2. CASE Base(e) + i = Len(s) + 1
    <3>1. i = Height(e.vector, at.k) + 1
      BY <1>2, <1>3, <2>2
    <3>. QED  BY <1>1, <2>2, <3>1 DEF IsNext
  <2>. QED  BY <1>1, <1>3, <1>6, <2>1, <2>2
<1>7. Len(t) = Base(e) + Height(e.vector, at.k + 1)
  BY <1>1, <1>2, <1>3, <1>4
<1>. QED  BY <1>1, <1>5, <1>6, <1>7 DEF InProgress, KeptNext

\* An instruction takes words of the frame off the stack.
LEMMA Drops ==
  ASSUME NEW e \in Interrupts, NEW at \in Locations, NEW au, Follows(at, au), NEW r,
         NEW s \in Seq(Words),
         InProgress(e, at, r, Len(s), s), at.at = "stub",
         at.k < EntryLength(e.vector) + 40, NEW n \in Nat, Lower(e.vector, at.k, n),
         NEW q, KeptNext(e, q, at.k), NEW t, Taken(s, n, t)
  PROVE  /\ InProgress(e, au, q, Len(t), t)
         /\ t \in Seq(Words) /\ \A p \in 1 .. e.rsp : t[p] = s[p]
<1>2. /\ at.k \in 1 .. EntryLength(e.vector) + 40 /\ at.vector = e.vector
      /\ Len(s) = Base(e) + Height(e.vector, at.k) /\ Len(s) \in Nat
      /\ \A i \in 1 .. NumberAt(e.vector) + 21 :
           Base(e) + i <= Len(s) => s[Base(e) + i] = FrameWord(e, i)
  BY DEF InProgress
<1>3. /\ Base(e) \in Nat /\ NumberAt(e.vector) \in 7 .. 8 /\ EntryLength(e.vector) \in 1 .. 2
      /\ e.vector \in 0 .. 255
  BY NumbersOf, Bases
<1>4. at.k + 1 \in 1 .. EntryLength(e.vector) + 40
  BY <1>2, <1>3
<1>5. /\ Height(e.vector, at.k) \in 5 .. NumberAt(e.vector) + 21
      /\ Height(e.vector, at.k + 1) \in 5 .. NumberAt(e.vector) + 21
  BY <1>2, <1>3, <1>4, Heights
<1>6. PICK m \in 0 .. Len(s) : m = Len(s) - n /\ m = Base(e) + Height(e.vector, at.k + 1)
  <2>1. PICK b \in Nat, h \in Nat, g \in Nat :
          b = Base(e) /\ h = Height(e.vector, at.k) /\ g = Height(e.vector, at.k + 1)
    BY <1>3, <1>5
  <2>2. Len(s) = b + h /\ g = h - n
    BY <1>2, <2>1 DEF Lower
  <2>3. PICK m : m = b + g
    OBVIOUS
  <2>4. m = Len(s) - n /\ m \in 0 .. Len(s)
    BY <2>2, <2>3
  <2>. QED  BY <2>1, <2>3, <2>4
<1>10. /\ Len(t) = m /\ t \in Seq(Words) /\ \A p \in 1 .. Len(t) : t[p] = s[p]
  <2>1. t = SubSeq(s, 1, m) /\ m \in Nat
    BY <1>6 DEF Taken
  <2>2. /\ \A p \in 1 .. m : s[p] \in Words
        /\ 1 \in Int /\ m \in Int
    BY <1>6
  <2>3. /\ t \in Seq(Words) /\ Len(t) = IF 1 <= m THEN m - 1 + 1 ELSE 0
        /\ \A p \in 1 .. m - 1 + 1 : t[p] = s[1 + p - 1]
    BY <2>1, <2>2, SubSeqProperties
  <2>. QED  BY <2>1, <2>3
<1>7. /\ au.vector = e.vector /\ au.at = "stub"
      /\ au.k = at.k + 1
  BY <1>2, <1>3 DEF Follows, Onwards, Locations
<1>8. ASSUME NEW i \in 1 .. NumberAt(e.vector) + 21, Base(e) + i <= Len(t)
      PROVE  t[Base(e) + i] = FrameWord(e, i)
  <2>1. PICK b \in Nat : b = Base(e)
    BY <1>3
  <2>2. b + i \in 1 .. Len(t) /\ b + i <= Len(s)
    <3>1. i \in Nat /\ 1 <= i
      BY <1>3
    <3>2. b + i <= m
      BY <1>8, <1>10, <2>1
    <3>. QED  BY <1>6, <1>10, <3>1, <3>2
  <2>. QED  BY <1>2, <1>10, <2>1, <2>2
<1>9. Len(t) = Base(e) + Height(e.vector, at.k + 1)
  BY <1>6, <1>10
<1>11. InProgress(e, au, q, Len(t), t)
  BY <1>4, <1>7, <1>8, <1>9, <1>10 DEF InProgress, KeptNext
<1>12. e.rsp <= Len(t) /\ e.rsp \in Nat /\ Len(t) \in Nat
  BY <1>11, Above, Bases
<1>. QED  BY <1>10, <1>11, <1>12

\* The words of a frame, one kind after the other.
LEMMA FrameWords ==
  ASSUME NEW e \in Interrupts
  PROVE  /\ FrameWord(e, 1) = <<"ss", 0>> /\ FrameWord(e, 2) = <<"rsp", e.rsp>>
         /\ FrameWord(e, 3) = <<"rflags", e.iflag>> /\ FrameWord(e, 4) = <<"cs", 0>>
         /\ FrameWord(e, 5) = <<"rip", e.pc>>
         /\ PushesErrorCode(e.vector) => FrameWord(e, 6) = <<"error", e.vector>>
         /\ ~HasErrorCode(e.vector) => FrameWord(e, NumberAt(e.vector) - 1) = <<"number", 0>>
         /\ FrameWord(e, NumberAt(e.vector)) = <<"number", e.vector>>
         /\ \A j \in 1 .. 15 : FrameWord(e, NumberAt(e.vector) + j) = e.regs[Pushed[j]]
         /\ \A j \in 16 .. 21 : FrameWord(e, NumberAt(e.vector) + j) = <<Controls[j - 15], 0>>
<1>1. e.vector \in 0 .. 255
  BY Bases
<1>2. PICK n \in 7 .. 8 : n = NumberAt(e.vector)
  BY <1>1, NumbersOf
<1>3. ~HasErrorCode(e.vector) => n = 8 \/ ~PushesErrorCode(e.vector)
  BY <1>1, <1>2, NumbersOf
<1>4. \A j \in 1 .. 15 : FrameWord(e, n + j) = e.regs[Pushed[j]]
  BY <1>2 DEF FrameWord
<1>5. \A j \in 16 .. 21 : FrameWord(e, n + j) = <<Controls[j - 15], 0>>
  BY <1>2 DEF FrameWord
<1>6. FrameWord(e, n) = <<"number", e.vector>>
  BY <1>2 DEF FrameWord
<1>7. ~HasErrorCode(e.vector) => FrameWord(e, n - 1) = <<"number", 0>>
  BY <1>2, <1>3 DEF FrameWord
<1>8. /\ FrameWord(e, 1) = <<"ss", 0>> /\ FrameWord(e, 2) = <<"rsp", e.rsp>>
      /\ FrameWord(e, 3) = <<"rflags", e.iflag>> /\ FrameWord(e, 4) = <<"cs", 0>>
      /\ FrameWord(e, 5) = <<"rip", e.pc>>
      /\ PushesErrorCode(e.vector) => FrameWord(e, 6) = <<"error", e.vector>>
  BY DEF FrameWord
<1>. QED  BY <1>2, <1>4, <1>5, <1>6, <1>7, <1>8

\* The call pushes its return address.
Called(s, at, t) == t = Append(s, <<"rip", Onwards(at)>>)

\* The call: the word of the vector is where the stub looks for it.
LEMMA Calls ==
  ASSUME NEW e \in Interrupts, NEW at \in Locations, NEW r, NEW s \in Seq(Words),
         InProgress(e, at, r, Len(s), s), at.at = "stub", at.k = EntryLength(e.vector) + 22,
         NEW q, q["rdi"] = <<"rsp", Len(s)>>,
         NEW t, Called(s, at, t)
  PROVE  /\ s[Len(s) - 21] = <<"number", e.vector>> /\ Len(s) - 21 \in 1 .. Len(s)
         /\ InProgress(e, Location("handler", e.vector, 0), q, Len(t), t)
         /\ Len(t) = Len(s) + 1 /\ \A p \in 1 .. Len(s) : t[p] = s[p]
<1>1. /\ Len(t) = Len(s) + 1 /\ Len(s) \in Nat /\ t[Len(s) + 1] = <<"rip", Onwards(at)>>
      /\ \A p \in 1 .. Len(s) : t[p] = s[p]
  <2>1. PICK w : w = <<"rip", Onwards(at)>>
    OBVIOUS
  <2>2. t = Append(s, w)
    BY <2>1 DEF Called
  <2>. QED  BY <2>1, <2>2
<1>2. /\ Len(s) = Base(e) + Height(e.vector, at.k) /\ at.vector = e.vector
      /\ at.k \in 1 .. EntryLength(e.vector) + 40
      /\ \A i \in 1 .. NumberAt(e.vector) + 21 :
           Base(e) + i <= Len(s) => s[Base(e) + i] = FrameWord(e, i)
  BY DEF InProgress
<1>3. /\ Base(e) \in Nat /\ NumberAt(e.vector) \in 7 .. 8 /\ EntryLength(e.vector) \in 1 .. 2
      /\ e.vector \in 0 .. 255
  BY NumbersOf, Bases
<1>4. Len(s) = Base(e) + NumberAt(e.vector) + 21
  <2>1. PICK v \in 0 .. 255, k \in 1 .. EntryLength(e.vector) + 40 : v = e.vector /\ k = at.k
    BY <1>2, <1>3
  <2>2. Height(v, k) = NumberAt(v) + 21
    BY <2>1, HeightSteps
  <2>. QED  BY <1>2, <1>3, <2>1, <2>2
<1>5. s[Len(s) - 21] = <<"number", e.vector>> /\ Len(s) - 21 \in 1 .. Len(s)
  <2>1. /\ Len(s) - 21 = Base(e) + NumberAt(e.vector) /\ Base(e) + NumberAt(e.vector) <= Len(s)
        /\ NumberAt(e.vector) \in 1 .. NumberAt(e.vector) + 21
        /\ Base(e) + NumberAt(e.vector) \in 1 .. Len(s)
    BY <1>3, <1>4
  <2>. QED  BY <1>2, <2>1, FrameWords
<1>6. ASSUME NEW i \in 1 .. NumberAt(e.vector) + 21, Base(e) + i <= Len(t)
      PROVE  t[Base(e) + i] = FrameWord(e, i)
  <2>1. Base(e) + i \in 1 .. Len(s) /\ Base(e) + i <= Len(s)
    BY <1>3, <1>4
  <2>. QED  BY <1>1, <1>2, <2>1
<1>7. Onwards(at) = Location("stub", e.vector, EntryLength(e.vector) + 23)
  BY <1>2, <1>3 DEF Onwards, Location, Locations
<1>8. /\ Len(t) = Base(e) + NumberAt(e.vector) + 22 /\ Len(t) - 1 = Len(s)
      /\ t[Len(t)] = <<"rip", Location("stub", e.vector, EntryLength(e.vector) + 23)>>
  BY <1>1, <1>3, <1>4, <1>7
<1>9. /\ Location("handler", e.vector, 0).vector = e.vector
      /\ Location("handler", e.vector, 0).at = "handler"
  BY DEF Location
<1>. QED  BY <1>1, <1>5, <1>6, <1>8, <1>9 DEF InProgress

\* The handler returns to the instruction after the call.
LEMMA Returns ==
  ASSUME NEW e \in Interrupts, NEW at \in Locations, NEW r, NEW s \in Seq(Words),
         InProgress(e, at, r, Len(s), s), at.at = "handler",
         NEW q, NEW t, Taken(s, 1, t)
  PROVE  /\ s[Len(s)] = <<"rip", Location("stub", e.vector, EntryLength(e.vector) + 23)>>
         /\ InProgress(e, Location("stub", e.vector, EntryLength(e.vector) + 23), q, Len(t), t)
         /\ Len(t) = Len(s) - 1 /\ t \in Seq(Words) /\ e.rsp <= Len(t)
         /\ \A p \in 1 .. Len(t) : t[p] = s[p]
<1>1. /\ Len(s) = Base(e) + NumberAt(e.vector) + 22 /\ at.vector = e.vector
      /\ s[Len(s)] = <<"rip", Location("stub", e.vector, EntryLength(e.vector) + 23)>>
      /\ \A i \in 1 .. NumberAt(e.vector) + 21 :
           Base(e) + i <= Len(s) => s[Base(e) + i] = FrameWord(e, i)
  BY DEF InProgress
<1>2. /\ Base(e) \in Nat /\ NumberAt(e.vector) \in 7 .. 8 /\ EntryLength(e.vector) \in 1 .. 2
      /\ e.vector \in 0 .. 255 /\ e.rsp \in Nat /\ e.rsp <= Base(e)
  BY NumbersOf, Bases
<1>3. /\ Len(t) = Len(s) - 1 /\ t \in Seq(Words) /\ \A p \in 1 .. Len(t) : t[p] = s[p]
  <2>1. Len(s) - 1 \in 0 .. Len(s) /\ Len(s) - 1 >= 1
    <3>1. PICK b \in Nat, n \in Nat : b = Base(e) /\ n = NumberAt(e.vector)
      BY <1>2
    <3>2. Len(s) = b + n + 22
      BY <1>1, <3>1
    <3>. QED  BY <3>2
  <2>2. /\ \A p \in 1 .. Len(s) - 1 : s[p] \in Words
        /\ 1 \in Int /\ Len(s) - 1 \in Int
    BY <2>1
  <2>3. /\ t \in Seq(Words) /\ Len(t) = IF 1 <= Len(s) - 1 THEN Len(s) - 1 - 1 + 1 ELSE 0
        /\ \A p \in 1 .. Len(s) - 1 - 1 + 1 : t[p] = s[1 + p - 1]
    BY <2>2, SubSeqProperties DEF Taken
  <2>. QED  BY <2>1, <2>3
<1>4. ASSUME NEW i \in 1 .. NumberAt(e.vector) + 21, Base(e) + i <= Len(t)
      PROVE  t[Base(e) + i] = FrameWord(e, i)
  <2>1. Base(e) + i \in 1 .. Len(t) /\ Base(e) + i <= Len(s)
    <3>1. PICK b \in Nat, m \in Nat : b = Base(e) /\ m = Len(t)
      BY <1>2, <1>3
    <3>2. i \in Nat /\ 1 <= i /\ b + i <= m /\ Len(s) = m + 1
      BY <1>2, <1>3, <1>4, <3>1
    <3>. QED  BY <3>1, <3>2
  <2>. QED  BY <1>1, <1>3, <2>1
<1>5. PICK k \in Nat : k = EntryLength(e.vector) + 23
  BY <1>2
<1>6. k \in 1 .. EntryLength(e.vector) + 40 /\ Height(e.vector, k) = NumberAt(e.vector) + 21
  <2>1. k - 1 \in 1 .. EntryLength(e.vector) + 40 /\ k - 1 = EntryLength(e.vector) + 22
    BY <1>2, <1>5
  <2>2. Height(e.vector, k - 1 + 1) = Height(e.vector, k - 1)
    BY <1>2, <2>1, HeightSteps
  <2>3. Height(e.vector, k - 1) = NumberAt(e.vector) + 21
    <3>1. PICK v \in 0 .. 255, j \in 1 .. EntryLength(e.vector) + 40 : v = e.vector /\ j = k - 1
      BY <1>2, <2>1
    <3>2. Height(v, j) = NumberAt(v) + 21
      BY <2>1, <3>1, HeightSteps
    <3>. QED  BY <3>1, <3>2
  <2>. QED  BY <1>2, <1>5, <2>2, <2>3
<1>7. Len(t) = Base(e) + Height(e.vector, k)
  BY <1>1, <1>2, <1>3, <1>6, SMTT(40)
<1>8. Kept(e, q, k)
  BY <1>2, <1>5, SMTT(40) DEF Kept, Progress
<1>9. /\ Location("stub", e.vector, k).vector = e.vector
      /\ Location("stub", e.vector, k).at = "stub" /\ Location("stub", e.vector, k).k = k
  BY DEF Location
<1>10. InProgress(e, Location("stub", e.vector, k), q, Len(t), t)
  BY <1>4, <1>6, <1>7, <1>8, <1>9 DEF InProgress
<1>. QED  BY <1>1, <1>2, <1>3, <1>5, <1>10, SMTT(40)

\* Words after words.
LEMMA WordsAfter ==
  ASSUME NEW s \in Seq(Words), NEW t \in Seq(Words)
  PROVE  /\ Then(s, t) \in Seq(Words) /\ Len(Then(s, t)) = Len(s) + Len(t)
         /\ \A p \in 1 .. Len(s) : Then(s, t)[p] = s[p]
         /\ \A p \in 1 .. Len(t) : Then(s, t)[Len(s) + p] = t[p]
BY DEF Then

\* What the processor pushes are words.
LEMMA PushedWords ==
  ASSUME NEW e \in Interrupts
  PROVE  /\ <<"padding", 0>> \in Words /\ <<"ss", 0>> \in Words /\ <<"rsp", e.rsp>> \in Words
         /\ <<"rflags", e.iflag>> \in Words /\ <<"cs", 0>> \in Words
         /\ <<"rip", e.pc>> \in Words /\ <<"error", e.vector>> \in Words
         /\ \A n \in Int : <<"number", n>> \in Words
<1>1. e.rsp \in Int /\ e.vector \in Int
  BY Bases
<1>2. e.pc \in Locations /\ e.iflag \in BOOLEAN
  BY DEF Interrupts
<1>3. /\ "padding" \in Kinds /\ "ss" \in Kinds /\ "rsp" \in Kinds /\ "rflags" \in Kinds
      /\ "cs" \in Kinds /\ "rip" \in Kinds /\ "error" \in Kinds /\ "number" \in Kinds
  BY DEF Kinds
<1>4. ASSUME NEW x \in Kinds, NEW y, y \in Int \/ y \in BOOLEAN \/ y \in Locations
      PROVE  <<x, y>> \in Words
  BY <1>4 DEF Words
<1>. QED  BY <1>1, <1>2, <1>3, <1>4

\* No word, one and five are words.
LEMMA FewWords ==
  ASSUME NEW v \in Words, NEW w \in Words, NEW x \in Words, NEW y \in Words, NEW z \in Words
  PROVE  /\ <<>> \in Seq(Words) /\ Len(<<>>) = 0
         /\ <<v>> \in Seq(Words) /\ Len(<<v>>) = 1 /\ <<v>>[1] = v
         /\ <<v, w, x, y, z>> \in Seq(Words) /\ Len(<<v, w, x, y, z>>) = 5
         /\ <<v, w, x, y, z>>[1] = v /\ <<v, w, x, y, z>>[2] = w /\ <<v, w, x, y, z>>[3] = x
         /\ <<v, w, x, y, z>>[4] = y /\ <<v, w, x, y, z>>[5] = z
OBVIOUS

\* The stack goes from s to t when interrupt e arrives.
Arrived(s, e, t) ==
  t = s
    \o (IF Len(s) % 2 = 1 THEN <<<<"padding", 0>>>> ELSE <<>>)
    \o <<<<"ss", 0>>, <<"rsp", e.rsp>>, <<"rflags", e.iflag>>, <<"cs", 0>>, <<"rip", e.pc>>>>
    \o (IF PushesErrorCode(e.vector) THEN <<<<"error", e.vector>>>> ELSE <<>>)

\* The processor begins the frame of an interrupt.
LEMMA Arrives ==
  ASSUME NEW e \in Interrupts, NEW s \in Seq(Words), e.rsp = Len(s),
         NEW t, Arrived(s, e, t)
  PROVE  /\ InProgress(e, Location("stub", e.vector, 1), e.regs, Len(t), t)
         /\ t \in Seq(Words) /\ Len(s) <= Len(t)
         /\ \A p \in 1 .. Len(s) : t[p] = s[p]
<1>1. /\ Base(e) \in Nat /\ e.rsp \in Nat /\ Base(e) = e.rsp + (e.rsp % 2)
      /\ e.rsp % 2 \in 0 .. 1 /\ e.vector \in 0 .. 255
  BY Bases DEF Base
<1>2. PICK a : a = IF Len(s) % 2 = 1 THEN <<<<"padding", 0>>>> ELSE <<>>
  OBVIOUS
<1>3. PICK b : b = <<<<"ss", 0>>, <<"rsp", e.rsp>>, <<"rflags", e.iflag>>, <<"cs", 0>>,
                     <<"rip", e.pc>>>>
  OBVIOUS
<1>4. PICK c : c = IF PushesErrorCode(e.vector) THEN <<<<"error", e.vector>>>> ELSE <<>>
  OBVIOUS
<1>5. t = Then(Then(Then(s, a), b), c)
  BY <1>2, <1>3, <1>4 DEF Then, Arrived
<1>6. a \in Seq(Words) /\ Len(a) = e.rsp % 2
  <2>1. PICK w \in Words : w = <<"padding", 0>>
    BY PushedWords
  <2>2. a = IF Len(s) % 2 = 1 THEN <<w>> ELSE <<>>
    BY <1>2, <2>1
  <2>. QED  BY <1>1, <2>2, FewWords
<1>7. b \in Seq(Words) /\ Len(b) = 5 /\ \A i \in 1 .. 5 : b[i] = FrameWord(e, i)
  <2>1. PICK v \in Words, w \in Words, x \in Words, y \in Words, z \in Words :
          /\ v = <<"ss", 0>> /\ w = <<"rsp", e.rsp>> /\ x = <<"rflags", e.iflag>>
          /\ y = <<"cs", 0>> /\ z = <<"rip", e.pc>>
    BY PushedWords
  <2>2. b = <<v, w, x, y, z>>
    BY <1>3, <2>1
  <2>3. /\ b \in Seq(Words) /\ Len(b) = 5
        /\ b[1] = v /\ b[2] = w /\ b[3] = x /\ b[4] = y /\ b[5] = z
    BY <2>2, FewWords
  <2>4. /\ b[1] = FrameWord(e, 1) /\ b[2] = FrameWord(e, 2) /\ b[3] = FrameWord(e, 3)
        /\ b[4] = FrameWord(e, 4) /\ b[5] = FrameWord(e, 5)
    BY <2>1, <2>3, FrameWords
  <2>. QED  BY <2>3, <2>4
<1>9. /\ c \in Seq(Words)
      /\ Len(c) = IF PushesErrorCode(e.vector) THEN 1 ELSE 0
      /\ PushesErrorCode(e.vector) => c[1] = FrameWord(e, 6)
  <2>1. PICK w \in Words : w = <<"error", e.vector>>
    BY PushedWords
  <2>2. c = IF PushesErrorCode(e.vector) THEN <<w>> ELSE <<>>
    BY <1>4, <2>1
  <2>3. PushesErrorCode(e.vector) => w = FrameWord(e, 6)
    BY <2>1, FrameWords
  <2>. QED  BY <2>2, <2>3, FewWords
<1>10. PICK sa : sa = Then(s, a)
  OBVIOUS
<1>11. /\ sa \in Seq(Words) /\ Len(sa) = Base(e)
       /\ \A p \in 1 .. Len(s) : sa[p] = s[p]
  <2>1. /\ sa \in Seq(Words) /\ Len(sa) = Len(s) + Len(a)
        /\ \A p \in 1 .. Len(s) : sa[p] = s[p]
    BY <1>6, <1>10, WordsAfter
  <2>. QED  BY <1>1, <1>6, <2>1
<1>12. PICK sb : sb = Then(sa, b)
  OBVIOUS
<1>13. /\ sb \in Seq(Words) /\ Len(sb) = Base(e) + 5
       /\ \A p \in 1 .. Base(e) : sb[p] = sa[p]
       /\ \A i \in 1 .. 5 : sb[Base(e) + i] = FrameWord(e, i)
  <2>1. PICK n \in Nat : n = 5
    OBVIOUS
  <2>2. Len(b) = n /\ \A i \in 1 .. n : b[i] = FrameWord(e, i)
    BY <1>7, <2>1
  <2>3. /\ sb \in Seq(Words) /\ Len(sb) = Len(sa) + Len(b)
        /\ \A p \in 1 .. Len(sa) : sb[p] = sa[p]
        /\ \A i \in 1 .. Len(b) : sb[Len(sa) + i] = b[i]
    BY <1>7, <1>11, <1>12, WordsAfter, ZenonT(40)
  <2>4. \A i \in 1 .. n : sb[Base(e) + i] = FrameWord(e, i)
    BY <1>11, <2>2, <2>3
  <2>. QED  BY <1>11, <2>1, <2>2, <2>3, <2>4
<1>14. /\ t \in Seq(Words) /\ Len(t) = Base(e) + 5 + Len(c)
       /\ \A p \in 1 .. Base(e) + 5 : t[p] = sb[p]
       /\ \A i \in 1 .. Len(c) : t[Base(e) + 5 + i] = c[i]
  <2>1. t = Then(sb, c)
    BY <1>5, <1>10, <1>12
  <2>2. /\ t \in Seq(Words) /\ Len(t) = Len(sb) + Len(c)
        /\ \A p \in 1 .. Len(sb) : t[p] = sb[p]
        /\ \A i \in 1 .. Len(c) : t[Len(sb) + i] = c[i]
    <3>1. c \in Seq(Words) /\ sb \in Seq(Words)
      BY <1>9, <1>13
    <3>. QED  BY <2>1, <3>1, WordsAfter
  <2>. QED  BY <1>13, <2>2
<1>15. ASSUME NEW i \in 1 .. NumberAt(e.vector) + 21, Base(e) + i <= Len(t)
       PROVE  t[Base(e) + i] = FrameWord(e, i)
  <2>1. CASE i <= 5
    <3>1. Base(e) + i \in 1 .. Base(e) + 5 /\ i \in 1 .. 5
      BY <1>1, <2>1
    <3>. QED  BY <1>14, <1>13, <3>1
  <2>2. CASE i > 5
    <3>1. PushesErrorCode(e.vector) /\ i = 6 /\ Base(e) + i = Base(e) + 5 + 1 /\ 1 \in 1 .. Len(c)
      BY <1>1, <1>9, <1>14, <1>15, <2>2
    <3>. QED  BY <1>9, <1>14, <3>1
  <2>. QED  BY <2>1, <2>2
<1>16. /\ Height(e.vector, 1) = 5 + Len(c) /\ 1 \in 1 .. EntryLength(e.vector) + 40
       /\ Len(t) = Base(e) + Height(e.vector, 1)
  <2>1. PICK l \in 1 .. 2, n \in 7 .. 8 : l = EntryLength(e.vector) /\ n = NumberAt(e.vector)
    BY <1>1, Numbers
  <2>2. n = 5 + Len(c) + l
    <3>1. PICK v \in 0 .. 255 : v = e.vector
      BY <1>1
    <3>2. n = IF PushesErrorCode(v) THEN 6 + l ELSE 5 + l
      BY <2>1, <3>1, Numbers
    <3>3. Len(c) = IF PushesErrorCode(v) THEN 1 ELSE 0
      BY <1>9, <3>1
    <3>. QED  BY <3>2, <3>3
  <2>3. Height(e.vector, 1) = n + (1 - l) - 1
    BY <2>1 DEF Height, Progress
  <2>4. 1 \in 1 .. EntryLength(e.vector) + 40
    BY <2>1
  <2>. QED  BY <1>1, <1>9, <1>14, <2>1, <2>2, <2>3, <2>4, SMTT(40)
<1>17. Kept(e, e.regs, 1)
  <2>1. PICK l \in 1 .. 2 : l = EntryLength(e.vector)
    BY <1>1, Numbers
  <2>. QED  BY <2>1 DEF Kept, Progress
<1>18. \A p \in 1 .. Len(s) : t[p] = s[p]
  <2>1. ASSUME NEW p \in 1 .. Len(s)  PROVE  t[p] = s[p]
    <3>1. p \in 1 .. Base(e) /\ p \in 1 .. Base(e) + 5
      BY <1>1
    <3>. QED  BY <1>11, <1>13, <1>14, <3>1
  <2>. QED  BY <2>1
<1>19. /\ Location("stub", e.vector, 1).vector = e.vector
       /\ Location("stub", e.vector, 1).at = "stub" /\ Location("stub", e.vector, 1).k = 1
  BY DEF Location
<1>20. InProgress(e, Location("stub", e.vector, 1), e.regs, Len(t), t)
  BY <1>15, <1>16, <1>17, <1>19 DEF InProgress
<1>. QED  BY <1>1, <1>9, <1>14, <1>18, <1>20

\* The interrupts in progress are interrupts.
LEMMA Element ==
  ASSUME NEW sv \in Seq(Interrupts), NEW d \in 1 .. Len(sv)
  PROVE  sv[d] \in Interrupts /\ sv[d].rsp \in Nat
<1>1. sv[d] \in Interrupts
  OBVIOUS
<1>. QED  BY <1>1, Bases

\* Every register is popped.
LEMMA AllPopped ==
  ASSUME NEW g \in General
  PROVE  \E j \in 1 .. 15 : Popped[j] = g
<1>1. g \in {"rdi", "rsi", "rbp", "rdx", "rcx", "rbx", "rax", "r8", "r9", "r10", "r11", "r12",
             "r13", "r14", "r15"}
  BY DEF General, ToSet, Pushed
<1>2. /\ Popped[15] = "rdi" /\ Popped[14] = "rsi" /\ Popped[13] = "rbp" /\ Popped[12] = "rdx"
      /\ Popped[11] = "rcx" /\ Popped[10] = "rbx" /\ Popped[9] = "rax" /\ Popped[8] = "r8"
      /\ Popped[7] = "r9" /\ Popped[6] = "r10" /\ Popped[5] = "r11" /\ Popped[4] = "r12"
      /\ Popped[3] = "r13" /\ Popped[2] = "r14" /\ Popped[1] = "r15"
  BY DEF Popped
<1>. QED  BY <1>1, <1>2

\* At iretq the words the processor pushed are on top, and the registers are
\* back; an error code that the entry did not count on is above them.
LEMMA AtIretq ==
  ASSUME NEW e \in Interrupts, NEW at \in Locations, NEW r \in Registers, NEW s \in Seq(Words),
         InProgress(e, at, r, Len(s), s), at.at = "stub", at.k = EntryLength(e.vector) + 40
  PROVE  /\ PushesErrorCode(e.vector) => (~HasErrorCode(e.vector) <=>
               s[Len(s)] = <<"error", e.vector>>)
         /\ (PushesErrorCode(e.vector) => HasErrorCode(e.vector)) =>
               /\ s[Len(s)] = <<"rip", e.pc>> /\ s[Len(s) - 2] = <<"rflags", e.iflag>>
               /\ s[Len(s) - 3] = <<"rsp", e.rsp>>
         /\ r = e.regs
<1>1. /\ Len(s) = Base(e) + Height(e.vector, at.k) /\ at.vector = e.vector
      /\ at.k \in 1 .. EntryLength(e.vector) + 40 /\ Kept(e, r, at.k)
      /\ \A i \in 1 .. NumberAt(e.vector) + 21 :
           Base(e) + i <= Len(s) => s[Base(e) + i] = FrameWord(e, i)
  BY DEF InProgress
<1>2. PICK b \in Nat, n \in 7 .. 8, l \in 1 .. 2 :
        b = Base(e) /\ n = NumberAt(e.vector) /\ l = EntryLength(e.vector)
  BY NumbersOf, Bases
<1>3. Len(s) = b + n - 2
  <2>1. Height(e.vector, at.k) = n - 2
    BY <1>1, <1>2, SMTT(40) DEF Height, Progress
  <2>. QED  BY <1>1, <1>2, <2>1
<1>4. ASSUME NEW i \in 1 .. n - 2  PROVE s[b + i] = FrameWord(e, i)
  <2>1. i \in 1 .. n + 21 /\ b + i <= Len(s)
    BY <1>3
  <2>. QED  BY <1>1, <1>2, <2>1
<1>5. r = e.regs
  <2>1. ASSUME NEW j \in 1 .. 15  PROVE r[Popped[j]] = e.regs[Popped[j]]
    <3>1. j <= Progress(e.vector, at.k) - 24
      BY <1>2 DEF Progress
    <3>. QED  BY <1>1, <3>1 DEF Kept
  <2>2. \A g \in General : r[g] = e.regs[g]
    BY <2>1, AllPopped
  <2>3. r \in [General -> Words] /\ e.regs \in [General -> Words]
    BY DEF Interrupts, Registers
  <2>. QED  BY <2>2, <2>3
<1>6. CASE PushesErrorCode(e.vector) /\ ~HasErrorCode(e.vector)
  <2>1. n = 8 /\ Len(s) = b + 6
    <3>1. PICK v \in 0 .. 255 : v = e.vector
      BY Bases
    <3>2. PushesErrorCode(v) /\ ~HasErrorCode(v)
      BY <1>6, <3>1
    <3>3. NumberAt(v) = 8
      BY <3>2, Numbers DEF NumberAt, EntryLength
    <3>. QED  BY <1>2, <1>3, <3>1, <3>3
  <2>2. s[Len(s)] = FrameWord(e, 6)
    BY <1>4, <2>1
  <2>. QED  BY <1>5, <1>6, <2>2, FrameWords
<1>7. CASE PushesErrorCode(e.vector) => HasErrorCode(e.vector)
  <2>1. n = 7 /\ Len(s) = b + 5
    <3>1. PICK v \in 0 .. 255 : v = e.vector
      BY Bases
    <3>2. PushesErrorCode(v) => HasErrorCode(v)
      BY <1>7, <3>1
    <3>3. NumberAt(v) = 7
      BY <3>2 DEF NumberAt, EntryLength, PushesErrorCode, HasErrorCode
    <3>. QED  BY <1>2, <1>3, <3>1, <3>3
  <2>2. /\ 5 \in 1 .. n - 2 /\ 3 \in 1 .. n - 2 /\ 2 \in 1 .. n - 2
        /\ b + 5 = Len(s) /\ b + 3 = Len(s) - 2 /\ b + 2 = Len(s) - 3
    BY <2>1
  <2>3. /\ s[Len(s)] = FrameWord(e, 5) /\ s[Len(s) - 2] = FrameWord(e, 3)
        /\ s[Len(s) - 3] = FrameWord(e, 2)
    BY <1>4, <2>2
  <2>4. /\ s[Len(s)] = <<"rip", e.pc>> /\ s[Len(s) - 2] = <<"rflags", e.iflag>>
        /\ s[Len(s) - 3] = <<"rsp", e.rsp>>
    BY <2>3, FrameWords
  <2>5. s[Len(s)] # <<"error", e.vector>>
    BY <2>4
  <2>. QED  BY <1>5, <1>7, <2>4, <2>5
<1>. QED  BY <1>6, <1>7

-----------------------------------------------------------------------------
(* All interrupts and one step *)

\* A step of the one that runs leaves the others alone.
LEMMA TopMoves ==
  ASSUME NEW sv \in Seq(Interrupts), NEW n \in Nat \ {0}, Len(sv) = n,
         NEW at, NEW r, NEW s \in Seq(Words), FramesIn(sv, at, r, s), NestedIn(sv, s),
         NEW au, NEW q, NEW t \in Seq(Words), InProgress(sv[n], au, q, Len(t), t),
         sv[n].rsp <= Len(t), \A p \in 1 .. sv[n].rsp : t[p] = s[p]
  PROVE  FramesIn(sv, au, q, t) /\ NestedIn(sv, t)
<1>1. ASSUME NEW d \in 1 .. n, d < n
      PROVE  InProgress(sv[d], sv[d + 1].pc, sv[d + 1].regs, sv[d + 1].rsp, t)
  <2>1. InProgress(sv[d], sv[d + 1].pc, sv[d + 1].regs, sv[d + 1].rsp, s)
    BY <1>1 DEF FramesIn, PlaceOf, RegistersOf, TopOf
  <2>2. sv[d] \in Interrupts /\ sv[d + 1].rsp \in Nat /\ sv[n].rsp \in Nat
    <3>1. d \in 1 .. Len(sv) /\ d + 1 \in 1 .. Len(sv) /\ n \in 1 .. Len(sv)
      BY <1>1
    <3>. QED  BY <3>1, Element
  <2>3. sv[d + 1].rsp <= sv[n].rsp
    BY <1>1 DEF NestedIn
  <2>4. \A p \in 1 .. sv[d + 1].rsp : t[p] = s[p]
    BY <2>2, <2>3
  <2>. QED  BY <2>1, <2>2, <2>4, Unmoved
<1>2. PlaceOf(sv, au, 0) = Code
  BY DEF FramesIn, PlaceOf
<1>3. FramesIn(sv, au, q, t)
  BY <1>1, <1>2 DEF FramesIn, PlaceOf, RegistersOf, TopOf
<1>4. NestedIn(sv, t)
  <2>1. ASSUME NEW d \in 1 .. n  PROVE sv[d].rsp <= Len(t)
    <3>1. d \in 1 .. Len(sv) /\ n \in 1 .. Len(sv) /\ d \in 1 .. n
      OBVIOUS
    <3>2. sv[d].rsp \in Nat /\ sv[n].rsp \in Nat
      BY <3>1, Element
    <3>3. sv[d].rsp <= sv[n].rsp
      BY <3>1 DEF NestedIn
    <3>. QED  BY <3>2, <3>3
  <2>. QED  BY <2>1 DEF NestedIn
<1>. QED  BY <1>3, <1>4

\* The interrupts in progress are those of sv, and e that has interrupted them.
Entered(sv, e, su) ==
  Len(su) = Len(sv) + 1 /\ su[Len(sv) + 1] = e /\ \A d \in 1 .. Len(sv) : su[d] = sv[d]

\* Interrupt e has found the code at place at, with registers r and n words.
Found(e, at, r, n) == e.pc = at /\ e.regs = r /\ e.rsp = n

\* An interrupt begins.
LEMMA Enters ==
  ASSUME NEW sv \in Seq(Interrupts), NEW at, NEW r, NEW s \in Seq(Words),
         FramesIn(sv, at, r, s), NestedIn(sv, s),
         NEW e \in Interrupts, Found(e, at, r, Len(s)),
         NEW au, NEW q, NEW t \in Seq(Words), InProgress(e, au, q, Len(t), t),
         Len(s) <= Len(t), \A p \in 1 .. Len(s) : t[p] = s[p],
         NEW su \in Seq(Interrupts), Entered(sv, e, su)
  PROVE  FramesIn(su, au, q, t) /\ NestedIn(su, t)
<1>1. PICK n \in Nat : n = Len(sv)
  OBVIOUS
<1>2. /\ su \in Seq(Interrupts) /\ Len(su) = n + 1 /\ su[n + 1] = e
      /\ \A d \in 1 .. n : su[d] = sv[d]
  BY <1>1 DEF Entered
<1>3. PlaceOf(su, au, 0) = Code
  <2>1. CASE n = 0
    BY <1>1, <1>2, <2>1 DEF PlaceOf, FramesIn, Found
  <2>2. CASE n > 0
    BY <1>1, <1>2, <2>2 DEF PlaceOf, FramesIn
  <2>. QED  BY <2>1, <2>2
<1>4. ASSUME NEW d \in 1 .. n
      PROVE  InProgress(su[d], su[d + 1].pc, su[d + 1].regs, su[d + 1].rsp, t)
  <2>1. InProgress(su[d], su[d + 1].pc, su[d + 1].regs, su[d + 1].rsp, s)
    <3>1. InProgress(sv[d], PlaceOf(sv, at, d), RegistersOf(sv, r, d), TopOf(sv, s, d), s)
      BY <1>1 DEF FramesIn
    <3>2. CASE d < n
      <4>1. su[d] = sv[d] /\ su[d + 1] = sv[d + 1]
        BY <1>2, <3>2
      <4>. QED  BY <1>1, <3>1, <3>2, <4>1 DEF PlaceOf, RegistersOf, TopOf
    <3>3. CASE d = n
      <4>1. su[d] = sv[d] /\ su[d + 1] = e
        BY <1>2, <3>3
      <4>2. /\ PlaceOf(sv, at, d) = at /\ RegistersOf(sv, r, d) = r
            /\ TopOf(sv, s, d) = Len(s)
        BY <1>1, <3>3 DEF PlaceOf, RegistersOf, TopOf
      <4>3. InProgress(sv[d], at, r, Len(s), s)
        BY <3>1, <4>2
      <4>. QED  BY <4>1, <4>3 DEF Found
    <3>. QED  BY <3>2, <3>3
  <2>2. su[d] \in Interrupts /\ su[d + 1] \in Interrupts
    BY <1>2
  <2>3. su[d + 1].rsp \in Nat /\ su[d + 1].rsp <= Len(s)
    <3>1. CASE d < n
      <4>1. d + 1 \in 1 .. Len(sv) /\ su[d + 1] = sv[d + 1]
        BY <1>1, <1>2, <3>1
      <4>. QED  BY <4>1, Element DEF NestedIn
    <3>2. CASE d = n
      <4>1. su[d + 1] = e
        BY <1>2, <3>2
      <4>. QED  BY <4>1 DEF Found
    <3>. QED  BY <3>1, <3>2
  <2>4. \A p \in 1 .. su[d + 1].rsp : t[p] = s[p]
    BY <2>3, SMTT(40)
  <2>. QED  BY <2>1, <2>2, <2>3, <2>4, Unmoved
<1>5. FramesIn(su, au, q, t)
  BY <1>2, <1>3, <1>4 DEF FramesIn, PlaceOf, RegistersOf, TopOf
<1>6. NestedIn(su, t)
  <2>1. ASSUME NEW d \in 1 .. n + 1
        PROVE  su[d].rsp <= Len(t) /\ \A c \in 1 .. d : su[c].rsp <= su[d].rsp
    <3>1. CASE d <= n
      <4>1. sv[d].rsp \in Nat /\ sv[d].rsp <= Len(s)
        <5>1. d \in 1 .. Len(sv)
          BY <1>1, <3>1
        <5>. QED  BY <5>1, Element DEF NestedIn
      <4>2. \A c \in 1 .. d : sv[c].rsp <= sv[d].rsp
        BY <1>1, <3>1, SMTT(40) DEF NestedIn
      <4>3. \A c \in 1 .. d : c \in 1 .. n
        BY <3>1
      <4>4. d \in 1 .. n
        BY <3>1
      <4>5. su[d] = sv[d] /\ \A c \in 1 .. d : su[c] = sv[c]
        BY <1>2, <4>3, <4>4, Zenon
      <4>6. su[d].rsp <= Len(t)
        BY <4>1, <4>5
      <4>. QED  BY <4>2, <4>5, <4>6, Zenon
    <3>2. CASE d = n + 1
      <4>1. \A c \in 1 .. n : sv[c].rsp <= Len(s)
        BY <1>1 DEF NestedIn
      <4>2. /\ su[d] = e
            /\ \A c \in 1 .. d : (c \in 1 .. n /\ su[c] = sv[c]) \/ su[c] = e
        BY <1>2, <3>2
      <4>3. e.rsp = Len(s) /\ Len(s) \in Nat
        BY DEF Found
      <4>4. e.rsp <= Len(t)
        BY <4>3
      <4>5. ASSUME NEW c \in 1 .. d
            PROVE  su[c].rsp <= e.rsp
        <5>1. CASE c \in 1 .. n /\ su[c] = sv[c]
          BY <4>1, <4>3, <5>1, Zenon
        <5>2. CASE su[c] = e
          BY <4>3, <5>2
        <5>. QED  BY <4>2, <5>1, <5>2, Zenon
      <4>. QED  BY <4>2, <4>4, <4>5, Zenon
    <3>. QED  BY <3>1, <3>2
  <2>. QED  BY <1>2, <2>1 DEF NestedIn
<1>. QED  BY <1>5, <1>6

\* An interrupt ends.
LEMMA Leaves ==
  ASSUME NEW sv \in Seq(Interrupts),
         NEW at, NEW r, NEW s \in Seq(Words), FramesIn(sv, at, r, s), NestedIn(sv, s),
         NEW su \in Seq(Interrupts), NEW e \in Interrupts, Entered(su, e, sv),
         NEW t \in Seq(Words), Len(t) = e.rsp, \A p \in 1 .. e.rsp : t[p] = s[p]
  PROVE  FramesIn(su, e.pc, e.regs, t) /\ NestedIn(su, t)
<1>1. PICK n \in Nat : /\ n = Len(su) /\ Len(sv) = n + 1 /\ sv[n + 1] = e
                       /\ \A d \in 1 .. n : su[d] = sv[d]
  BY DEF Entered
<1>2. PlaceOf(su, e.pc, 0) = Code
  <2>1. CASE n = 0
    BY <1>1, <2>1 DEF PlaceOf, FramesIn
  <2>2. CASE n > 0
    BY <1>1, <2>2 DEF PlaceOf, FramesIn
  <2>. QED  BY <2>1, <2>2
<1>3. ASSUME NEW d \in 1 .. n
      PROVE  InProgress(su[d], sv[d + 1].pc, sv[d + 1].regs, sv[d + 1].rsp, t)
  <2>1. InProgress(sv[d], sv[d + 1].pc, sv[d + 1].regs, sv[d + 1].rsp, s)
    BY <1>1 DEF FramesIn, PlaceOf, RegistersOf, TopOf
  <2>2. sv[d] \in Interrupts /\ sv[d + 1].rsp \in Nat /\ e.rsp \in Nat
    <3>1. d \in 1 .. Len(sv) /\ d + 1 \in 1 .. Len(sv)
      BY <1>1
    <3>. QED  BY <3>1, Element, Bases
  <2>3. sv[d + 1].rsp <= e.rsp
    BY <1>1 DEF NestedIn
  <2>4. \A p \in 1 .. sv[d + 1].rsp : t[p] = s[p]
    BY <2>2, <2>3
  <2>. QED  BY <1>1, <2>1, <2>2, <2>4, Unmoved
<1>4. ASSUME NEW d \in 1 .. n
      PROVE  /\ PlaceOf(su, e.pc, d) = sv[d + 1].pc /\ RegistersOf(su, e.regs, d) = sv[d + 1].regs
             /\ TopOf(su, t, d) = sv[d + 1].rsp
  <2>1. CASE d < n
    <3>1. d + 1 \in 1 .. n /\ su[d + 1] = sv[d + 1]
      BY <1>1, <2>1
    <3>. QED  BY <1>1, <2>1, <3>1 DEF PlaceOf, RegistersOf, TopOf
  <2>2. CASE d = n
    <3>1. sv[d + 1] = e
      BY <1>1, <2>2
    <3>. QED  BY <1>1, <2>2, <3>1 DEF PlaceOf, RegistersOf, TopOf
  <2>. QED  BY <2>1, <2>2
<1>5. FramesIn(su, e.pc, e.regs, t)
  BY <1>1, <1>2, <1>3, <1>4 DEF FramesIn
<1>6. NestedIn(su, t)
  <2>1. ASSUME NEW d \in 1 .. n
        PROVE  su[d].rsp <= Len(t) /\ \A c \in 1 .. d : su[c].rsp <= su[d].rsp
    <3>1. d \in 1 .. n + 1 /\ n + 1 \in 1 .. Len(sv) /\ d \in 1 .. Len(sv)
      BY <1>1
    <3>2. sv[d].rsp <= sv[n + 1].rsp /\ \A c \in 1 .. d : sv[c].rsp <= sv[d].rsp
      BY <3>1 DEF NestedIn
    <3>3. su[d] = sv[d] /\ \A c \in 1 .. d : su[c] = sv[c]
      BY <1>1
    <3>. QED  BY <1>1, <3>2, <3>3
  <2>. QED  BY <1>1, <2>1 DEF NestedIn
<1>. QED  BY <1>5, <1>6

\* Where all frames are as they should be, the code that runs is no crash.
LEMMA NoCrash ==
  ASSUME NEW sv \in Seq(Interrupts), NEW at, NEW r, NEW s, FramesIn(sv, at, r, s)
  PROVE  at.at # "crash"
<1>1. PICK n \in Nat : n = Len(sv)
  OBVIOUS
<1>2. CASE n = 0
  BY <1>1, <1>2 DEF FramesIn, PlaceOf, Code, Location
<1>3. CASE n > 0
  <2>1. InProgress(sv[n], at, r, Len(s), s) /\ sv[n] \in Interrupts
    BY <1>1, <1>3 DEF FramesIn, PlaceOf, RegistersOf, TopOf
  <2>. QED  BY <2>1, Above
<1>. QED  BY <1>2, <1>3

\* The code that crashed is nowhere.
LEMMA CrashPlace == Crash \in Locations /\ Crash.at = "crash"
BY DEF Crash, Location, Locations

\* The interrupt that runs.
LEMMA Running ==
  ASSUME IInv, pc.at = "stub" \/ pc.at = "handler"
  PROVE  /\ Depth \in Nat \ {0} /\ saved[Depth] \in Interrupts
         /\ saved[Depth].vector \in 0 .. 255 /\ saved[Depth].rsp \in Nat
         /\ InProgress(saved[Depth], pc, regs, Len(stack), stack)
         /\ saved[Depth].rsp <= Len(stack)
<1>1. FramesIn(saved, pc, regs, stack) /\ saved \in Seq(Interrupts)
  BY DEF IInv, Types
<1>2. PICK n \in Nat : n = Depth
  BY <1>1 DEF Depth
<1>3. n # 0
  BY <1>1, <1>2 DEF FramesIn, PlaceOf, Depth, Code, Location
<1>4. PICK e \in Interrupts : e = saved[n]
  BY <1>1, <1>2, <1>3 DEF Depth
<1>5. InProgress(e, pc, regs, Len(stack), stack)
  <2>1. /\ PlaceOf(saved, pc, n) = pc /\ RegistersOf(saved, regs, n) = regs
        /\ TopOf(saved, stack, n) = Len(stack)
    BY <1>2 DEF PlaceOf, RegistersOf, TopOf, Depth
  <2>2. n \in 1 .. Len(saved)
    BY <1>2, <1>3 DEF Depth
  <2>. QED  BY <1>1, <1>4, <2>1, <2>2 DEF FramesIn
<1>. QED  BY <1>2, <1>3, <1>4, <1>5, Above, Bases

\* Which instruction of the stub comes when.
LEMMA StubWhich ==
  ASSUME NEW s \in 1 .. 40, NEW i, i = StubInstruction(s)
  PROVE  /\ s <= 15 => i.op = "push" /\ i.arg = Pushed[s]
         /\ s \in 16 .. 21 => i.op = "control" /\ i.arg = Controls[s - 15]
         /\ s = 22 => i.op = "call" /\ i.arg = 21
         /\ s = 23 => i.op = "drop" /\ i.arg = 6
         /\ s \in 24 .. 38 => i.op = "pop" /\ i.arg = Popped[s - 23]
         /\ s = 39 => i.op = "drop" /\ i.arg = 2
         /\ s = 40 => i.op = "iretq" /\ i.arg = 0
<1>1. s <= 15 => i.op = "push" /\ i.arg = Pushed[s]
  BY DEF StubInstruction
<1>2. s \in 16 .. 21 => i.op = "control" /\ i.arg = Controls[s - 15]
  BY DEF StubInstruction
<1>3. s = 22 => i.op = "call" /\ i.arg = 21
  BY DEF StubInstruction
<1>4. s = 23 => i.op = "drop" /\ i.arg = 6
  BY DEF StubInstruction
<1>5. s \in 24 .. 38 => i.op = "pop" /\ i.arg = Popped[s - 23]
  BY DEF StubInstruction
<1>6. s = 39 => i.op = "drop" /\ i.arg = 2
  BY DEF StubInstruction
<1>7. s = 40 => i.op = "iretq" /\ i.arg = 0
  BY DEF StubInstruction
<1>. QED  BY <1>1, <1>2, <1>3, <1>4, <1>5, <1>6, <1>7

\* Instruction i of the program of v comes at number s of the stub.
Comes(v, i, s) ==
  /\ i.op = "number" => s <= 0 /\ i.arg = IF s = 0 THEN v ELSE 0
  /\ i.op = "push" => s \in 1 .. 15 /\ i.arg = Pushed[s]
  /\ i.op = "control" => s \in 16 .. 21 /\ i.arg = Controls[s - 15]
  /\ i.op = "call" => s = 22 /\ i.arg = 21
  /\ i.op = "drop" => (s = 23 /\ i.arg = 6) \/ (s = 39 /\ i.arg = 2)
  /\ i.op = "pop" => s \in 24 .. 38 /\ i.arg = Popped[s - 23]
  /\ i.op = "iretq" => s = 40 /\ i.arg = 0

\* Which instruction comes when.
LEMMA Which ==
  ASSUME NEW v \in 0 .. 255, NEW k \in 1 .. EntryLength(v) + 40
  PROVE  \E i, s : i = Program(v)[k] /\ s = k - EntryLength(v) /\ s \in -1 .. 40 /\ Comes(v, i, s)
<1>1. PICK l \in 1 .. 2 : l = EntryLength(v)
  BY Numbers
<1>2. PICK i : i = Program(v)[k]
  OBVIOUS
<1>3. PICK s \in -1 .. 40 : s = k - EntryLength(v)
  BY <1>1
<1>4. CASE k <= EntryLength(v)
  <2>1. k \in 1 .. EntryLength(v)
    BY <1>1, <1>4
  <2>2. i = [op |-> "number", arg |-> IF k = EntryLength(v) THEN v ELSE 0]
    BY <1>2, <2>1, ProgramLemma
  <2>3. i.op = "number" /\ i.arg = (IF s = 0 THEN v ELSE 0) /\ s <= 0
    BY <1>1, <1>3, <2>1, <2>2
  <2>4. Comes(v, i, s)
    BY <2>3 DEF Comes
  <2>. QED  BY <1>2, <1>3, <2>4
<1>5. CASE k > EntryLength(v)
  <2>1. k \in EntryLength(v) + 1 .. EntryLength(v) + 40 /\ s \in 1 .. 40
    BY <1>1, <1>3, <1>5
  <2>2. Program(v)[k] = StubInstruction(Progress(v, k)) /\ Progress(v, k) = s
    BY <1>3, <2>1, ProgramLemma DEF Progress
  <2>3. i = StubInstruction(s)
    BY <1>2, <2>2
  <2>4. /\ s <= 15 => i.op = "push" /\ i.arg = Pushed[s]
        /\ s \in 16 .. 21 => i.op = "control" /\ i.arg = Controls[s - 15]
        /\ s = 22 => i.op = "call" /\ i.arg = 21
        /\ s = 23 => i.op = "drop" /\ i.arg = 6
        /\ s \in 24 .. 38 => i.op = "pop" /\ i.arg = Popped[s - 23]
        /\ s = 39 => i.op = "drop" /\ i.arg = 2
        /\ s = 40 => i.op = "iretq" /\ i.arg = 0
    BY <2>1, <2>3, StubWhich
  <2>5. s <= 15 \/ s \in 16 .. 21 \/ s = 22 \/ s = 23 \/ s \in 24 .. 38 \/ s = 39 \/ s = 40
    BY <2>1
  <2>6. i.op # "number"
    BY <2>4, <2>5
  <2>7. i.op = "push" => s \in 1 .. 15 /\ i.arg = Pushed[s]
    BY <2>1, <2>4, <2>5
  <2>8. i.op = "control" => s \in 16 .. 21 /\ i.arg = Controls[s - 15]
    BY <2>4, <2>5
  <2>9. i.op = "call" => s = 22 /\ i.arg = 21
    BY <2>4, <2>5
  <2>10. i.op = "drop" => (s = 23 /\ i.arg = 6) \/ (s = 39 /\ i.arg = 2)
    BY <2>4, <2>5
  <2>11. i.op = "pop" => s \in 24 .. 38 /\ i.arg = Popped[s - 23]
    BY <2>4, <2>5
  <2>12. i.op = "iretq" => s = 40 /\ i.arg = 0
    BY <2>4, <2>5
  <2>13. Comes(v, i, s)
    BY <2>6, <2>7, <2>8, <2>9, <2>10, <2>11, <2>12 DEF Comes
  <2>. QED  BY <1>2, <1>3, <2>13
<1>. QED  BY <1>1, <1>4, <1>5

\* The registers are popped in the order against which they were pushed.
LEMMA Mirror ==
  ASSUME NEW j \in 1 .. 15
  PROVE  Popped[j] = Pushed[16 - j]
BY DEF Popped, Pushed

\* What has been kept stays kept.
LEMMA Keeps ==
  ASSUME NEW e \in Interrupts, NEW r, NEW q, NEW k \in 1 .. EntryLength(e.vector) + 39,
         NEW s, s = k - EntryLength(e.vector), Kept(e, r, k), NEW g
  PROVE  /\ s <= 15 => r = e.regs /\ KeptNext(e, r, k)
         /\ s \in 16 .. 23 => KeptNext(e, q, k)
         /\ s = 39 => KeptNext(e, r, k)
         /\ s \in 24 .. 38 /\ g = Popped[s - 23] /\ q[g] = e.regs[g]
              /\ (\A j \in 1 .. 15 : q[Popped[j]] = r[Popped[j]] \/ Popped[j] = g)
              => KeptNext(e, q, k)
<1>1. PICK l \in 1 .. 2 : l = EntryLength(e.vector)
  BY Bases, NumbersOf
<1>2. /\ Progress(e.vector, k) = s /\ Progress(e.vector, k + 1) = s + 1 /\ s \in Int
      /\ s <= 39 /\ s >= -1
  BY <1>1 DEF Progress
<1>3. /\ s <= 16 => r = e.regs
      /\ \A j \in 1 .. 15 : j <= s - 24 => r[Popped[j]] = e.regs[Popped[j]]
  BY <1>2 DEF Kept
<1>4. s <= 15 => r = e.regs /\ KeptNext(e, r, k)
  BY <1>2, <1>3 DEF Kept, KeptNext
<1>5. s \in 16 .. 23 => KeptNext(e, q, k)
  BY <1>2 DEF Kept, KeptNext
<1>6. s = 39 => KeptNext(e, r, k)
  BY <1>2, <1>3 DEF Kept, KeptNext
<1>7. ASSUME s \in 24 .. 38, g = Popped[s - 23], q[g] = e.regs[g],
             \A j \in 1 .. 15 : q[Popped[j]] = r[Popped[j]] \/ Popped[j] = g
      PROVE  KeptNext(e, q, k)
  <2>1. ASSUME NEW j \in 1 .. 15, j <= s + 1 - 24
        PROVE  q[Popped[j]] = e.regs[Popped[j]]
    <3>1. j = s - 23 \/ j <= s - 24
      BY <1>2, <2>1
    <3>. QED  BY <1>3, <1>7, <3>1
  <2>. QED  BY <1>2, <1>7, <2>1 DEF Kept, KeptNext
<1>. QED  BY <1>4, <1>5, <1>6, <1>7

\* A step of the interrupt that runs keeps the invariant.
LEMMA OneStep ==
  ASSUME IInv, pc.at = "stub" \/ pc.at = "handler", UNCHANGED <<iflag, saved>>,
         regs' \in Registers, stack' \in Seq(Words), pc' \in Locations,
         InProgress(saved[Depth], pc', regs', Len(stack'), stack'),
         \A p \in 1 .. saved[Depth].rsp : stack'[p] = stack[p]
  PROVE  IInv'
<1>1. /\ Depth \in Nat \ {0} /\ saved[Depth] \in Interrupts
      /\ FramesIn(saved, pc, regs, stack) /\ NestedIn(saved, stack) /\ Types
  BY Running DEF IInv
<1>2. saved[Depth].rsp <= Len(stack') /\ pc'.at \in {"stub", "handler"}
  BY <1>1, Above
<1>3. FramesIn(saved, pc', regs', stack') /\ NestedIn(saved, stack')
  <2>1. PICK n \in Nat \ {0} : n = Depth
    BY <1>1
  <2>2. saved \in Seq(Interrupts) /\ stack \in Seq(Words) /\ Len(saved) = n
    BY <1>1, <2>1 DEF Types, Depth
  <2>3. /\ InProgress(saved[n], pc', regs', Len(stack'), stack')
        /\ saved[n].rsp <= Len(stack') /\ \A p \in 1 .. saved[n].rsp : stack'[p] = stack[p]
    BY <1>2, <2>1
  <2>4. stack' \in Seq(Words) /\ FramesIn(saved, pc, regs, stack) /\ NestedIn(saved, stack)
    BY <1>1
  <2>. QED  BY <2>2, <2>3, <2>4, TopMoves, SMTT(60)
<1>4. Types'
  BY <1>1 DEF Types
<1>. QED  BY <1>2, <1>3, <1>4 DEF IInv

\* The word of the frame that comes next, and the one that is popped.
LEMMA NextWords ==
  ASSUME NEW e \in Interrupts, NEW k \in 1 .. EntryLength(e.vector) + 40
  PROVE  LET s == k - EntryLength(e.vector)
             h == Height(e.vector, k)
         IN /\ s = -1 => FrameWord(e, h + 1) = <<"number", 0>>
            /\ s = 0 => FrameWord(e, h + 1) = <<"number", e.vector>>
            /\ s \in 1 .. 15 => FrameWord(e, h + 1) = e.regs[Pushed[s]]
            /\ s \in 16 .. 21 => FrameWord(e, h + 1) = <<Controls[s - 15], 0>>
            /\ s \in 24 .. 38 => FrameWord(e, h) = e.regs[Popped[s - 23]]
<1>1. PICK l \in 1 .. 2, n \in 7 .. 8, v \in 0 .. 255 :
        l = EntryLength(e.vector) /\ n = NumberAt(e.vector) /\ v = e.vector
  BY Bases, NumbersOf
<1>2. PICK s \in Int : s = k - l
  BY <1>1
<1>3. PICK h : h = Height(e.vector, k)
  OBVIOUS
<1>4. h = n + (IF s <= 22 THEN s - 1 ELSE IF s = 23 THEN 21
               ELSE IF s <= 39 THEN 39 - s ELSE -2)
  BY <1>1, <1>2, <1>3 DEF Height, Progress
<1>5. s = -1 => FrameWord(e, h + 1) = <<"number", 0>>
  <2>1. HAVE s = -1
  <2>2. l = 2 /\ h + 1 = n - 1
    BY <1>1, <1>2, <1>4, <2>1
  <2>3. ~HasErrorCode(e.vector)
    BY <1>1, <2>2 DEF EntryLength
  <2>. QED  BY <1>1, <2>2, <2>3, FrameWords
<1>6. s = 0 => FrameWord(e, h + 1) = <<"number", e.vector>>
  <2>1. HAVE s = 0
  <2>2. h + 1 = n
    BY <1>1, <1>4, <2>1
  <2>. QED  BY <1>1, <2>2, FrameWords
<1>7. s \in 1 .. 15 => FrameWord(e, h + 1) = e.regs[Pushed[s]]
  <2>1. HAVE s \in 1 .. 15
  <2>2. h + 1 = n + s
    BY <1>1, <1>4, <2>1
  <2>. QED  BY <1>1, <2>1, <2>2, FrameWords
<1>8. s \in 16 .. 21 => FrameWord(e, h + 1) = <<Controls[s - 15], 0>>
  <2>1. HAVE s \in 16 .. 21
  <2>2. h + 1 = n + s
    BY <1>1, <1>4, <2>1
  <2>. QED  BY <1>1, <2>1, <2>2, FrameWords
<1>9. s \in 24 .. 38 => FrameWord(e, h) = e.regs[Popped[s - 23]]
  <2>1. HAVE s \in 24 .. 38
  <2>2. PICK j \in 1 .. 15 : j = 39 - s /\ s - 23 \in 1 .. 15 /\ 16 - (s - 23) = j
    BY <2>1
  <2>3. h = n + j
    BY <1>1, <1>4, <2>1, <2>2
  <2>4. Popped[s - 23] = Pushed[j]
    BY <2>2, Mirror
  <2>. QED  BY <1>1, <2>3, <2>4, FrameWords
<1>. QED  BY <1>1, <1>2, <1>3, <1>5, <1>6, <1>7, <1>8, <1>9

\* The stub of interrupt e runs, and is at instruction i, number s.
Runs(e, i, s) ==
  /\ e = saved[Depth] /\ i = Instr /\ s = pc.k - EntryLength(e.vector)
  /\ Comes(e.vector, i, s) /\ e.vector \in 0 .. 255 /\ pc.vector = e.vector
  /\ pc.k \in 1 .. EntryLength(e.vector) + 40 /\ Kept(e, regs, pc.k)
  /\ InProgress(e, pc, regs, Len(stack), stack)
  /\ e.rsp <= Len(stack) /\ e.rsp \in Nat

\* The interrupt whose stub runs, and its instruction.
LEMMA Executing ==
  ASSUME IInv, pc.at = "stub"
  PROVE  \E e, i, s : e \in Interrupts /\ s \in -1 .. 40 /\ Runs(e, i, s)
<1>1. PICK e \in Interrupts : e = saved[Depth]
  BY Running
<1>2. /\ InProgress(e, pc, regs, Len(stack), stack) /\ e.vector \in 0 .. 255
      /\ e.rsp <= Len(stack) /\ e.rsp \in Nat
  BY <1>1, Running
<1>3. /\ pc.vector = e.vector /\ pc.k \in 1 .. EntryLength(e.vector) + 40
      /\ Kept(e, regs, pc.k)
  BY <1>2 DEF InProgress
<1>4. PICK v \in 0 .. 255, k \in 1 .. EntryLength(e.vector) + 40 : v = e.vector /\ k = pc.k
  BY <1>2, <1>3
<1>5. PICK i, s : i = Program(v)[k] /\ s = k - EntryLength(v) /\ s \in -1 .. 40 /\ Comes(v, i, s)
  BY <1>4, Which
<1>6. i = Instr
  BY <1>3, <1>4, <1>5 DEF Instr
<1>7. Runs(e, i, s)
  BY <1>1, <1>2, <1>3, <1>4, <1>5, <1>6 DEF Runs
<1>. QED  BY <1>5, <1>7

\* The next place in the program is a place.
LEMMA NextPlace ==
  ASSUME NEW at \in Locations, NEW au, Follows(at, au)
  PROVE  au \in Locations
BY DEF Follows, Onwards, Locations

\* An instruction that puts the next word of the frame on the stack.
LEMMA PushStep ==
  ASSUME IInv, pc.at = "stub", NEW e \in Interrupts, NEW i, NEW s \in -1 .. 40, Runs(e, i, s),
         s <= 21, NEW w \in Words, IsNext(e, pc.k, w),
         Added(stack, w, stack'), Follows(pc, pc'), regs' \in Registers,
         KeptNext(e, regs', pc.k), UNCHANGED <<iflag, saved>>
  PROVE  IInv'
<1>1. stack \in Seq(Words) /\ pc \in Locations
  BY DEF IInv, Types
<1>2. InProgress(e, pc, regs, Len(stack), stack)
  BY DEF Runs
<1>7. e = saved[Depth]
  BY DEF Runs
<1>3. pc.k <= EntryLength(e.vector) + 21
  <2>1. EntryLength(e.vector) \in 1 .. 2
    BY Bases, NumbersOf
  <2>. QED  BY <1>1, <2>1 DEF Runs, Locations
<1>4. /\ InProgress(e, pc', regs', Len(stack'), stack')
      /\ \A p \in 1 .. Len(stack) : stack'[p] = stack[p]
  BY <1>1, <1>2, <1>3, Pushes
<1>5. stack' \in Seq(Words) /\ pc' \in Locations
  BY <1>1, NextPlace DEF Added
<1>6. \A p \in 1 .. e.rsp : stack'[p] = stack[p]
  BY <1>4 DEF Runs
<1>. QED  BY <1>4, <1>5, <1>6, <1>7, OneStep

\* An instruction that takes words of the frame off the stack.
LEMMA DropStep ==
  ASSUME IInv, pc.at = "stub", NEW e \in Interrupts, NEW i, NEW s \in -1 .. 40, Runs(e, i, s),
         s <= 39, NEW n \in Nat, Taken(stack, n, stack'), Lower(e.vector, pc.k, n),
         Follows(pc, pc'), regs' \in Registers,
         KeptNext(e, regs', pc.k), UNCHANGED <<iflag, saved>>
  PROVE  IInv'
<1>1. stack \in Seq(Words) /\ pc \in Locations
  BY DEF IInv, Types
<1>2. InProgress(e, pc, regs, Len(stack), stack)
  BY DEF Runs
<1>7. e = saved[Depth]
  BY DEF Runs
<1>3. pc.k < EntryLength(e.vector) + 40
  <2>1. EntryLength(e.vector) \in 1 .. 2
    BY Bases, NumbersOf
  <2>. QED  BY <1>1, <2>1 DEF Runs, Locations
<1>4. /\ InProgress(e, pc', regs', Len(stack'), stack') /\ stack' \in Seq(Words)
      /\ \A p \in 1 .. e.rsp : stack'[p] = stack[p]
  <2>1. InProgress(e, pc', regs', Len(stack'), stack')
    BY <1>1, <1>2, <1>3, Drops
  <2>2. stack' \in Seq(Words)
    BY <1>1, <1>2, <1>3, <2>1, Drops
  <2>3. \A p \in 1 .. e.rsp : stack'[p] = stack[p]
    BY <1>1, <1>2, <1>3, <2>1, Drops
  <2>. QED  BY <2>1, <2>2, <2>3
<1>5. pc' \in Locations
  BY <1>1, NextPlace
<1>. QED  BY <1>4, <1>5, <1>7, OneStep

\* The entry of the vector pushes a number.
LEMMA PushNumberStep ==
  ASSUME IInv, PushNumber
  PROVE  IInv'
<1>1. pc.at = "stub"
  BY DEF PushNumber, Executes
<1>2. PICK e, i, s : e \in Interrupts /\ s \in -1 .. 40 /\ Runs(e, i, s)
  BY <1>1, Executing
<1>3. /\ i.op = "number" /\ stack' = Append(stack, <<"number", i.arg>>) /\ Follows(pc, pc')
      /\ UNCHANGED <<regs, iflag, saved>>
  BY <1>2, Zenon DEF PushNumber, Executes, Onward, Onwards, Follows, Runs
<1>4. s <= 0 /\ i.arg = IF s = 0 THEN e.vector ELSE 0
  <2>1. Comes(e.vector, i, s)
    BY <1>2 DEF Runs
  <2>2. s <= 0 /\ i.arg = IF s = 0 THEN e.vector ELSE 0
    BY <1>3, <2>1 DEF Comes
  <2>. QED  BY <2>2
<1>5. PICK w \in Words : w = <<"number", i.arg>>
  <2>1. e.vector \in Int
    BY <1>2, Bases
  <2>2. i.arg \in Int
    BY <1>4, <2>1
  <2>. QED  BY <1>2, <2>2, PushedWords
<1>6. /\ pc.k \in 1 .. EntryLength(e.vector) + 40 /\ s = pc.k - EntryLength(e.vector)
      /\ Kept(e, regs, pc.k)
  BY <1>2 DEF Runs
<1>7. IsNext(e, pc.k, w)
  BY <1>2, <1>4, <1>5, <1>6, NextWords DEF IsNext
<1>8. KeptNext(e, regs', pc.k)
  <2>1. EntryLength(e.vector) \in 1 .. 2
    BY <1>2, Bases, NumbersOf
  <2>2. pc.k \in 1 .. EntryLength(e.vector) + 39 /\ s <= 15
    BY <1>4, <1>6, <2>1
  <2>3. KeptNext(e, regs, pc.k)
    BY <1>2, <1>6, <2>2, Keeps
  <2>. QED  BY <1>3, <2>3
<1>9. regs' \in Registers /\ Added(stack, w, stack')
  <2>1. regs \in Registers /\ regs' = regs
    BY <1>3 DEF IInv, Types
  <2>2. Added(stack, w, stack')
    BY <1>3, <1>5, Zenon DEF Added
  <2>. QED  BY <2>1, <2>2
<1>10. Follows(pc, pc') /\ UNCHANGED <<iflag, saved>> /\ s <= 21
  BY <1>2, <1>3, <1>4
<1>. QED  BY <1>1, <1>2, <1>7, <1>8, <1>9, <1>10, PushStep

\* The stub pushes a register.
LEMMA RegisterStep ==
  ASSUME IInv, Push
  PROVE  IInv'
<1>1. pc.at = "stub"
  BY DEF Push, Executes
<1>2. PICK e, i, s : e \in Interrupts /\ s \in -1 .. 40 /\ Runs(e, i, s)
  BY <1>1, Executing
<1>3. /\ i.op = "push" /\ stack' = Append(stack, regs[i.arg]) /\ Follows(pc, pc')
      /\ UNCHANGED <<regs, iflag, saved>>
  BY <1>2, Zenon DEF Push, Executes, Onward, Onwards, Follows, Runs
<1>4. s \in 1 .. 15 /\ i.arg = Pushed[s]
  BY <1>2, <1>3 DEF Runs, Comes
<1>5. regs \in Registers
  BY DEF IInv, Types
<1>6. PICK w \in Words : w = regs[i.arg]
  BY <1>4, <1>5, Lists DEF Registers
<1>7. /\ pc.k \in 1 .. EntryLength(e.vector) + 40 /\ s = pc.k - EntryLength(e.vector)
      /\ Kept(e, regs, pc.k)
  BY <1>2 DEF Runs
<1>8. regs = e.regs /\ KeptNext(e, regs, pc.k)
  <2>1. EntryLength(e.vector) \in 1 .. 2
    BY <1>2, Bases, NumbersOf
  <2>2. pc.k \in 1 .. EntryLength(e.vector) + 39 /\ s <= 15
    BY <1>4, <1>7, <2>1
  <2>. QED  BY <1>2, <1>7, <2>2, Keeps
<1>9. IsNext(e, pc.k, w)
  BY <1>2, <1>4, <1>6, <1>7, <1>8, NextWords DEF IsNext
<1>10. regs' \in Registers /\ Added(stack, w, stack') /\ KeptNext(e, regs', pc.k)
  BY <1>3, <1>5, <1>6, <1>8 DEF Added
<1>11. Follows(pc, pc') /\ UNCHANGED <<iflag, saved>> /\ s <= 21
  BY <1>3, <1>4
<1>. QED  BY <1>1, <1>2, <1>9, <1>10, <1>11, PushStep

\* A word without a value.
LEMMA ZeroWord ==
  ASSUME NEW x \in Kinds
  PROVE  <<x, 0>> \in Words
BY DEF Words

\* A register changes.
LEMMA Changed ==
  ASSUME NEW r \in Registers, NEW x, NEW w \in Words
  PROVE  [r EXCEPT ![x] = w] \in Registers
BY DEF Registers

\* The stub pushes a control or a segment register.
LEMMA ControlStep ==
  ASSUME IInv, PushControl
  PROVE  IInv'
<1>1. pc.at = "stub"
  BY DEF PushControl, Executes
<1>2. PICK e, i, s : e \in Interrupts /\ s \in -1 .. 40 /\ Runs(e, i, s)
  BY <1>1, Executing
<1>3. /\ i.op = "control" /\ stack' = Append(stack, <<i.arg, 0>>) /\ Follows(pc, pc')
      /\ regs' = [regs EXCEPT !["rax"] = <<i.arg, 0>>] /\ UNCHANGED <<iflag, saved>>
  BY <1>2, Zenon DEF PushControl, Executes, Onward, Onwards, Follows, Runs
<1>4. s \in 16 .. 21 /\ i.arg = Controls[s - 15]
  BY <1>2, <1>3 DEF Runs, Comes
<1>5. PICK w \in Words : w = <<i.arg, 0>>
  <2>1. s - 15 \in 1 .. 6
    BY <1>4
  <2>2. i.arg \in Kinds
    BY <1>4, <2>1, Lists
  <2>. QED  BY <2>2, ZeroWord
<1>6. /\ pc.k \in 1 .. EntryLength(e.vector) + 40 /\ s = pc.k - EntryLength(e.vector)
      /\ Kept(e, regs, pc.k)
  BY <1>2 DEF Runs
<1>7. IsNext(e, pc.k, w)
  BY <1>2, <1>4, <1>5, <1>6, NextWords DEF IsNext
<1>8. KeptNext(e, regs', pc.k)
  <2>1. EntryLength(e.vector) \in 1 .. 2
    BY <1>2, Bases, NumbersOf
  <2>2. pc.k \in 1 .. EntryLength(e.vector) + 39 /\ s \in 16 .. 23
    BY <1>4, <1>6, <2>1
  <2>. QED  BY <1>2, <1>6, <2>2, Keeps
<1>9. regs' \in Registers /\ Added(stack, w, stack')
  <2>1. [regs EXCEPT !["rax"] = w] \in Registers
    BY Changed DEF IInv, Types
  <2>2. regs' = [regs EXCEPT !["rax"] = w] /\ Added(stack, w, stack')
    BY <1>3, <1>5, Zenon DEF Added
  <2>. QED  BY <2>1, <2>2, Zenon
<1>10. Follows(pc, pc') /\ UNCHANGED <<iflag, saved>> /\ s <= 21
  BY <1>2, <1>3, <1>4
<1>. QED  BY <1>1, <1>2, <1>7, <1>8, <1>9, <1>10, PushStep

\* The stub drops the control registers, or the vector and the error code.
LEMMA DropWordsStep ==
  ASSUME IInv, DropWords
  PROVE  IInv'
<1>1. pc.at = "stub"
  BY DEF DropWords, Executes
<1>2. PICK e, i, s : e \in Interrupts /\ s \in -1 .. 40 /\ Runs(e, i, s)
  BY <1>1, Executing
<1>3. /\ i.op = "drop" /\ stack' = SubSeq(stack, 1, Len(stack) - i.arg) /\ Follows(pc, pc')
      /\ UNCHANGED <<regs, iflag, saved>>
  BY <1>2, Zenon DEF DropWords, Executes, Onward, Onwards, Follows, Runs, Drop
<1>4. PICK n \in Nat : n = i.arg /\ ((s = 23 /\ n = 6) \/ (s = 39 /\ n = 2))
  BY <1>2, <1>3 DEF Runs, Comes
<1>5. /\ pc.k \in 1 .. EntryLength(e.vector) + 40 /\ s = pc.k - EntryLength(e.vector)
      /\ Kept(e, regs, pc.k) /\ e.vector \in 0 .. 255
  BY <1>2 DEF Runs
<1>6. PICK l \in 1 .. 2 : l = EntryLength(e.vector)
  BY <1>2, Bases, NumbersOf
<1>7. Lower(e.vector, pc.k, n)
  <2>1. pc.k = l + 23 \/ pc.k = l + 39
    BY <1>4, <1>5, <1>6
  <2>2. PICK v \in 0 .. 255, k \in 1 .. EntryLength(e.vector) + 40 : v = e.vector /\ k = pc.k
    BY <1>5
  <2>3. (k = EntryLength(v) + 23 /\ n = 6) \/ (k = EntryLength(v) + 39 /\ n = 2)
    BY <1>4, <1>5, <1>6, <2>2
  <2>4. Height(v, k + 1) = Height(v, k) - n
    BY <2>2, <2>3, HeightSteps, ZenonT(40)
  <2>. QED  BY <2>2, <2>4 DEF Lower
<1>8. KeptNext(e, regs', pc.k)
  <2>1. pc.k \in 1 .. EntryLength(e.vector) + 39
    BY <1>4, <1>5, <1>6
  <2>2. KeptNext(e, regs, pc.k)
    BY <1>2, <1>4, <1>5, <2>1, Keeps
  <2>. QED  BY <1>3, <2>2
<1>9. regs' \in Registers /\ Taken(stack, n, stack')
  BY <1>3, <1>4 DEF IInv, Types, Taken
<1>10. Follows(pc, pc') /\ UNCHANGED <<iflag, saved>> /\ s <= 39
  BY <1>3, <1>4
<1>. QED  BY <1>1, <1>2, <1>4, <1>7, <1>8, <1>9, <1>10, DropStep

\* The stub pops a register.
LEMMA PopStep ==
  ASSUME IInv, Pop
  PROVE  IInv'
<1>1. pc.at = "stub"
  BY DEF Pop, Executes
<1>2. PICK e, i, s : e \in Interrupts /\ s \in -1 .. 40 /\ Runs(e, i, s)
  BY <1>1, Executing
<1>3. /\ i.op = "pop" /\ stack' = SubSeq(stack, 1, Len(stack) - 1) /\ Follows(pc, pc')
      /\ regs' = [regs EXCEPT ![i.arg] = stack[Len(stack) - 0]] /\ UNCHANGED <<iflag, saved>>
  BY <1>2, Zenon DEF Pop, Executes, Onward, Onwards, Follows, Runs, Drop, Word
<1>4. s \in 24 .. 38 /\ i.arg = Popped[s - 23] /\ s - 23 \in 1 .. 15
  BY <1>2, <1>3 DEF Runs, Comes
<1>5. /\ pc.k \in 1 .. EntryLength(e.vector) + 40 /\ s = pc.k - EntryLength(e.vector)
      /\ Kept(e, regs, pc.k) /\ e.vector \in 0 .. 255
  BY <1>2 DEF Runs
<1>12. InProgress(e, pc, regs, Len(stack), stack)
  BY <1>2 DEF Runs
<1>6. PICK l \in 1 .. 2 : l = EntryLength(e.vector)
  BY <1>2, Bases, NumbersOf
<1>7. stack \in Seq(Words) /\ regs \in [General -> Words]
  BY DEF IInv, Types, Registers
<1>8. stack[Len(stack)] = e.regs[i.arg] /\ stack[Len(stack)] \in Words
  <2>1. PICK h \in 5 .. NumberAt(e.vector) + 21, b \in Nat, n \in 7 .. 8 :
          h = Height(e.vector, pc.k) /\ b = Base(e) /\ n = NumberAt(e.vector)
    BY <1>2, <1>5, Heights, Bases, NumbersOf
  <2>2. Len(stack) = b + h
    BY <1>1, <1>12, <2>1 DEF InProgress
  <2>3. h \in 1 .. NumberAt(e.vector) + 21 /\ b + h <= Len(stack) /\ b + h \in 1 .. Len(stack)
    BY <2>1, <2>2
  <2>4. stack[b + h] = FrameWord(e, h)
    BY <1>12, <2>1, <2>3 DEF InProgress
  <2>5. FrameWord(e, h) = e.regs[Popped[s - 23]]
    BY <1>2, <1>4, <1>5, <2>1, NextWords
  <2>. QED  BY <1>4, <1>7, <2>2, <2>3, <2>4, <2>5
<1>9. PICK w \in Words : w = e.regs[i.arg] /\ regs' = [regs EXCEPT ![i.arg] = w]
  <2>1. Len(stack) - 0 = Len(stack)
    BY <1>7
  <2>. QED  BY <1>3, <1>8, <2>1
<1>10. i.arg \in General /\ \A j \in 1 .. 15 : Popped[j] \in General
  BY <1>4, Lists
<1>11. KeptNext(e, regs', pc.k)
  <2>1. pc.k \in 1 .. EntryLength(e.vector) + 39
    BY <1>4, <1>5, <1>6
  <2>2. i.arg = Popped[s - 23] /\ regs'[i.arg] = e.regs[i.arg]
    BY <1>4, <1>7, <1>9, <1>10
  <2>3. ASSUME NEW j \in 1 .. 15
        PROVE  regs'[Popped[j]] = regs[Popped[j]] \/ Popped[j] = i.arg
    BY <1>7, <1>9, <1>10
  <2>. QED  BY <1>2, <1>4, <1>5, <2>1, <2>2, <2>3, Keeps
<1>13. regs' \in Registers /\ Taken(stack, 1, stack')
  <2>1. [regs EXCEPT ![i.arg] = w] \in Registers
    BY Changed DEF IInv, Types
  <2>. QED  BY <1>3, <1>9, <2>1, Zenon DEF Taken
<1>14. Lower(e.vector, pc.k, 1)
  <2>1. PICK v \in 0 .. 255, k \in 1 .. EntryLength(e.vector) + 40 : v = e.vector /\ k = pc.k
    BY <1>5
  <2>2. k \in EntryLength(v) + 24 .. EntryLength(v) + 38
    BY <1>4, <1>5, <1>6, <2>1
  <2>3. Height(v, k + 1) = Height(v, k) - 1
    BY <2>1, <2>2, HeightSteps
  <2>. QED  BY <2>1, <2>3 DEF Lower
<1>15. Follows(pc, pc') /\ UNCHANGED <<iflag, saved>> /\ s <= 39
  BY <1>3, <1>4
<1>. QED  BY <1>1, <1>2, <1>11, <1>13, <1>14, <1>15, DropStep

\* The places of handlers and of the stub are places.
LEMMA Places ==
  ASSUME NEW v \in 0 .. 255, NEW k \in Nat
  PROVE  /\ Location("handler", v, 0) \in Locations /\ Location("stub", v, k) \in Locations
         /\ Crash \in Locations /\ Code \in Locations
         /\ Crash.at = "crash" /\ Code.at = "code"
BY DEF Location, Locations, Crash, Code

\* The stub calls the handler.
LEMMA CallStep ==
  ASSUME IInv, Call
  PROVE  IInv' /\ pc'.at # "crash"
<1>1. pc.at = "stub"
  BY DEF Call, Executes
<1>2. PICK e, i, s : e \in Interrupts /\ s \in -1 .. 40 /\ Runs(e, i, s)
  BY <1>1, Executing
<1>3. /\ i.op = "call" /\ stack' = Append(stack, <<"rip", Onwards(pc)>>)
      /\ regs' = [regs EXCEPT !["rdi"] = <<"rsp", Len(stack)>>,
                              !["rbx"] = stack[Len(stack) - i.arg],
                              !["rax"] = <<"realHandler", 0>>]
      /\ pc' = IF stack[Len(stack) - i.arg][1] = "number"
               THEN Location("handler", stack[Len(stack) - i.arg][2], 0) ELSE Crash
      /\ UNCHANGED <<iflag, saved>>
  BY <1>2, Zenon DEF Call, Executes, Onwards, Runs, Word
<1>4. s = 22 /\ i.arg = 21
  BY <1>2, <1>3 DEF Runs, Comes
<1>5. /\ e = saved[Depth] /\ e.vector \in 0 .. 255 /\ e.rsp <= Len(stack) /\ e.rsp \in Nat
  BY <1>2 DEF Runs
<1>6. InProgress(e, pc, regs, Len(stack), stack)
  BY <1>2 DEF Runs
<1>7. pc.k = EntryLength(e.vector) + 22
  <2>1. pc.k \in 1 .. EntryLength(e.vector) + 40 /\ s = pc.k - EntryLength(e.vector)
    BY <1>2 DEF Runs
  <2>2. EntryLength(e.vector) \in 1 .. 2
    BY <1>5, Numbers
  <2>. QED  BY <1>4, <2>1, <2>2
<1>8. stack \in Seq(Words) /\ regs \in Registers /\ pc \in Locations
  BY DEF IInv, Types
<1>9. PICK t : t = Append(stack, <<"rip", Onwards(pc)>>)
  OBVIOUS
<1>10. PICK q : q = [regs EXCEPT !["rdi"] = <<"rsp", Len(stack)>>,
                                 !["rbx"] = stack[Len(stack) - i.arg],
                                 !["rax"] = <<"realHandler", 0>>]
  OBVIOUS
<1>11. q["rdi"] = <<"rsp", Len(stack)>>
  <2>1. "rdi" \in General /\ regs \in [General -> Words]
    BY <1>8 DEF General, ToSet, Pushed, Registers
  <2>. QED  BY <1>10, <2>1
<1>12. /\ stack[Len(stack) - 21] = <<"number", e.vector>> /\ Len(stack) - 21 \in 1 .. Len(stack)
       /\ InProgress(e, Location("handler", e.vector, 0), q, Len(t), t)
       /\ \A p \in 1 .. Len(stack) : t[p] = stack[p]
  <2>1. Called(stack, pc, t)
    BY <1>9, Zenon DEF Called
  <2>2. InProgress(e, Location("handler", e.vector, 0), q, Len(t), t)
    BY <1>1, <1>2, <1>6, <1>7, <1>8, <1>11, <2>1, Calls
  <2>3. stack[Len(stack) - 21] = <<"number", e.vector>> /\ Len(stack) - 21 \in 1 .. Len(stack)
    BY <1>1, <1>2, <1>6, <1>7, <1>8, <1>11, <2>1, <2>2, Calls
  <2>4. \A p \in 1 .. Len(stack) : t[p] = stack[p]
    BY <1>1, <1>2, <1>6, <1>7, <1>8, <1>11, <2>1, <2>2, Calls
  <2>. QED  BY <2>2, <2>3, <2>4
<1>13. q \in Registers
  <2>1. PICK w1 \in Words, w2 \in Words, w3 \in Words :
          w1 = <<"rsp", Len(stack)>> /\ w2 = stack[Len(stack) - i.arg] /\ w3 = <<"realHandler", 0>>
    <3>1. <<"number", e.vector>> \in Words
      <4>0. e.vector \in Int
        BY <1>2, Bases
      <4>1. PICK n \in Int : n = e.vector
        BY <4>0
      <4>2. <<"number", n>> \in Words
        BY DEF Words, Kinds
      <4>. QED  BY <4>1, <4>2
    <3>2. <<"realHandler", 0>> \in Words
      BY DEF Words, Kinds
    <3>3. <<"rsp", Len(stack)>> \in Words
      BY <1>8 DEF Words, Kinds
    <3>. QED  BY <1>4, <1>12, <3>1, <3>2, <3>3
  <2>2. q = [[[regs EXCEPT !["rdi"] = w1] EXCEPT !["rbx"] = w2] EXCEPT !["rax"] = w3]
    BY <1>8, <1>10, <2>1 DEF Registers
  <2>3. PICK r1 \in Registers : r1 = [regs EXCEPT !["rdi"] = w1]
    BY <1>8, Changed
  <2>4. PICK r2 \in Registers : r2 = [r1 EXCEPT !["rbx"] = w2]
    BY <2>3, Changed
  <2>5. [r2 EXCEPT !["rax"] = w3] \in Registers
    BY <2>4, Changed
  <2>. QED  BY <2>2, <2>3, <2>4, <2>5
<1>14. pc' = Location("handler", e.vector, 0)
  BY <1>3, <1>4, <1>12
<1>15. stack' = t /\ regs' = q
  BY <1>3, <1>9, <1>10, Zenon
<1>16. t \in Seq(Words)
  <2>1. Onwards(pc) \in Locations
    BY <1>8, NextPlace DEF Follows
  <2>2. PICK w \in Words : w = <<"rip", Onwards(pc)>>
    BY <2>1 DEF Words, Kinds
  <2>3. t = Append(stack, w)
    BY <1>9, <2>2, Zenon
  <2>. QED  BY <1>8, <2>3
<1>17. pc' \in Locations
  BY <1>5, <1>14, Places
<1>18. \A p \in 1 .. e.rsp : t[p] = stack[p]
  BY <1>5, <1>8, <1>12
<1>19. UNCHANGED <<iflag, saved>>
  BY <1>3
<1>20. IInv'
  BY <1>1, <1>5, <1>12, <1>13, <1>14, <1>15, <1>16, <1>17, <1>18, <1>19, OneStep
<1>. QED  BY <1>14, <1>20 DEF Location

\* The handler returns to the stub.
LEMMA ReturnStep ==
  ASSUME IInv, HandlerReturns
  PROVE  IInv' /\ pc'.at # "crash"
<1>1. pc.at = "handler"
  BY DEF HandlerReturns
<1>2. PICK e \in Interrupts : e = saved[Depth]
  BY <1>1, Running
<1>3. /\ InProgress(e, pc, regs, Len(stack), stack) /\ e.vector \in 0 .. 255
      /\ e.rsp <= Len(stack) /\ e.rsp \in Nat
  BY <1>1, <1>2, Running
<1>4. stack \in Seq(Words) /\ regs \in Registers /\ pc \in Locations /\ saved \in Seq(Interrupts)
  BY DEF IInv, Types
<1>5. PICK t : t = SubSeq(stack, 1, Len(stack) - 1)
  OBVIOUS
<1>6. PICK q : q = regs'
  OBVIOUS
<1>7. /\ stack[Len(stack)] = <<"rip", Location("stub", e.vector, EntryLength(e.vector) + 23)>>
      /\ InProgress(e, Location("stub", e.vector, EntryLength(e.vector) + 23), q, Len(t), t)
      /\ Len(t) = Len(stack) - 1 /\ t \in Seq(Words) /\ e.rsp <= Len(t)
      /\ \A p \in 1 .. Len(t) : t[p] = stack[p]
  <2>1. Taken(stack, 1, t)
    BY <1>5, Zenon DEF Taken
  <2>2. InProgress(e, Location("stub", e.vector, EntryLength(e.vector) + 23), q, Len(t), t)
    BY <1>1, <1>3, <1>4, <2>1, Returns
  <2>3. stack[Len(stack)] = <<"rip", Location("stub", e.vector, EntryLength(e.vector) + 23)>>
    BY <1>1, <1>3, <1>4, <2>1, <2>2, Returns
  <2>4. Len(t) = Len(stack) - 1 /\ t \in Seq(Words) /\ e.rsp <= Len(t)
    BY <1>1, <1>3, <1>4, <2>1, <2>2, Returns
  <2>5. \A p \in 1 .. Len(t) : t[p] = stack[p]
    BY <1>1, <1>3, <1>4, <2>1, <2>2, Returns
  <2>. QED  BY <2>2, <2>3, <2>4, <2>5
<1>8. stack' = t /\ pc' = Target(stack[Len(stack) - 0]) /\ UNCHANGED <<iflag, saved>>
  BY <1>5 DEF HandlerReturns, Drop, Word
<1>9. pc' = Location("stub", e.vector, EntryLength(e.vector) + 23)
  <2>1. Len(stack) - 0 = Len(stack)
    BY <1>4
  <2>2. PICK x : x = Location("stub", e.vector, EntryLength(e.vector) + 23)
    OBVIOUS
  <2>3. stack[Len(stack) - 0] = <<"rip", x>> /\ pc' = Target(stack[Len(stack) - 0])
    BY <1>7, <1>8, <2>1, <2>2
  <2>4. pc' = x
    BY <2>3 DEF Target
  <2>. QED  BY <2>2, <2>4
<1>10. pc' \in Locations
  <2>1. EntryLength(e.vector) + 23 \in Nat
    <3>1. PICK l \in 1 .. 2 : l = EntryLength(e.vector)
      BY Bases, NumbersOf
    <3>. QED  BY <3>1
  <2>. QED  BY <1>3, <1>9, <2>1, Places
<1>11. regs' \in Registers
  <2>1. Depth \in Int
    BY <1>4 DEF Depth
  <2>2. <<"scratch", Depth>> \in Words
    BY <2>1 DEF Words, Kinds
  <2>. QED  BY <1>4, <2>2 DEF HandlerReturns, Registers
<1>12. \A p \in 1 .. e.rsp : t[p] = stack[p]
  BY <1>3, <1>7
<1>13. IInv'
  BY <1>1, <1>2, <1>6, <1>7, <1>8, <1>9, <1>10, <1>11, <1>12, OneStep
<1>. QED  BY <1>9, <1>13 DEF Location

\* The entry counts on an error code where the processor pushes one.
EntryFits(v) == PushesErrorCode(v) => HasErrorCode(v)

\* iretq resumes what the interrupt found, or jumps to an error code that the
\* entry of its vector did not count on.
LEMMA IretqStep ==
  ASSUME IInv, Iretq
  PROVE  /\ IInv'
         /\ EntryFits(Last(saved).vector) =>
              /\ regs' = Last(saved).regs /\ pc' = Last(saved).pc /\ pc' # Crash
              /\ iflag' = Last(saved).iflag /\ Len(stack') = Last(saved).rsp
<1>1. pc.at = "stub"
  BY DEF Iretq, Executes
<1>2. PICK e, i, s : e \in Interrupts /\ s \in -1 .. 40 /\ Runs(e, i, s)
  BY <1>1, Executing
<1>3. i.op = "iretq" /\ saved' = Front(saved) /\ regs' = regs
  BY <1>2 DEF Iretq, Executes, Runs
<1>4. s = 40
  BY <1>2, <1>3 DEF Runs, Comes
<1>5. /\ e = saved[Depth] /\ e.vector \in 0 .. 255 /\ e.rsp <= Len(stack) /\ e.rsp \in Nat
  BY <1>2 DEF Runs
<1>6. InProgress(e, pc, regs, Len(stack), stack)
  BY <1>2 DEF Runs
<1>7. pc.k = EntryLength(e.vector) + 40
  <2>1. pc.k \in 1 .. EntryLength(e.vector) + 40 /\ s = pc.k - EntryLength(e.vector)
    BY <1>2 DEF Runs
  <2>2. EntryLength(e.vector) \in 1 .. 2
    BY <1>5, Numbers
  <2>. QED  BY <1>4, <2>1, <2>2
<1>8. /\ stack \in Seq(Words) /\ regs \in Registers /\ pc \in Locations /\ iflag \in BOOLEAN
      /\ saved \in Seq(Interrupts) /\ Len(saved) <= MaxNest
  BY DEF IInv, Types
<1>9. PICK n \in Nat : Len(saved) = n + 1 /\ Depth = n + 1
  <2>1. Depth \in Nat \ {0}
    BY <1>1, Running
  <2>2. Depth - 1 \in Nat /\ Depth = (Depth - 1) + 1
    BY <2>1
  <2>. QED  BY <2>2 DEF Depth
<1>10. e = saved[n + 1] /\ e = Last(saved)
  BY <1>5, <1>9 DEF Last
<1>11. PICK su \in Seq(Interrupts) : /\ su = Front(saved) /\ Len(su) = n
                                     /\ \A d \in 1 .. n : su[d] = saved[d]
  <2>1. PICK su : su = SubSeq(saved, 1, n)
    OBVIOUS
  <2>2. Len(saved) - 1 = n
    BY <1>9
  <2>3. su = Front(saved)
    BY <2>1, <2>2 DEF Front
  <2>4. (\A d \in 1 .. n : saved[d] \in Interrupts) /\ 1 \in Int /\ n \in Int
    BY <1>8, <1>9
  <2>5. /\ su \in Seq(Interrupts) /\ Len(su) = IF 1 <= n THEN n - 1 + 1 ELSE 0
        /\ \A d \in 1 .. n - 1 + 1 : su[d] = saved[1 + d - 1]
    BY <2>1, <2>4, SubSeqProperties
  <2>. QED  BY <2>3, <2>5
<1>12. /\ FramesIn(saved, pc, regs, stack) /\ NestedIn(saved, stack)
  BY <1>1 DEF IInv
<1>13. /\ PushesErrorCode(e.vector) => (~HasErrorCode(e.vector) <=>
             stack[Len(stack)] = <<"error", e.vector>>)
       /\ (PushesErrorCode(e.vector) => HasErrorCode(e.vector)) =>
             /\ stack[Len(stack)] = <<"rip", e.pc>> /\ stack[Len(stack) - 2] = <<"rflags", e.iflag>>
             /\ stack[Len(stack) - 3] = <<"rsp", e.rsp>>
       /\ regs = e.regs
  BY <1>1, <1>2, <1>6, <1>7, <1>8, AtIretq
<1>14. Len(stack) - 0 = Len(stack)
  BY <1>8
<1>15. CASE EntryFits(e.vector)
  <2>1. /\ stack[Len(stack)] = <<"rip", e.pc>> /\ stack[Len(stack) - 2] = <<"rflags", e.iflag>>
        /\ stack[Len(stack) - 3] = <<"rsp", e.rsp>>
    BY <1>13, <1>15 DEF EntryFits
  <2>2. pc' = e.pc /\ iflag' = e.iflag /\ stack' = SubSeq(stack, 1, e.rsp)
    BY <1>14, <2>1 DEF Iretq, Word
  <2>3. /\ Len(stack') = e.rsp /\ stack' \in Seq(Words)
        /\ \A p \in 1 .. e.rsp : stack'[p] = stack[p]
    <3>1. /\ \A p \in 1 .. e.rsp : stack[p] \in Words
          /\ 1 \in Int /\ e.rsp \in Int
      BY <1>5, <1>8
    <3>2. PICK t : t = SubSeq(stack, 1, e.rsp)
      OBVIOUS
    <3>3. /\ t \in Seq(Words) /\ Len(t) = IF 1 <= e.rsp THEN e.rsp - 1 + 1 ELSE 0
          /\ \A p \in 1 .. e.rsp - 1 + 1 : t[p] = stack[1 + p - 1]
      BY <3>1, <3>2, SubSeqProperties
    <3>. QED  BY <1>5, <2>2, <3>2, <3>3
  <2>4. FramesIn(su, e.pc, e.regs, stack') /\ NestedIn(su, stack')
    <3>1. Entered(su, e, saved)
      BY <1>9, <1>10, <1>11 DEF Entered
    <3>2. FramesIn(su, e.pc, e.regs, stack')
      BY <1>2, <1>8, <1>11, <1>12, <2>3, <3>1, Leaves
    <3>. QED  BY <1>2, <1>8, <1>11, <1>12, <2>3, <3>1, <3>2, Leaves
  <2>5. FramesIn(saved', pc', regs', stack') /\ NestedIn(saved', stack')
    BY <1>3, <1>11, <1>13, <2>2, <2>4
  <2>6. e.pc \in Locations /\ e.iflag \in BOOLEAN
    BY <1>2 DEF Interrupts
  <2>7. Types'
    <3>1. regs' \in Registers /\ pc' \in Locations /\ iflag' \in BOOLEAN
      BY <1>3, <1>8, <2>2, <2>6
    <3>2. saved' \in Seq(Interrupts) /\ Len(saved') <= MaxNest
      BY <1>3, <1>8, <1>9, <1>11, MaxNestAssumption
    <3>. QED  BY <2>3, <3>1, <3>2 DEF Types
  <2>8. pc'.at # "crash" /\ pc' # Crash
    <3>1. saved' \in Seq(Interrupts)
      BY <1>3, <1>11
    <3>. QED  BY <2>5, <3>1, NoCrash, CrashPlace
  <2>9. IInv'
    BY <2>5, <2>7, <2>8 DEF IInv
  <2>. QED  BY <1>3, <1>10, <1>13, <2>2, <2>3, <2>8, <2>9
<1>16. CASE ~EntryFits(e.vector)
  <2>1. stack[Len(stack)] = <<"error", e.vector>>
    BY <1>13, <1>16 DEF EntryFits
  <2>2. pc' = Crash /\ UNCHANGED <<iflag, stack>>
    BY <1>14, <2>1 DEF Iretq, Word
  <2>3. Types'
    <3>1. regs' \in Registers /\ pc' \in Locations
      BY <1>3, <1>8, <2>2, CrashPlace
    <3>2. saved' \in Seq(Interrupts) /\ Len(saved') <= MaxNest
      BY <1>3, <1>8, <1>9, <1>11, MaxNestAssumption
    <3>3. stack' \in Seq(Words) /\ iflag' \in BOOLEAN
      BY <1>8, <2>2
    <3>. QED  BY <3>1, <3>2, <3>3 DEF Types
  <2>4. NestedIn(saved', stack')
    BY <1>3, <1>9, <1>11, <1>12, <2>2 DEF NestedIn
  <2>5. pc'.at = "crash"
    BY <2>2 DEF Crash, Location
  <2>. QED  BY <1>10, <1>16, <2>2, <2>3, <2>4, <2>5 DEF IInv
<1>. QED  BY <1>15, <1>16

\* The processor accepts an interrupt.
LEMMA InterruptStep ==
  ASSUME IInv, NEW v \in Vectors, Interrupt(v)
  PROVE  IInv'
<1>1. PICK e : e = [vector |-> v, regs |-> regs, iflag |-> iflag, pc |-> pc, rsp |-> Len(stack)]
  OBVIOUS
<1>2. /\ stack \in Seq(Words) /\ regs \in Registers /\ pc \in Locations /\ iflag \in BOOLEAN
      /\ saved \in Seq(Interrupts) /\ Len(saved) <= MaxNest
  BY DEF IInv, Types
<1>3. /\ e \in Interrupts /\ Found(e, pc, regs, Len(stack)) /\ e.rsp = Len(stack)
      /\ e.vector = v /\ e.pc = pc /\ e.iflag = iflag /\ e.regs = regs
  BY <1>1, <1>2 DEF Interrupts, Found
<1>4. v \in 0 .. 255
  BY VectorAssumption
<1>5. /\ Arrived(stack, e, stack') /\ iflag' = (iflag /\ v < 32) /\ pc' = Location("stub", v, 1)
      /\ saved' = Append(saved, e) /\ regs' = regs /\ pc # Crash /\ Depth < MaxNest
  BY <1>1, <1>3 DEF Interrupt, Arrived
<1>6. FramesIn(saved, pc, regs, stack) /\ NestedIn(saved, stack)
  BY <1>5 DEF IInv
<1>7. /\ InProgress(e, pc', regs', Len(stack'), stack') /\ stack' \in Seq(Words)
      /\ Len(stack) <= Len(stack') /\ \A p \in 1 .. Len(stack) : stack'[p] = stack[p]
  <2>1. /\ InProgress(e, Location("stub", e.vector, 1), e.regs, Len(stack'), stack')
        /\ stack' \in Seq(Words) /\ Len(stack) <= Len(stack')
        /\ \A p \in 1 .. Len(stack) : stack'[p] = stack[p]
    BY <1>2, <1>3, <1>5, Arrives
  <2>. QED  BY <1>3, <1>5, <2>1
<1>8. PICK n \in Nat : n = Len(saved)
  BY <1>2
<1>9. PICK su \in Seq(Interrupts) : /\ su = saved' /\ Len(su) = n + 1 /\ su[n + 1] = e
                                    /\ \A d \in 1 .. n : su[d] = saved[d]
  <2>1. PICK su : su = Append(saved, e)
    OBVIOUS
  <2>2. /\ su \in Seq(Interrupts) /\ Len(su) = n + 1 /\ su[n + 1] = e
        /\ \A d \in 1 .. n : su[d] = saved[d]
    BY <1>2, <1>3, <1>8, <2>1
  <2>3. su = saved'
    BY <1>5, <2>1
  <2>. QED  BY <2>2, <2>3
<1>10. FramesIn(su, pc', regs', stack') /\ NestedIn(su, stack')
  <2>1. Entered(saved, e, su)
    BY <1>8, <1>9 DEF Entered
  <2>2. e \in Interrupts /\ Found(e, pc, regs, Len(stack))
    BY <1>3
  <2>3. FramesIn(su, pc', regs', stack')
    BY <1>2, <1>6, <1>7, <1>9, <2>1, <2>2, Enters
  <2>. QED  BY <1>2, <1>6, <1>7, <1>9, <2>1, <2>2, <2>3, Enters
<1>11. Types'
  <2>1. pc' \in Locations
    BY <1>4, <1>5, Places
  <2>2. Len(su) <= MaxNest
    BY <1>5, <1>8, <1>9, MaxNestAssumption DEF Depth
  <2>3. iflag' \in BOOLEAN
    BY <1>5
  <2>. QED  BY <1>2, <1>5, <1>7, <1>9, <2>1, <2>2, <2>3 DEF Types
<1>12. pc'.at # "crash"
  BY <1>5 DEF Location
<1>. QED  BY <1>9, <1>10, <1>11, <1>12 DEF IInv

\* Before the first interrupt the boot code runs.
LEMMA InitLemma ==
  ASSUME Init
  PROVE  IInv
<1>1. regs \in Registers
  <2>1. \A r \in General : <<r, 0>> \in Words
    BY Lists DEF Words
  <2>. QED  BY <2>1 DEF Init, Registers
<1>2. stack \in Seq(Words)
  <2>1. <<"frame", 0>> \in Words
    BY DEF Words, Kinds
  <2>2. PICK used \in 0 .. 1 : stack = [k \in 1 .. used |-> <<"frame", 0>>]
    BY DEF Init
  <2>. QED  BY <2>1, <2>2
<1>3. saved = <<>> /\ saved \in Seq(Interrupts) /\ Len(saved) = 0
  BY DEF Init
<1>4. iflag \in BOOLEAN /\ pc = Code /\ Code \in Locations /\ pc.at = "code"
  BY DEF Init, Code, Location, Locations
<1>5. Types
  BY <1>1, <1>2, <1>3, <1>4, MaxNestAssumption DEF Types
<1>6. NestedIn(saved, stack) /\ FramesIn(saved, pc, regs, stack)
  BY <1>3, <1>4 DEF NestedIn, FramesIn, PlaceOf
<1>. QED  BY <1>4, <1>5, <1>6 DEF IInv

\* A step that changes nothing keeps the invariant.
LEMMA Stutters ==
  ASSUME IInv, UNCHANGED vars
  PROVE  IInv'
<1>1. /\ regs' = regs /\ stack' = stack /\ iflag' = iflag /\ pc' = pc /\ saved' = saved
  BY DEF vars
<1>. QED  BY <1>1 DEF IInv, Types

\* Every step keeps the invariant.
LEMMA NextStep ==
  ASSUME IInv, [Next]_vars
  PROVE  IInv'
<1>1. ASSUME NEW v \in Vectors, Interrupt(v)
      PROVE  IInv'
  BY <1>1, InterruptStep
<1>2. CASE PushNumber
  BY <1>2, PushNumberStep
<1>3. CASE Push
  BY <1>3, RegisterStep
<1>4. CASE PushControl
  BY <1>4, ControlStep
<1>5. CASE Call
  BY <1>5, CallStep
<1>6. CASE DropWords
  BY <1>6, DropWordsStep
<1>7. CASE Pop
  BY <1>7, PopStep
<1>8. CASE Iretq
  BY <1>8, IretqStep
<1>9. CASE HandlerReturns
  BY <1>9, ReturnStep
<1>10. CASE UNCHANGED vars
  BY <1>10, Stutters
<1>. QED
  BY <1>1, <1>2, <1>3, <1>4, <1>5, <1>6, <1>7, <1>8, <1>9, <1>10 DEF Next, Execute

\* Every interrupt in progress is as far as its stub has come: the frames of
\* the nested interrupts lie whole on the stack, one above the other.
THEOREM Invariance == Spec => []IInv
<1>1. Init => IInv
  BY InitLemma
<1>2. IInv /\ [Next]_vars => IInv'
  BY NextStep
<1>. QED  BY <1>1, <1>2, PTL DEF Spec

\* Every register is a word, rip stays in the program of its vector and rsp
\* below what the interrupt found.
THEOREM TypeCorrectness == Spec => []TypeOK
<1>1. ASSUME IInv
      PROVE  TypeOK
  <2>1. /\ regs \in Registers /\ iflag \in BOOLEAN /\ pc \in Locations
        /\ saved \in Seq(Interrupts) /\ Len(saved) <= MaxNest
    BY <1>1 DEF IInv, Types
  <2>2. ASSUME NEW r \in General
        PROVE  Len(regs[r]) = 2
    <3>1. regs[r] \in Words
      BY <2>1 DEF Registers
    <3>2. PICK a, b : regs[r] = <<a, b>>
      BY <3>1 DEF Words
    <3>. QED  BY <3>2
  <2>3. pc.at \in {"code", "handler", "stub", "crash"} /\ pc.vector \in 0 .. 255
    BY <2>1 DEF Locations
  <2>4. ASSUME pc.at = "stub"
        PROVE  pc.k \in 1 .. Len(Program(pc.vector))
    <3>1. PICK e, i, s : e \in Interrupts /\ s \in -1 .. 40 /\ Runs(e, i, s)
      BY <1>1, <2>4, Executing
    <3>2. pc.vector = e.vector /\ pc.k \in 1 .. EntryLength(pc.vector) + 40
      BY <3>1 DEF Runs
    <3>3. Len(Program(pc.vector)) = EntryLength(pc.vector) + 40
      BY <2>3, ProgramLemma DEF Part
    <3>. QED  BY <3>2, <3>3
  <2>5. ASSUME Depth > 0
        PROVE  Len(stack) >= Last(saved).rsp
    <3>1. NestedIn(saved, stack) /\ stack \in Seq(Words)
      BY <1>1 DEF IInv, Types
    <3>2. Len(saved) \in 1 .. Len(saved) /\ saved[Len(saved)] \in Interrupts
      BY <2>1, <2>5 DEF Depth
    <3>3. saved[Len(saved)].rsp <= Len(stack) /\ saved[Len(saved)].rsp \in Nat
      BY <3>1, <3>2 DEF NestedIn, Interrupts
    <3>. QED  BY <3>1, <3>3 DEF Last
  <2>. QED  BY <2>1, <2>2, <2>3, <2>4, <2>5 DEF TypeOK, Depth
<1>. QED  BY <1>1, Invariance, PTL

-----------------------------------------------------------------------------
(* What the handler finds *)

\* Which word of registers_ctx a field is (intr.h).
LEMMA FieldNumbers ==
  ASSUME NEW f, NEW n \in 1 .. 28, registers_ctx[n] = f
  PROVE  Field(f) = stack[regs["rdi"][2] + 1 - n]
<1>1. Len(registers_ctx) = 28
  BY DEF registers_ctx
<1>2. \A i, j \in 1 .. 28 : registers_ctx[i] = registers_ctx[j] => i = j
  BY DEF registers_ctx
<1>3. (CHOOSE k \in 1 .. Len(registers_ctx) : registers_ctx[k] = f) = n
  BY <1>1, <1>2
<1>. QED  BY <1>3 DEF Field

\* The fields that describe the interrupt.
LEMMA FieldNames ==
  /\ registers_ctx[22] = "interrupt_vector" /\ registers_ctx[23] = "error_code"
  /\ registers_ctx[24] = "rip" /\ registers_ctx[26] = "rflags" /\ registers_ctx[27] = "rsp"
BY DEF registers_ctx

\* In a handler whose vector's entry fits, word i of the frame is field 29 - i of
\* the structure, and the stack is aligned.
LEMMA HandlerFrame ==
  ASSUME IInv, InHandler, EntryFits(Last(saved).vector)
  PROVE  \E e \in Interrupts :
           /\ e = Last(saved) /\ pc.vector = e.vector
           /\ Len(stack) % 2 = 1
           /\ NumberAt(e.vector) = 7 /\ EntryFits(e.vector)
           /\ \A f, i : /\ i \in 2 .. 7 /\ registers_ctx[29 - i] = f
                        => Field(f) = FrameWord(e, i)
<1>1. pc.at = "handler"
  BY DEF InHandler
<1>2. PICK e \in Interrupts : e = saved[Depth]
  BY <1>1, Running
<1>3. /\ InProgress(e, pc, regs, Len(stack), stack) /\ e.vector \in 0 .. 255
      /\ e = Last(saved)
  BY <1>1, <1>2, Running DEF Last, Depth
<1>4. NumberAt(e.vector) = 7
  <2>1. PICK v \in 0 .. 255 : v = e.vector
    BY <1>3
  <2>2. EntryFits(v)
    BY <1>3, <2>1
  <2>3. NumberAt(v) = 7
    BY <2>2, Numbers, SMTT(40) DEF EntryFits
  <2>. QED  BY <2>1, <2>3
<1>5. /\ pc.vector = e.vector
      /\ \A i \in 1 .. 28 : Base(e) + i <= Len(stack) => stack[Base(e) + i] = FrameWord(e, i)
      /\ Len(stack) = Base(e) + 29
      /\ regs["rdi"] = <<"rsp", Len(stack) - 1>>
  <2>1. /\ pc.vector = e.vector
        /\ \A i \in 1 .. NumberAt(e.vector) + 21 :
             Base(e) + i <= Len(stack) => stack[Base(e) + i] = FrameWord(e, i)
        /\ Len(stack) = Base(e) + NumberAt(e.vector) + 22
        /\ regs["rdi"] = <<"rsp", Len(stack) - 1>>
    BY <1>1, <1>3 DEF InProgress
  <2>2. 7 + 21 = 28
    OBVIOUS
  <2>3. \A i \in 1 .. 28 : Base(e) + i <= Len(stack) => stack[Base(e) + i] = FrameWord(e, i)
    BY <1>4, <2>1, <2>2, Zenon
  <2>4. Base(e) \in Nat
    BY Bases
  <2>5. Base(e) + 7 + 22 = Base(e) + 29
    BY <2>4
  <2>. QED  BY <1>4, <2>1, <2>3, <2>5
<1>6. PICK b \in Nat : b = Base(e) /\ b % 2 = 0
  BY Bases
<1>7. Len(stack) % 2 = 1 /\ Len(stack) = b + 29
  <2>1. Len(stack) = b + 29
    BY <1>5, <1>6
  <2>2. (b + 29) % 2 = 1
    BY <1>6
  <2>. QED  BY <2>1, <2>2, Zenon
<1>8. ASSUME NEW f, NEW i \in 2 .. 7, registers_ctx[29 - i] = f
      PROVE  Field(f) = FrameWord(e, i)
  <2>1. regs["rdi"][2] = b + 28
    BY <1>5, <1>7
  <2>2. Field(f) = stack[regs["rdi"][2] + 1 - (29 - i)]
    <3>1. 29 - i \in 1 .. 28
      OBVIOUS
    <3>. QED  BY <1>8, <3>1, FieldNumbers
  <2>3. regs["rdi"][2] + 1 - (29 - i) = b + i
    BY <2>1
  <2>4. stack[b + i] = FrameWord(e, i)
    <3>1. i \in 1 .. 28 /\ b + i <= Len(stack)
      BY <1>7
    <3>2. \A j \in 1 .. 28 : b + j <= Len(stack) => stack[b + j] = FrameWord(e, j)
      BY <1>5, <1>6
    <3>. QED  BY <3>1, <3>2, Zenon
  <2>. QED  BY <2>2, <2>3, <2>4
<1>9. \A f, i : i \in 2 .. 7 /\ registers_ctx[29 - i] = f => Field(f) = FrameWord(e, i)
  BY <1>8
<1>10. EntryFits(e.vector)
  BY <1>3
<1>. QED  BY <1>3, <1>4, <1>5, <1>7, <1>9, <1>10

\* The fields, where the entry fits.
LEMMA Fields ==
  ASSUME IInv, InHandler, EntryFits(Last(saved).vector)
  PROVE  FrameFits /\ ProcessorFieldsFit /\ AlignedCall
<1>1. PICK e \in Interrupts :
        /\ e = Last(saved) /\ pc.vector = e.vector
        /\ Len(stack) % 2 = 1
        /\ NumberAt(e.vector) = 7 /\ EntryFits(e.vector)
        /\ \A f, i : /\ i \in 2 .. 7 /\ registers_ctx[29 - i] = f
                     => Field(f) = FrameWord(e, i)
  BY HandlerFrame
<1>2. /\ 29 - 7 = 22 /\ 29 - 6 = 23 /\ 29 - 5 = 24 /\ 29 - 3 = 26 /\ 29 - 2 = 27
      /\ {2, 3, 5, 6, 7} \subseteq 2 .. 7
  OBVIOUS
<1>3. /\ Field("interrupt_vector") = FrameWord(e, 7) /\ Field("error_code") = FrameWord(e, 6)
      /\ Field("rip") = FrameWord(e, 5) /\ Field("rflags") = FrameWord(e, 3)
      /\ Field("rsp") = FrameWord(e, 2)
  BY <1>1, <1>2, FieldNames
<1>4. /\ FrameWord(e, 7) = <<"number", e.vector>>
      /\ FrameWord(e, 6) = IF PushesErrorCode(e.vector) THEN <<"error", e.vector>>
                           ELSE <<"number", 0>>
      /\ FrameWord(e, 5) = <<"rip", e.pc>> /\ FrameWord(e, 3) = <<"rflags", e.iflag>>
      /\ FrameWord(e, 2) = <<"rsp", e.rsp>>
  BY <1>1 DEF FrameWord
<1>5. FrameFits
  BY <1>1, <1>3, <1>4 DEF FrameFits
<1>6. ProcessorFieldsFit
  BY <1>1, <1>3, <1>4 DEF ProcessorFieldsFit
<1>7. AlignedCall
  BY <1>1 DEF AlignedCall
<1>. QED  BY <1>5, <1>6, <1>7

-----------------------------------------------------------------------------
(* What the stub does where the entries fit *)

\* Only iretq makes the nesting less deep.
LEMMA OnlyIretqLeaves ==
  ASSUME IInv, [Next]_vars, Len(saved') < Len(saved)
  PROVE  Iretq
<1>1. saved \in Seq(Interrupts)
  BY DEF IInv, Types
<1>2. ~UNCHANGED saved
  BY <1>1
<1>3. ~UNCHANGED vars
  BY <1>2 DEF vars
<1>4. ASSUME NEW v \in Vectors, Interrupt(v)
      PROVE  FALSE
  <2>1. PICK e : saved' = Append(saved, e)
    BY <1>4 DEF Interrupt
  <2>2. Len(saved') = Len(saved) + 1
    BY <1>1, <2>1
  <2>. QED  BY <1>1, <2>2
<1>. QED
  BY <1>2, <1>3, <1>4, Zenon
  DEF Next, Execute, PushNumber, Push, PushControl, Call, DropWords, Pop, HandlerReturns

\* The interrupt that runs is one that occurs.
LEMMA RunningVector ==
  ASSUME IInv, pc.at = "stub" \/ pc.at = "handler"
  PROVE  Last(saved).vector \in Vectors
<1>1. PICK e \in Interrupts : e = saved[Depth]
  BY Running
<1>. QED  BY <1>1 DEF Interrupts, Last, Depth

\* An interrupt is resumed, or its vector's entry does not fit.
LEMMA Resumes ==
  ASSUME IInv, [Next]_vars, Len(saved') < Len(saved), EntryFits(Last(saved).vector)
  PROVE  /\ regs' = Last(saved).regs /\ pc' = Last(saved).pc
         /\ iflag' = Last(saved).iflag /\ Len(stack') = Last(saved).rsp
BY OnlyIretqLeaves, IretqStep

\* Where every entry fits, rip is never taken from a word that is none.
LEMMA NoJumpAway ==
  ASSUME IInv, [Next]_vars, pc # Crash, \A v \in Vectors : EntryFits(v)
  PROVE  pc' # Crash
<1>1. pc.at # "crash" /\ pc \in Locations
  BY DEF IInv, Types
<1>2. ASSUME NEW v \in Vectors, Interrupt(v)
      PROVE  pc' # Crash
  BY <1>2 DEF Interrupt, Location, Crash
<1>3. CASE Onward
  BY <1>1, <1>3 DEF Onward, Locations, Crash, Location
<1>4. CASE Call
  BY <1>4, CallStep, CrashPlace
<1>5. CASE HandlerReturns
  BY <1>5, ReturnStep, CrashPlace
<1>6. CASE Iretq
  <2>1. pc.at = "stub"
    BY <1>6 DEF Iretq, Executes
  <2>2. EntryFits(Last(saved).vector)
    BY <2>1, RunningVector
  <2>. QED  BY <1>6, <2>2, IretqStep
<1>7. CASE UNCHANGED vars
  BY <1>7 DEF vars
<1>. QED
  BY <1>2, <1>3, <1>4, <1>5, <1>6, <1>7
  DEF Next, Execute, PushNumber, Push, PushControl, DropWords, Pop

\* Whatever vectors occur: the handler of an interrupt whose entry counts on the
\* error code that the processor pushes finds its frame (intr.S, intr.h).
THEOREM HandlersFindTheirFrames ==
  Spec => [](InHandler /\ EntryFits(Last(saved).vector)
               => FrameFits /\ ProcessorFieldsFit /\ AlignedCall)
<1>1. IInv => (InHandler /\ EntryFits(Last(saved).vector)
                => FrameFits /\ ProcessorFieldsFit /\ AlignedCall)
  BY Fields
<1>. QED  BY <1>1, Invariance, PTL

\* Whatever vectors occur: an interrupt whose entry counts on the error code that
\* the processor pushes gives back what it interrupted (intr.S, iretq).
THEOREM FittingInterruptsResume ==
  Spec => [][Len(saved') < Len(saved) /\ EntryFits(Last(saved).vector) =>
               /\ regs' = Last(saved).regs /\ pc' = Last(saved).pc
               /\ iflag' = Last(saved).iflag /\ Len(stack') = Last(saved).rsp]_vars
<1>1. IInv /\ [Next]_vars =>
        [Len(saved') < Len(saved) /\ EntryFits(Last(saved).vector) =>
           /\ regs' = Last(saved).regs /\ pc' = Last(saved).pc
           /\ iflag' = Last(saved).iflag /\ Len(stack') = Last(saved).rsp]_vars
  BY Resumes
<1>. QED  BY <1>1, Invariance, PTL DEF Spec

\* No error code is popped as an address where every vector that occurs has an
\* entry that fits: all but 21 and 29 (intr.S, ISR_NOERRCODE and ISR_ERRCODE).
THEOREM NeverCrashes ==
  ASSUME \A v \in Vectors : EntryFits(v)
  PROVE  Spec => [](pc # Crash)
<1>1. Init => pc # Crash
  BY DEF Init, Code, Crash, Location
<1>2. IInv /\ pc # Crash /\ [Next]_vars => (pc # Crash)'
  BY NoJumpAway
<1>. QED  BY <1>1, <1>2, Invariance, PTL DEF Spec

\* A handler is called for its own vector and finds it and its error code in
\* registers_ctx, however deep the interrupts nest.
THEOREM FramesFit ==
  ASSUME \A v \in Vectors : EntryFits(v)
  PROVE  Spec => []FrameFits
<1>1. IInv => FrameFits
  BY Fields, RunningVector DEF FrameFits, InHandler
<1>. QED  BY <1>1, Invariance, PTL

\* The handler finds where the interrupted code was, its flags and its stack.
THEOREM ProcessorFieldsFitAlways ==
  ASSUME \A v \in Vectors : EntryFits(v)
  PROVE  Spec => []ProcessorFieldsFit
<1>1. IInv => ProcessorFieldsFit
  BY Fields, RunningVector DEF ProcessorFieldsFit, InHandler
<1>. QED  BY <1>1, Invariance, PTL

\* The handler is called on an aligned stack, wherever the interrupt struck.
THEOREM AlignedCalls ==
  ASSUME \A v \in Vectors : EntryFits(v)
  PROVE  Spec => []AlignedCall
<1>1. IInv => AlignedCall
  BY Fields, RunningVector DEF AlignedCall, InHandler
<1>. QED  BY <1>1, Invariance, PTL

\* Interrupted code goes on with the registers, the flag and the stack it had,
\* whatever interrupts nest in whatever instruction of the stub.
THEOREM Resumption ==
  ASSUME \A v \in Vectors : EntryFits(v)
  PROVE  Spec => ResumesWhatItInterrupted
<1>1. IInv /\ [Next]_vars =>
        [Len(saved') < Len(saved) =>
           /\ regs' = Last(saved).regs /\ pc' = Last(saved).pc
           /\ iflag' = Last(saved).iflag /\ Len(stack') = Last(saved).rsp]_vars
  <2>1. ASSUME IInv, [Next]_vars, Len(saved') < Len(saved)
        PROVE  EntryFits(Last(saved).vector)
    BY <2>1, OnlyIretqLeaves, RunningVector DEF Iretq, Executes
  <2>. QED  BY <2>1, Resumes
<1>. QED  BY <1>1, Invariance, PTL DEF Spec, ResumesWhatItInterrupted

=============================================================================
