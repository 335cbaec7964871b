------------------------------- MODULE MmuProofs -------------------------------
(***************************************************************************)
(* Proofs about Mmu, for every machine: any set of cores, any number, size *)
(* and depth of tables, any memory map and any direct map offset.          *)
(*                                                                         *)
(* mmu_lock is what makes map and unmap safe: a table is read, found       *)
(* missing, created and linked in several steps.  The first part shows     *)
(* that the lock excludes, also when its holder panics, and that the       *)
(* tables are changed by its holder alone.                                 *)
(*                                                                         *)
(* The second part is about the tables themselves, and what writing one    *)
(* entry does to the tree they form.  Only with a direct map at offset 0   *)
(* (WorkingMachine) does the code ever write one: MmuInvariantProofs shows *)
(* that it does not get as far as its first table with any other.          *)
(*                                                                         *)
(* The witness of the tree is a level for each page of memory, -1 for one  *)
(* that is no table, and an address: the table is on the walk of that      *)
(* address, and of all that agree with it in the slots above the table's   *)
(* level.  So the invariant names no path, and no step has to follow one.  *)
(***************************************************************************)
EXTENDS Mmu, TLAPS, WellFoundedInduction, FiniteSetTheorems

InsideStates == {"walk", "allocate", "zero", "link", "erase", "flush", "unlock"}
BootStates == {"start", "clear pml4", "init"}
States == InsideStates \cup BootStates \cup {"idle", "lock", "panic"}

\* The core is between spinlock_lock and spinlock_unlock of map or unmap.
Inside(c) == pc[c] \in InsideStates

\* No two cores walk and change the tables at once, and the lock is taken as
\* long as one does (mmu.c:150-160, 165-183).
OneCoreInside ==
  /\ \A c \in Cores : Inside(c) => mmu_lock
  /\ \A c, d \in Cores : Inside(c) /\ Inside(d) => c = d

\* Until load_context one core runs, and after it nobody is in init_mmu.
BootInv ==
  /\ ~loaded => \A c \in Cores \ {BootCore} : pc[c] = "idle"
  /\ loaded => \A c \in Cores : pc[c] \notin BootStates

LInv ==
  /\ pc \in [Cores -> States] /\ mmu_lock \in BOOLEAN /\ loaded \in BOOLEAN
  /\ OneCoreInside /\ BootInv

\* It holds when the machine starts.
LEMMA InitInv == Init => LInv
<1>. SUFFICES ASSUME Init PROVE LInv
  OBVIOUS
<1>1. pc = [c \in Cores |-> IF c = BootCore THEN "start" ELSE "idle"]
  BY DEF Init
<1>6. ~loaded
  BY DEF Init
<1>2. \A c \in Cores : ~Inside(c)
  BY <1>1 DEF Inside, InsideStates
<1>3. pc \in [Cores -> States]
  BY <1>1 DEF States, BootStates
<1>4. BootInv
  BY <1>1, <1>6 DEF BootInv
<1>5. mmu_lock \in BOOLEAN /\ loaded \in BOOLEAN
  BY DEF Init
<1>. QED
  BY <1>2, <1>3, <1>4, <1>5 DEF LInv, OneCoreInside

-----------------------------------------------------------------------------
(* What a step does to the lock and to init_mmu *)

Boots(c) ==
  /\ pc[c] \in BootStates
  /\ \E w \in {"clear pml4", "init", "lock", "panic"} : pc' = [pc EXCEPT ![c] = w]
  /\ mmu_lock' = mmu_lock /\ loaded' = loaded

EndsBoot(c) ==
  /\ pc[c] = "init" /\ pc' = [pc EXCEPT ![c] = "idle"]
  /\ loaded' = TRUE /\ mmu_lock' = mmu_lock /\ mem' = mem

Begins(c) ==
  /\ pc[c] = "idle" /\ loaded /\ pc' = [pc EXCEPT ![c] = "lock"]
  /\ mmu_lock' = mmu_lock /\ loaded' = loaded /\ mem' = mem

Takes(c) ==
  /\ pc[c] = "lock" /\ ~mmu_lock /\ pc' = [pc EXCEPT ![c] = "walk"]
  /\ mmu_lock' = TRUE /\ loaded' = loaded /\ mem' = mem

Works(c) ==
  /\ Inside(c)
  /\ \E w \in InsideStates \cup {"panic"} : pc' = [pc EXCEPT ![c] = w]
  /\ mmu_lock' = mmu_lock /\ loaded' = loaded

Gives(c) ==
  /\ pc[c] = "unlock" /\ pc' = [pc EXCEPT ![c] = IF loaded THEN "idle" ELSE "init"]
  /\ mmu_lock' = FALSE /\ loaded' = loaded /\ mem' = mem

Rests == UNCHANGED <<pc, mmu_lock, loaded, mem>>

Control(c) == Boots(c) \/ EndsBoot(c) \/ Begins(c) \/ Takes(c) \/ Works(c) \/ Gives(c)

\* Every step of a core is one of these.
LEMMA StepControl ==
  ASSUME LInv, NEW c \in Cores, Step(c)
  PROVE  Control(c)
<1>1. pc[c] \in States /\ pc = [pc EXCEPT ![c] = pc[c]]
  BY DEF LInv
<1>. USE DEF Goto, boot, locals, seen, owners
<1>2. CASE StartMmu(c)
  BY <1>2 DEF StartMmu, Control, Boots, BootStates
<1>3. CASE ClearPml4(c)
  BY <1>3 DEF ClearPml4, At, Control, Boots, BootStates
<1>4. CASE InitMap(c)
  BY <1>4 DEF InitMap, Control, Boots, BootStates
<1>5. CASE LoadContext(c)
  BY <1>5 DEF LoadContext, Control, EndsBoot
<1>6. CASE Lock(c)
  BY <1>6 DEF Lock, Control, Takes
<1>7. CASE Unlock(c)
  BY <1>7 DEF Unlock, Control, Gives
<1>8. CASE Descend(c)
  BY <1>1, <1>8 DEF Descend, At, Control, Works, Inside, InsideStates
<1>9. CASE AllocTable(c)
  BY <1>9 DEF AllocTable, Control, Works, Inside, InsideStates
<1>10. CASE AllocFails(c)
  BY <1>10 DEF AllocFails, Control, Works, Inside, InsideStates
<1>11. CASE ZeroTable(c)
  BY <1>11 DEF ZeroTable, At, Control, Works, Inside, InsideStates
<1>12. CASE LinkTable(c)
  BY <1>12 DEF LinkTable, Control, Works, Inside, InsideStates
<1>13. CASE WriteEntry(c)
  BY <1>13 DEF WriteEntry, At, Control, Works, Inside, InsideStates
<1>14. CASE FreePage(c)
  BY <1>14 DEF FreePage, At, Control, Works, Inside, InsideStates
<1>15. CASE EraseEntry(c)
  BY <1>15 DEF EraseEntry, Control, Works, Inside, InsideStates
<1>16. CASE tlb_flush(c)
  BY <1>16 DEF tlb_flush, Control, Works, Inside, InsideStates
<1>. QED
  BY <1>2, <1>3, <1>4, <1>5, <1>6, <1>7, <1>8, <1>9, <1>10, <1>11, <1>12, <1>13, <1>14,
     <1>15, <1>16 DEF Step

\* The other steps leave lock and pc alone, or are the beginning of a call.
LEMMA NextControl ==
  ASSUME LInv, [Next]_vars
  PROVE  Rests \/ \E c \in Cores : Control(c)
<1>1. ASSUME NEW c \in Cores, NEW r \in Requests, Call(c, r)
      PROVE  Begins(c)
  BY <1>1 DEF Call, Goto, boot, Begins
<1>2. ASSUME NEW c \in Cores, NEW va \in CallerPages, Fill(c, va)
      PROVE  Rests
  BY <1>2 DEF Fill, boot, locals, Rests
<1>3. CASE GetPage
  BY <1>3 DEF GetPage, boot, locals, Rests
<1>4. ASSUME UNCHANGED vars
      PROVE  Rests
  BY <1>4 DEF vars, boot, locals, Rests
<1>5. ASSUME NEW c \in Cores, Spin(c) \/ Halt(c)
      PROVE  Rests
  BY <1>4, <1>5 DEF Spin, Halt
<1>. QED
  BY <1>1, <1>2, <1>3, <1>4, <1>5, StepControl DEF Next, Control

-----------------------------------------------------------------------------
(* The invariant *)

\* One core moves, the others stay.
LEMMA Moved ==
  ASSUME pc \in [Cores -> States], NEW c \in Cores, NEW w \in States, pc' = [pc EXCEPT ![c] = w]
  PROVE  /\ pc' \in [Cores -> States]
         /\ pc'[c] = w /\ \A d \in Cores \ {c} : pc'[d] = pc[d]
OBVIOUS

\* Each of the six keeps the invariant.
LEMMA ControlInv ==
  ASSUME LInv, NEW c \in Cores, Control(c)
  PROVE  LInv'
<1>. USE DEF OneCoreInside, BootInv, Inside, InsideStates, BootStates, States
<1>1. /\ pc \in [Cores -> States] /\ mmu_lock \in BOOLEAN /\ loaded \in BOOLEAN
      /\ OneCoreInside /\ BootInv
  BY DEF LInv
<1>2. CASE Boots(c)
  <2>1. PICK w \in {"clear pml4", "init", "lock", "panic"} : pc' = [pc EXCEPT ![c] = w]
    BY <1>2 DEF Boots
  <2>2. /\ pc' \in [Cores -> States]
        /\ pc'[c] = w /\ \A d \in Cores \ {c} : pc'[d] = pc[d]
    BY <1>1, <2>1, Moved
  <2>3. ~loaded /\ c = BootCore
    BY <1>1, <1>2 DEF Boots
  <2>4. (mmu_lock' <=> mmu_lock) /\ mmu_lock' \in BOOLEAN
    BY <1>1, <1>2 DEF Boots
  <2>5. ~loaded' /\ loaded' \in BOOLEAN
    BY <1>1, <1>2, <2>3 DEF Boots
  <2>6. OneCoreInside'
    BY <1>1, <2>2, <2>4
  <2>7. BootInv'
    BY <1>1, <2>2, <2>3, <2>5
  <2>. QED  BY <2>2, <2>4, <2>5, <2>6, <2>7 DEF LInv
<1>3. CASE EndsBoot(c)
  <2>1. /\ pc' \in [Cores -> States]
        /\ pc'[c] = "idle" /\ \A d \in Cores \ {c} : pc'[d] = pc[d]
    BY <1>1, <1>3, Moved DEF EndsBoot
  <2>2. ~loaded /\ c = BootCore
    BY <1>1, <1>3 DEF EndsBoot
  <2>3. (mmu_lock' <=> mmu_lock) /\ mmu_lock' \in BOOLEAN
    BY <1>1, <1>3 DEF EndsBoot
  <2>4. loaded' /\ loaded' \in BOOLEAN
    BY <1>3 DEF EndsBoot
  <2>5. OneCoreInside'
    BY <1>1, <2>1, <2>3
  <2>6. BootInv'
    BY <1>1, <2>1, <2>2, <2>4
  <2>. QED  BY <2>1, <2>3, <2>4, <2>5, <2>6 DEF LInv
<1>4. CASE Begins(c)
  <2>1. /\ pc' \in [Cores -> States]
        /\ pc'[c] = "lock" /\ \A d \in Cores \ {c} : pc'[d] = pc[d]
    BY <1>1, <1>4, Moved DEF Begins
  <2>2. (mmu_lock' <=> mmu_lock) /\ mmu_lock' \in BOOLEAN
    BY <1>1, <1>4 DEF Begins
  <2>3. loaded /\ loaded' /\ loaded' \in BOOLEAN
    BY <1>1, <1>4 DEF Begins
  <2>4. OneCoreInside'
    BY <1>1, <2>1, <2>2
  <2>5. BootInv'
    BY <1>1, <2>1, <2>3
  <2>. QED  BY <2>1, <2>2, <2>3, <2>4, <2>5 DEF LInv
<1>5. CASE Takes(c)
  <2>1. /\ pc' \in [Cores -> States]
        /\ pc'[c] = "walk" /\ \A d \in Cores \ {c} : pc'[d] = pc[d]
    BY <1>1, <1>5, Moved DEF Takes
  <2>2. ~mmu_lock /\ pc[c] = "lock"
    BY <1>5 DEF Takes
  <2>3. mmu_lock' /\ mmu_lock' \in BOOLEAN
    BY <1>5 DEF Takes
  <2>4. (loaded' <=> loaded) /\ loaded' \in BOOLEAN
    BY <1>1, <1>5 DEF Takes
  <2>5. OneCoreInside'
    BY <1>1, <2>1, <2>2, <2>3
  <2>6. BootInv'
    BY <1>1, <2>1, <2>2, <2>4
  <2>. QED  BY <2>1, <2>3, <2>4, <2>5, <2>6 DEF LInv
<1>6. CASE Works(c)
  <2>1. PICK w \in InsideStates \cup {"panic"} : pc' = [pc EXCEPT ![c] = w]
    BY <1>6 DEF Works
  <2>2. /\ pc' \in [Cores -> States]
        /\ pc'[c] = w /\ \A d \in Cores \ {c} : pc'[d] = pc[d]
    BY <1>1, <2>1, Moved
  <2>3. (mmu_lock' <=> mmu_lock) /\ mmu_lock' \in BOOLEAN
    BY <1>1, <1>6 DEF Works
  <2>4. (loaded' <=> loaded) /\ loaded' \in BOOLEAN
    BY <1>1, <1>6 DEF Works
  <2>5. Inside(c)
    BY <1>6 DEF Works
  <2>6. OneCoreInside'
    BY <1>1, <2>2, <2>3, <2>5
  <2>7. BootInv'
    BY <1>1, <2>2, <2>4, <2>5
  <2>. QED  BY <2>2, <2>3, <2>4, <2>6, <2>7 DEF LInv
<1>7. CASE Gives(c)
  <2>1. pc[c] = "unlock" /\ ~mmu_lock' /\ mmu_lock' \in BOOLEAN
    BY <1>7 DEF Gives
  <2>2. (loaded' <=> loaded) /\ loaded' \in BOOLEAN
    BY <1>1, <1>7 DEF Gives
  <2>3. PICK w \in {"idle", "init"} :
          pc' = [pc EXCEPT ![c] = w] /\ (w = "idle" <=> loaded)
    BY <1>7 DEF Gives
  <2>4. /\ pc' \in [Cores -> States]
        /\ pc'[c] = w /\ \A d \in Cores \ {c} : pc'[d] = pc[d]
    BY <1>1, <2>3, Moved
  <2>5. OneCoreInside'
    BY <1>1, <2>1, <2>4
  <2>6. BootInv'
    BY <1>1, <2>1, <2>2, <2>3, <2>4
  <2>. QED  BY <2>1, <2>2, <2>4, <2>5, <2>6 DEF LInv
<1>. QED
  BY <1>2, <1>3, <1>4, <1>5, <1>6, <1>7 DEF Control

\* So does every step.
LEMMA NextInv == LInv /\ [Next]_vars => LInv'
<1>1. LInv /\ Rests => LInv'
  BY DEF Rests, LInv, OneCoreInside, BootInv, Inside
<1>. QED
  BY <1>1, NextControl, ControlInv

\* The invariant holds in every reachable state.
THEOREM Invariance == Spec => []LInv
BY InitInv, NextInv, PTL DEF Spec

\* mmu_lock excludes: two cores are never inside map or unmap at once, be it
\* that one has panicked there, when the others wait.
THEOREM LockExcludes == Spec => []OneCoreInside
<1>1. LInv => OneCoreInside
  BY DEF LInv
<1>. QED  BY <1>1, Invariance, PTL

\* After load_context memory that holds tables, or will, is written by one
\* core at a time, the one that has the lock, while all others stand still:
\* no other core's walk that creates tables, nor its map or unmap, overlaps.
OnlyTheHolderWrites ==
  [][loaded /\ mem' # mem =>
       \E c \in Cores : /\ Inside(c) /\ mmu_lock
                        /\ \A d \in Cores \ {c} : ~Inside(d) /\ pc'[d] = pc[d]]_vars

\* Nothing writes to the tables without the lock.
THEOREM TablesChangeUnderTheLock == Spec => OnlyTheHolderWrites
<1>. DEFINE A == loaded /\ mem' # mem =>
       \E c \in Cores : /\ Inside(c) /\ mmu_lock
                        /\ \A d \in Cores \ {c} : ~Inside(d) /\ pc'[d] = pc[d]
<1>1. ASSUME LInv, [Next]_vars, loaded, mem' # mem
      PROVE  \E c \in Cores : /\ Inside(c) /\ mmu_lock
                              /\ \A d \in Cores \ {c} : ~Inside(d) /\ pc'[d] = pc[d]
  <2>1. PICK c \in Cores : Control(c)
    BY <1>1, NextControl DEF Rests
  <2>2. Works(c)
    BY <1>1, <2>1 DEF Control, Boots, EndsBoot, Begins, Takes, Gives, LInv, BootInv
  <2>. QED
    BY <1>1, <2>2 DEF Works, LInv, OneCoreInside
<1>2. LInv /\ [Next]_vars => [A]_vars
  BY <1>1
<1>. QED  BY <1>2, Invariance, PTL DEF Spec, OnlyTheHolderWrites

-----------------------------------------------------------------------------
(* The machines *)

Pages == 0 .. WORD - 1
Entries == [pa : Pages, flags : SUBSET Bits]
Tops == -1 .. Depth - 1

\* The pages that the calls of init_mmu map.
BootPages == {InitCalls[n].va : n \in 1 .. Len(InitCalls)}

\* The pages that are mapped are canonical, the tables tell them apart, and
\* callers map others than init_mmu.
Mappable ==
  /\ \A a \in Ram \cup CallerPages : Canonical(a)
  /\ BootPages \cap CallerPages = {}
  /\ \A a, b \in BootPages \cup CallerPages : a # b => \E l \in Levels : Slot(a, l) # Slot(b, l)

\* The direct map is the identity as well: no machine the boot loader sets up,
\* but the only one on which mmu.c finds its tables again (OffsetStopsBoot).
WorkingMachine == HHDM = 0 /\ Mappable

-----------------------------------------------------------------------------
(* The tree *)

\* The walks of a and b go through the same slots, from level l up.
Agree(a, b, l) == \A k \in Levels : k >= l => Slot(a, k) = Slot(b, k)

\* Page f is the table of level l on the walk of a.
On(lv, via, f, l, a) == f \in Ram /\ lv[f] = l /\ Agree(a, via[f], l + 1)

\* Slot s of table f leads to g.
Leads(m, f, s, g) == Present(m[f][s]) /\ m[f][s].pa % MASK = g

\* Table g is below slot s of table f.
Child(lv, via, f, s, g) ==
  /\ g \in Ram /\ lv[g] = lv[f] - 1
  /\ Agree(via[g], via[f], lv[f] + 1) /\ Slot(via[g], lv[f]) = s

Tree(m, root, lv, via) ==
  /\ lv \in [Ram -> Tops] /\ via \in [Ram -> Pages]
  /\ root \in Ram /\ lv[root] = Depth - 1
  /\ \A f, g \in Ram : lv[f] >= 0 /\ On(lv, via, f, lv[f], via[g]) /\ lv[g] = lv[f] => f = g
  /\ \A f \in Ram, s \in Slots :
       lv[f] > 0 /\ Present(m[f][s]) => Child(lv, via, f, s, m[f][s].pa % MASK)
  /\ \A g \in Ram : lv[g] \in 0 .. Depth - 2 =>
       \E f \in Ram, s \in Slots : Child(lv, via, f, s, g) /\ Leads(m, f, s, g)

-----------------------------------------------------------------------------
(* Numbers and sets *)

\* A set of natural numbers has a least one.
LEMMA Least ==
  ASSUME NEW S \in SUBSET Nat, S # {}
  PROVE  \E n \in S : \A m \in S : n <= m
<1>1. PICK R : IsWellFoundedOn(R, Nat) /\ R = {p \in Nat \X Nat : p[1] < p[2]}
  BY NatLessThanWellFounded DEF OpToRel
<1>2. PICK x \in S : \A y \in S : ~(<<y, x>> \in R)
  BY <1>1, WFMin
<1>3. ASSUME NEW m \in S
      PROVE  x <= m
  <2>1. <<m, x>> \notin R
    BY <1>2
  <2>. QED  BY <1>1, <2>1
<1>. QED  BY <1>3

\* The levels are numbered from the page tables up to the root.
LEMMA LevelNumbers ==
  /\ Depth \in Nat \ {0} /\ Levels = 0 .. Depth - 1 /\ 0 \in Levels /\ Depth - 1 \in Levels
BY MmuAssumption DEF Levels

\* What holds at the root, and at each level if it does at the one above, holds
\* at all levels.
LEMMA LevelInduction ==
  ASSUME NEW S \in SUBSET Levels, Depth - 1 \in S,
         \A l \in Levels : l + 1 \in S => l \in S
  PROVE  S = Levels
<1>1. PICK D \in Nat : D = Depth - 1 /\ Levels = 0 .. D
  BY LevelNumbers
<1>2. SUFFICES ASSUME Levels \ S # {}
               PROVE  FALSE
  OBVIOUS
<1>3. PICK T : T = {D - l : l \in Levels \ S}
  OBVIOUS
<1>4. T \in SUBSET Nat /\ T # {}
  BY <1>1, <1>2, <1>3
<1>5. PICK n \in T : \A m \in T : n <= m
  BY <1>4, Least
<1>6. PICK l \in Levels \ S : n = D - l
  BY <1>3, <1>5
<1>7. l # D /\ l + 1 \in Levels
  BY <1>1, <1>6
<1>8. D - (l + 1) \in T
  BY <1>3, <1>6, <1>7
<1>9. D - (l + 1) < n
  BY <1>1, <1>6
<1>. QED  BY <1>1, <1>4, <1>5, <1>6, <1>8, <1>9

\* Pages of memory are no more than an entry has room for.
LEMMA RamPages ==
  /\ Ram \subseteq 1 .. MASK - 1 /\ Ram \subseteq Pages /\ Ram \subseteq Nat /\ Ram \subseteq Physical
  /\ \A f \in Ram : f % MASK = f /\ f % WORD = f
  /\ MASK \in Nat \ {0} /\ WORD \in Nat \ {0} /\ MASK <= WORD
<1>1. MASK \in Nat \ {0} /\ WORD \in Nat \ {0} /\ MASK <= WORD /\ Physical \subseteq 1 .. MASK - 1
  BY MmuAssumption
<1>2. Ram \subseteq Physical
  BY DEF Ram, Physical
<1>3. Ram \subseteq 1 .. MASK - 1 /\ Ram \subseteq Pages /\ Ram \subseteq Nat
  BY <1>1, <1>2 DEF Pages
<1>4. ASSUME NEW f \in Ram
      PROVE  f % MASK = f /\ f % WORD = f
  <2>1. f \in 0 .. MASK - 1 /\ f \in 0 .. WORD - 1
    BY <1>1, <1>3
  <2>. QED  BY <1>1, <2>1
<1>. QED  BY <1>1, <1>2, <1>3, <1>4

\* A page number has a slot in the tables of each level.
LEMMA SlotType ==
  ASSUME NEW a \in Pages, NEW l \in Levels
  PROVE  Slot(a, l) \in Slots
<1>1. PICK p \in Nat \ {0} : p = Fanout ^ l
  BY PowerAssumption
<1>2. Fanout \in Nat \ {0} /\ a \in Nat
  BY MmuAssumption DEF Pages
<1>3. (a \div p) \in Int
  BY <1>1, <1>2
<1>4. (a \div p) % Fanout \in 0 .. Fanout - 1
  BY <1>2, <1>3
<1>. QED  BY <1>1, <1>4 DEF Slot, Slots

\* What a word and an entry keep of a number.
LEMMA Masked ==
  ASSUME NEW x \in Nat
  PROVE  x % MASK \in 0 .. MASK - 1 /\ x % WORD \in Pages
BY RamPages DEF Pages

-----------------------------------------------------------------------------
(* Walks in a tree *)

\* To agree is an equivalence, and who agrees from a level up does from the next.
LEMMA Agreement ==
  ASSUME NEW l \in Int
  PROVE  /\ \A a : Agree(a, a, l)
         /\ \A a, b : Agree(a, b, l) => Agree(b, a, l) /\ Agree(a, b, l + 1)
         /\ \A a, b, c : Agree(a, b, l) /\ Agree(b, c, l) => Agree(a, c, l)
         /\ \A a, b : Agree(a, b, l + 1) /\ Slot(a, l) = Slot(b, l) => Agree(a, b, l)
         /\ \A a, b : Agree(a, b, l) /\ l \in Levels => Slot(a, l) = Slot(b, l)
BY LevelNumbers DEF Agree

\* A walk has one table of each level.
LEMMA OneTable ==
  ASSUME NEW m, NEW root, NEW lv, NEW via, Tree(m, root, lv, via),
         NEW l \in Levels, NEW a, NEW f, On(lv, via, f, l, a), NEW g, On(lv, via, g, l, a)
  PROVE  f = g
<1>1. Agree(via[g], via[f], l + 1)
  <2>1. Agree(a, via[f], l + 1) /\ Agree(a, via[g], l + 1) /\ l + 1 \in Int
    BY LevelNumbers DEF On
  <2>. QED  BY <2>1, Agreement
<1>2. f \in Ram /\ g \in Ram /\ lv[f] = l /\ lv[g] = l /\ l >= 0
  BY LevelNumbers DEF On
<1>. QED  BY <1>1, <1>2 DEF Tree, On

\* It begins at the root.
LEMMA AtRoot ==
  ASSUME NEW m, NEW root, NEW lv, NEW via, Tree(m, root, lv, via), NEW a
  PROVE  On(lv, via, root, Depth - 1, a)
BY LevelNumbers DEF Tree, On, Agree

\* It goes on where the entry of its slot leads.
LEMMA Down ==
  ASSUME NEW m, NEW root, NEW lv, NEW via, Tree(m, root, lv, via),
         NEW l \in Levels, l > 0, NEW a \in Pages, NEW f, On(lv, via, f, l, a),
         Present(m[f][Slot(a, l)])
  PROVE  On(lv, via, m[f][Slot(a, l)].pa % MASK, l - 1, a) /\ l - 1 \in Levels
<1>1. f \in Ram /\ lv[f] = l /\ Agree(a, via[f], l + 1) /\ Slot(a, l) \in Slots
  BY SlotType DEF On
<1>2. PICK g : g = m[f][Slot(a, l)].pa % MASK
  OBVIOUS
<1>3. Child(lv, via, f, Slot(a, l), g)
  BY <1>1, <1>2 DEF Tree
<1>4. g \in Ram /\ lv[g] = l - 1 /\ Agree(via[g], via[f], l + 1) /\ Slot(via[g], l) = Slot(a, l)
  BY <1>1, <1>3 DEF Child
<1>5. Agree(a, via[g], l)
  <2>1. l \in Int /\ l + 1 \in Int
    BY LevelNumbers
  <2>2. Agree(a, via[g], l + 1)
    BY <1>1, <1>4, <2>1, Agreement
  <2>. QED  BY <1>4, <2>1, <2>2, Agreement
<1>6. (l - 1) + 1 = l /\ l - 1 \in Levels
  BY LevelNumbers
<1>. QED  BY <1>2, <1>4, <1>5, <1>6 DEF On

\* It has come from the entry of its slot in the table above.
LEMMA Up ==
  ASSUME NEW m, NEW root, NEW lv, NEW via, Tree(m, root, lv, via),
         NEW l \in Levels, l + 1 \in Levels, NEW a \in Pages, NEW g, On(lv, via, g, l, a)
  PROVE  \E f \in Ram : On(lv, via, f, l + 1, a) /\ Leads(m, f, Slot(a, l + 1), g)
<1>1. g \in Ram /\ lv[g] = l /\ Agree(a, via[g], l + 1)
  BY DEF On
<1>2. l \in 0 .. Depth - 2 /\ l + 1 \in Int /\ l + 1 + 1 \in Int
  BY LevelNumbers
<1>3. PICK f \in Ram, s \in Slots : Child(lv, via, f, s, g) /\ Leads(m, f, s, g)
  BY <1>1, <1>2 DEF Tree
<1>4. lv[f] = l + 1
  <2>1. lv[f] \in Int /\ lv[g] = lv[f] - 1
    BY <1>3 DEF Child, Tree, Tops
  <2>. QED  BY <1>1, <2>1
<1>5. Agree(via[g], via[f], l + 1 + 1) /\ Slot(via[g], l + 1) = s
  BY <1>3, <1>4 DEF Child
<1>6. Agree(a, via[f], l + 1 + 1) /\ Slot(a, l + 1) = s
  BY <1>1, <1>2, <1>5, Agreement
<1>. QED  BY <1>3, <1>4, <1>6 DEF On

\* The tables of a walk, as Stored computes them.
BelowIn(m, f, s) == {m[g][s].pa % MASK : g \in {h \in Ram \cap {f} : Present(m[h][s])}}

Follow(m, root, a, t) ==
  t = [l \in Levels |->
         IF l = Depth - 1 THEN {root % MASK}
         ELSE UNION {BelowIn(m, f, Slot(a, l + 1)) : f \in t[l + 1]}]

WalkTables(m, root, a) == CHOOSE t : Follow(m, root, a, t)

StoredIn(m, root, a) ==
  LET entries == {m[f][Slot(a, 0)] : f \in WalkTables(m, root, a)[0] \cap Ram}
  IN IF entries = {} THEN Zero ELSE CHOOSE e \in entries : TRUE

\* Stored is a function of memory and of the root.
LEMMA StoredNow ==
  ASSUME NEW a
  PROVE  Stored(a) = StoredIn(mem, page_map.cr3_paddr, a)
BY DEF Stored, StoredIn, WalkTables, Follow, Below, BelowIn

\* The tables of a level on the walk of a.
Of(lv, via, l, a) == {f \in Ram : On(lv, via, f, l, a)}

\* In a tree the tables on the walk are those whose addresses agree with it.
LEMMA WalkIsFollowed ==
  ASSUME NEW m, NEW root, NEW lv, NEW via, Tree(m, root, lv, via), NEW a \in Pages
  PROVE  Follow(m, root, a, [l \in Levels |-> Of(lv, via, l, a)])
<1>1. PICK t : t = [l \in Levels |-> Of(lv, via, l, a)]
  OBVIOUS
<1>2. Of(lv, via, Depth - 1, a) = {root % MASK}
  <2>1. On(lv, via, root, Depth - 1, a) /\ root \in Ram /\ root % MASK = root
    BY AtRoot, RamPages DEF Tree
  <2>2. \A f : On(lv, via, f, Depth - 1, a) => f = root
    BY <2>1, OneTable, LevelNumbers
  <2>. QED  BY <2>1, <2>2 DEF Of
<1>3. ASSUME NEW l \in Levels, l # Depth - 1
      PROVE  Of(lv, via, l, a) = UNION {BelowIn(m, f, Slot(a, l + 1)) : f \in t[l + 1]}
  <2>1. l + 1 \in Levels /\ l + 1 > 0 /\ (l + 1) - 1 = l
    BY <1>3, LevelNumbers
  <2>2. t[l + 1] = Of(lv, via, l + 1, a)
    BY <1>1, <2>1
  <2>3. \A f, g : g \in BelowIn(m, f, Slot(a, l + 1)) <=>
                    f \in Ram /\ Leads(m, f, Slot(a, l + 1), g)
    BY DEF BelowIn, Leads
  <2>4. ASSUME NEW g \in Of(lv, via, l, a)
        PROVE  \E f \in t[l + 1] : g \in BelowIn(m, f, Slot(a, l + 1))
    <3>1. On(lv, via, g, l, a)
      BY <2>4 DEF Of
    <3>2. PICK f \in Ram : On(lv, via, f, l + 1, a) /\ Leads(m, f, Slot(a, l + 1), g)
      BY <2>1, <3>1, Up
    <3>. QED  BY <2>2, <2>3, <3>2 DEF Of
  <2>5. ASSUME NEW f \in t[l + 1], NEW g \in BelowIn(m, f, Slot(a, l + 1))
        PROVE  g \in Of(lv, via, l, a)
    <3>1. On(lv, via, f, l + 1, a)
      BY <2>2, <2>5 DEF Of
    <3>2. Leads(m, f, Slot(a, l + 1), g)
      BY <2>3, <2>5
    <3>3. On(lv, via, g, l, a)
      BY <2>1, <3>1, <3>2, Down DEF Leads
    <3>. QED  BY <3>3 DEF Of, On
  <2>. QED  BY <2>4, <2>5
<1>4. t = [l \in Levels |->
             IF l = Depth - 1 THEN {root % MASK}
             ELSE UNION {BelowIn(m, f, Slot(a, l + 1)) : f \in t[l + 1]}]
  BY <1>1, <1>2, <1>3
<1>. QED  BY <1>1, <1>4 DEF Follow

\* There is one way to follow an address.
LEMMA OneWalk ==
  ASSUME NEW m, NEW root, NEW a, NEW t, NEW u, Follow(m, root, a, t), Follow(m, root, a, u)
  PROVE  t = u
<1>1. PICK S : S = {l \in Levels : t[l] = u[l]}
  OBVIOUS
<1>2. Depth - 1 \in S
  BY <1>1, LevelNumbers DEF Follow
<1>3. ASSUME NEW l \in Levels, l + 1 \in S
      PROVE  l \in S
  <2>1. l # Depth - 1 /\ t[l + 1] = u[l + 1]
    BY <1>1, <1>3, LevelNumbers
  <2>2. /\ t[l] = UNION {BelowIn(m, f, Slot(a, l + 1)) : f \in t[l + 1]}
        /\ u[l] = UNION {BelowIn(m, f, Slot(a, l + 1)) : f \in u[l + 1]}
    BY <2>1 DEF Follow
  <2>3. t[l] = u[l]
    BY <2>1, <2>2, Zenon
  <2>. QED  BY <1>1, <2>3
<1>4. S \in SUBSET Levels
  BY <1>1
<1>5. S = Levels
  BY <1>2, <1>3, <1>4, LevelInduction
<1>6. \A l \in Levels : t[l] = u[l]
  BY <1>1, <1>5
<1>. QED  BY <1>6 DEF Follow

\* So Stored finds the entry of the page table, if the walk gets there.
LEMMA StoredEntry ==
  ASSUME NEW m, NEW root, NEW lv, NEW via, Tree(m, root, lv, via), NEW a \in Pages
  PROVE  /\ \A f : On(lv, via, f, 0, a) => StoredIn(m, root, a) = m[f][Slot(a, 0)]
         /\ (\A f : ~On(lv, via, f, 0, a)) => StoredIn(m, root, a) = Zero
<1>1. PICK t : t = [l \in Levels |-> Of(lv, via, l, a)]
  OBVIOUS
<1>2. Follow(m, root, a, t)
  BY <1>1, WalkIsFollowed
<1>3. Follow(m, root, a, WalkTables(m, root, a))
  BY <1>2 DEF WalkTables
<1>4. WalkTables(m, root, a)[0] = Of(lv, via, 0, a)
  <2>1. WalkTables(m, root, a) = t
    BY <1>2, <1>3, OneWalk
  <2>. QED  BY <1>1, <2>1, LevelNumbers
<1>5. ASSUME NEW f, On(lv, via, f, 0, a)
      PROVE  StoredIn(m, root, a) = m[f][Slot(a, 0)]
  <2>1. f \in Ram
    BY <1>5 DEF On
  <2>2. \A g : On(lv, via, g, 0, a) => g = f
    BY <1>5, OneTable, LevelNumbers
  <2>3. Of(lv, via, 0, a) = {f}
    BY <1>5, <2>1, <2>2 DEF Of
  <2>4. {m[g][Slot(a, 0)] : g \in WalkTables(m, root, a)[0] \cap Ram} = {m[f][Slot(a, 0)]}
    BY <1>4, <2>1, <2>3
  <2>. QED  BY <2>4 DEF StoredIn
<1>6. ASSUME \A f : ~On(lv, via, f, 0, a)
      PROVE  StoredIn(m, root, a) = Zero
  <2>1. Of(lv, via, 0, a) = {}
    BY <1>6 DEF Of
  <2>. QED  BY <1>4, <2>1 DEF StoredIn
<1>. QED  BY <1>5, <1>6

-----------------------------------------------------------------------------
(* What a write does to the tree *)

\* Memory n is memory m with entry e in slot s of page f.
Put(m, f, s, e, n) ==
  \A g \in Ram, k \in Slots : n[g][k] = IF g = f /\ k = s THEN e ELSE m[g][k]

\* What is written to a page that is no table changes nothing.
LEMMA ElsewhereWritten ==
  ASSUME NEW m, NEW root, NEW lv, NEW via, Tree(m, root, lv, via), NEW n, NEW b, lv[b] = -1,
         \A g \in Ram : g # b => n[g] = m[g]
  PROVE  /\ Tree(n, root, lv, via)
         /\ \A a \in Pages : StoredIn(n, root, a) = StoredIn(m, root, a)
<1>1. /\ lv \in [Ram -> Tops] /\ via \in [Ram -> Pages]
      /\ root \in Ram /\ lv[root] = Depth - 1
      /\ \A f, g \in Ram : lv[f] >= 0 /\ On(lv, via, f, lv[f], via[g]) /\ lv[g] = lv[f] => f = g
  BY DEF Tree
<1>2. \A f \in Ram : lv[f] >= 0 => n[f] = m[f]
  OBVIOUS
<1>3. ASSUME NEW f \in Ram, NEW s \in Slots, lv[f] > 0, Present(n[f][s])
      PROVE  Child(lv, via, f, s, n[f][s].pa % MASK)
  <2>1. n[f] = m[f]
    BY <1>1, <1>2, <1>3 DEF Tops
  <2>. QED  BY <1>3, <2>1 DEF Tree
<1>4. ASSUME NEW g \in Ram, lv[g] \in 0 .. Depth - 2
      PROVE  \E f \in Ram, s \in Slots : Child(lv, via, f, s, g) /\ Leads(n, f, s, g)
  <2>1. PICK f \in Ram, s \in Slots : Child(lv, via, f, s, g) /\ Leads(m, f, s, g)
    BY <1>4 DEF Tree
  <2>2. lv[f] >= 0
    BY <1>1, <1>4, <2>1 DEF Child, Tops
  <2>3. n[f] = m[f]
    BY <1>2, <2>2
  <2>. QED  BY <2>1, <2>3 DEF Leads
<1>5. Tree(n, root, lv, via)
  BY <1>1, <1>3, <1>4 DEF Tree
<1>6. ASSUME NEW a \in Pages
      PROVE  StoredIn(n, root, a) = StoredIn(m, root, a)
  <2>1. CASE \E f : On(lv, via, f, 0, a)
    <3>1. PICK f : On(lv, via, f, 0, a)
      BY <2>1
    <3>2. f \in Ram /\ lv[f] = 0
      BY <3>1 DEF On
    <3>3. n[f] = m[f]
      BY <1>2, <3>2
    <3>4. StoredIn(m, root, a) = m[f][Slot(a, 0)]
      BY <3>1, StoredEntry
    <3>5. StoredIn(n, root, a) = n[f][Slot(a, 0)]
      BY <1>5, <3>1, StoredEntry
    <3>. QED  BY <3>3, <3>4, <3>5
  <2>2. CASE ~\E f : On(lv, via, f, 0, a)
    <3>1. StoredIn(m, root, a) = Zero
      BY <2>2, StoredEntry
    <3>2. StoredIn(n, root, a) = Zero
      BY <1>5, <2>2, StoredEntry
    <3>. QED  BY <3>1, <3>2
  <2>. QED  BY <2>1, <2>2
<1>. QED  BY <1>5, <1>6

\* What is written to the page table on the walk of va is what is found for va,
\* and for no other page.
LEMMA EntryWritten ==
  ASSUME NEW m, NEW root, NEW lv, NEW via, Tree(m, root, lv, via), NEW va \in Pages,
         NEW f, On(lv, via, f, 0, va), NEW e, NEW n, Put(m, f, Slot(va, 0), e, n)
  PROVE  /\ Tree(n, root, lv, via)
         /\ StoredIn(m, root, va) = m[f][Slot(va, 0)] /\ StoredIn(n, root, va) = e
         /\ \A a \in Pages : (\E l \in Levels : Slot(a, l) # Slot(va, l))
                               => StoredIn(n, root, a) = StoredIn(m, root, a)
<1>1. /\ lv \in [Ram -> Tops] /\ via \in [Ram -> Pages]
      /\ root \in Ram /\ lv[root] = Depth - 1
      /\ \A g, h \in Ram : lv[g] >= 0 /\ On(lv, via, g, lv[g], via[h]) /\ lv[h] = lv[g] => g = h
  BY DEF Tree
<1>2. f \in Ram /\ lv[f] = 0 /\ Agree(va, via[f], 0 + 1)
  BY DEF On
<1>3. \A g \in Ram, k \in Slots : lv[g] > 0 => n[g][k] = m[g][k]
  BY <1>2 DEF Put
<1>4. ASSUME NEW g \in Ram, NEW s \in Slots, lv[g] > 0, Present(n[g][s])
      PROVE  Child(lv, via, g, s, n[g][s].pa % MASK)
  <2>1. n[g][s] = m[g][s]
    BY <1>3, <1>4
  <2>. QED  BY <1>4, <2>1 DEF Tree
<1>5. ASSUME NEW g \in Ram, lv[g] \in 0 .. Depth - 2
      PROVE  \E h \in Ram, s \in Slots : Child(lv, via, h, s, g) /\ Leads(n, h, s, g)
  <2>1. PICK h \in Ram, s \in Slots : Child(lv, via, h, s, g) /\ Leads(m, h, s, g)
    BY <1>5 DEF Tree
  <2>2. lv[h] > 0
    BY <1>1, <1>5, <2>1 DEF Child, Tops
  <2>3. n[h][s] = m[h][s]
    BY <1>3, <2>2
  <2>. QED  BY <2>1, <2>3 DEF Leads
<1>6. Tree(n, root, lv, via)
  BY <1>1, <1>4, <1>5 DEF Tree
<1>7. StoredIn(m, root, va) = m[f][Slot(va, 0)]
  BY StoredEntry
<1>8. StoredIn(n, root, va) = e
  <2>1. StoredIn(n, root, va) = n[f][Slot(va, 0)]
    BY <1>6, StoredEntry
  <2>2. Slot(va, 0) \in Slots
    BY SlotType, LevelNumbers
  <2>. QED  BY <1>2, <2>1, <2>2 DEF Put
<1>9. ASSUME NEW a \in Pages, NEW l \in Levels, Slot(a, l) # Slot(va, l)
      PROVE  StoredIn(n, root, a) = StoredIn(m, root, a)
  <2>1. CASE \E g : On(lv, via, g, 0, a)
    <3>1. PICK g : On(lv, via, g, 0, a)
      BY <2>1
    <3>2. g \in Ram /\ Agree(a, via[g], 0 + 1) /\ Slot(a, 0) \in Slots
      BY <3>1, SlotType, LevelNumbers DEF On
    <3>3. ~(g = f /\ Slot(a, 0) = Slot(va, 0))
      <4>1. SUFFICES ASSUME g = f, Slot(a, 0) = Slot(va, 0)
                     PROVE  FALSE
        OBVIOUS
      <4>2. 0 + 1 \in Int /\ 0 \in Int
        OBVIOUS
      <4>3. Agree(a, va, 0 + 1)
        BY <1>2, <3>2, <4>1, <4>2, Agreement
      <4>4. Agree(a, va, 0)
        BY <4>1, <4>2, <4>3, Agreement
      <4>. QED  BY <1>9, <4>4, LevelNumbers DEF Agree
    <3>4. n[g][Slot(a, 0)] = m[g][Slot(a, 0)]
      BY <3>2, <3>3 DEF Put
    <3>5. StoredIn(m, root, a) = m[g][Slot(a, 0)]
      BY <3>1, StoredEntry
    <3>6. StoredIn(n, root, a) = n[g][Slot(a, 0)]
      BY <1>6, <3>1, StoredEntry
    <3>. QED  BY <3>4, <3>5, <3>6
  <2>2. CASE ~\E g : On(lv, via, g, 0, a)
    <3>1. StoredIn(m, root, a) = Zero
      BY <2>2, StoredEntry
    <3>2. StoredIn(n, root, a) = Zero
      BY <1>6, <2>2, StoredEntry
    <3>. QED  BY <3>1, <3>2
  <2>. QED  BY <2>1, <2>2
<1>. QED  BY <1>6, <1>7, <1>8, <1>9

\* A walk that ends at an empty entry has no tables below it.
LEMMA NothingBelow ==
  ASSUME NEW m, NEW root, NEW lv, NEW via, Tree(m, root, lv, via), NEW va \in Pages,
         NEW l \in Levels, l > 0, NEW f, On(lv, via, f, l, va), ~Present(m[f][Slot(va, l)]),
         NEW a \in Pages, Agree(a, va, l), NEW g
  PROVE  ~On(lv, via, g, l - 1, a)
<1>1. SUFFICES ASSUME On(lv, via, g, l - 1, a)
               PROVE  FALSE
  OBVIOUS
<1>2. l - 1 \in Levels /\ (l - 1) + 1 = l /\ l \in Int /\ l + 1 \in Int
  BY LevelNumbers
<1>3. PICK h \in Ram : On(lv, via, h, l, a) /\ Leads(m, h, Slot(a, l), g)
  BY <1>1, <1>2, Up
<1>4. Slot(a, l) = Slot(va, l) /\ Agree(a, va, l + 1)
  BY <1>2, Agreement
<1>5. Agree(va, via[h], l + 1)
  BY <1>2, <1>3, <1>4, Agreement DEF On
<1>6. On(lv, via, h, l, va)
  BY <1>3, <1>5 DEF On
<1>7. h = f
  BY <1>6, OneTable
<1>. QED  BY <1>3, <1>4, <1>7 DEF Leads

\* An empty table put into an empty entry of the walk of va: the tree has grown,
\* and what is found for any page is what was found.
LEMMA TableLinked ==
  ASSUME NEW m, NEW root, NEW lv, NEW via, Tree(m, root, lv, via), NEW va \in Pages,
         NEW l \in Levels, l > 0, NEW f, On(lv, via, f, l, va), ~Present(m[f][Slot(va, l)]),
         NEW b \in Ram, lv[b] = -1, m[b] = ZeroPage,
         NEW e, Present(e), e.pa % MASK = b, NEW n, Put(m, f, Slot(va, l), e, n)
  PROVE  \E lw, vw :
           /\ \A g \in Ram : lw[g] = IF g = b THEN l - 1 ELSE lv[g]
           /\ Tree(n, root, lw, vw) /\ On(lw, vw, b, l - 1, va)
           /\ \A a \in Pages : StoredIn(n, root, a) = StoredIn(m, root, a)
<1>1. /\ lv \in [Ram -> Tops] /\ via \in [Ram -> Pages]
      /\ root \in Ram /\ lv[root] = Depth - 1
      /\ \A g, h \in Ram : lv[g] >= 0 /\ On(lv, via, g, lv[g], via[h]) /\ lv[h] = lv[g] => g = h
  BY DEF Tree
<1>2. PICK lw : lw = [lv EXCEPT ![b] = l - 1]
  OBVIOUS
<1>3. PICK vw : vw = [via EXCEPT ![b] = va]
  OBVIOUS
<1>4. l - 1 \in Levels /\ (l - 1) + 1 = l /\ l \in Nat /\ l + 1 \in Int /\ l <= Depth - 1
  BY LevelNumbers
<1>5. /\ lw \in [Ram -> Tops] /\ vw \in [Ram -> Pages] /\ lw[b] = l - 1 /\ vw[b] = va
      /\ \A g \in Ram : g # b => lw[g] = lv[g] /\ vw[g] = via[g]
  BY <1>1, <1>2, <1>3, <1>4, LevelNumbers DEF Tops
<1>6. f \in Ram /\ lv[f] = l /\ f # b /\ Agree(va, via[f], l + 1) /\ Slot(va, l) \in Slots
  BY <1>4, SlotType DEF On
<1>7. root # b
  BY <1>1, <1>4, LevelNumbers
<1>8. PICK s \in Slots : s = Slot(va, l)
  BY <1>6
<1>9. /\ n[f][s] = e
      /\ \A g \in Ram, k \in Slots : ~(g = f /\ k = s) => n[g][k] = m[g][k]
  BY <1>6, <1>8 DEF Put
<1>10. \A g \in Ram : \A k, a : g # b => (On(lw, vw, g, k, a) <=> On(lv, via, g, k, a))
  BY <1>5 DEF On
<1>11. \A k, a : On(lw, vw, b, k, a) <=> k = l - 1 /\ Agree(a, va, k + 1)
  BY <1>5 DEF On
<1>12. On(lw, vw, b, l - 1, va)
  BY <1>4, <1>11, Agreement
<1>13. \A a \in Pages : \A g : Agree(a, va, l) => ~On(lv, via, g, l - 1, a)
  BY NothingBelow
<1>14. ASSUME NEW g \in Ram, NEW h \in Ram,
              lw[g] >= 0, On(lw, vw, g, lw[g], vw[h]), lw[h] = lw[g]
       PROVE  g = h
  <2>1. CASE g # b /\ h # b
    BY <1>1, <1>5, <1>10, <1>14, <2>1
  <2>2. CASE g = b /\ h # b
    <3>1. lv[h] = l - 1 /\ Agree(via[h], va, l) /\ via[h] \in Pages
      BY <1>1, <1>4, <1>5, <1>11, <1>14, <2>2
    <3>2. On(lv, via, h, l - 1, via[h])
      BY <1>4, <3>1, Agreement DEF On
    <3>. QED  BY <1>13, <3>1, <3>2
  <2>3. CASE g # b /\ h = b
    <3>1. On(lv, via, g, l - 1, va)
      BY <1>5, <1>10, <1>14, <2>3
    <3>2. Agree(va, va, l)
      BY <1>4, Agreement
    <3>. QED  BY <1>13, <3>1, <3>2
  <2>. QED  BY <2>1, <2>2, <2>3
<1>15. ASSUME NEW g \in Ram, NEW k \in Slots, lw[g] > 0, Present(n[g][k])
       PROVE  Child(lw, vw, g, k, n[g][k].pa % MASK)
  <2>1. CASE g = f /\ k = s
    <3>1. n[g][k].pa % MASK = b
      BY <1>9, <2>1
    <3>. QED  BY <1>5, <1>6, <1>8, <2>1, <3>1 DEF Child
  <2>2. CASE ~(g = f /\ k = s)
    <3>1. n[g][k] = m[g][k]
      BY <1>9, <2>2
    <3>2. g # b
      <4>1. ~Present(ZeroPage[k])
        BY DEF ZeroPage, Zero, Present
      <4>. QED  BY <1>15, <3>1, <4>1
    <3>3. PICK h : h = m[g][k].pa % MASK
      OBVIOUS
    <3>4. Child(lv, via, g, k, h) /\ lv[g] > 0
      BY <1>5, <1>15, <3>1, <3>2, <3>3 DEF Tree
    <3>5. h # b
      <4>1. lv[h] = lv[g] - 1 /\ lv[g] \in Int
        BY <1>1, <3>4 DEF Child, Tops
      <4>. QED  BY <3>4, <4>1
    <3>6. Child(lw, vw, g, k, h)
      BY <1>5, <3>2, <3>4, <3>5 DEF Child
    <3>. QED  BY <3>1, <3>3, <3>6
  <2>. QED  BY <2>1, <2>2
<1>16. ASSUME NEW g \in Ram, lw[g] \in 0 .. Depth - 2
       PROVE  \E h \in Ram, k \in Slots : Child(lw, vw, h, k, g) /\ Leads(n, h, k, g)
  <2>1. CASE g = b
    <3>1. Child(lw, vw, f, s, b)
      BY <1>5, <1>6, <1>8 DEF Child
    <3>2. Leads(n, f, s, b)
      BY <1>9 DEF Leads
    <3>. QED  BY <1>6, <2>1, <3>1, <3>2
  <2>2. CASE g # b
    <3>1. PICK h \in Ram, k \in Slots : Child(lv, via, h, k, g) /\ Leads(m, h, k, g)
      BY <1>5, <1>16, <2>2 DEF Tree
    <3>2. h # b
      <4>1. lv[h] = lv[g] + 1 /\ lv[g] >= 0
        BY <1>1, <1>5, <1>16, <2>2, <3>1 DEF Child, Tops
      <4>. QED  BY <4>1, <1>16, <1>5, <2>2
    <3>3. Child(lw, vw, h, k, g)
      BY <1>5, <2>2, <3>1, <3>2 DEF Child
    <3>4. ~(h = f /\ k = s)
      BY <1>8, <3>1 DEF Leads
    <3>5. Leads(n, h, k, g)
      BY <1>9, <3>1, <3>4 DEF Leads
    <3>. QED  BY <3>3, <3>5
  <2>. QED  BY <2>1, <2>2
<1>17. Tree(n, root, lw, vw)
  BY <1>1, <1>5, <1>7, <1>14, <1>15, <1>16 DEF Tree
<1>18. ASSUME NEW a \in Pages
       PROVE  StoredIn(n, root, a) = StoredIn(m, root, a)
  <2>1. CASE \E g : On(lv, via, g, 0, a)
    <3>1. PICK g : On(lv, via, g, 0, a)
      BY <2>1
    <3>2. g \in Ram /\ lv[g] = 0 /\ g # b /\ g # f
      BY <1>6, <3>1 DEF On
    <3>3. On(lw, vw, g, 0, a)
      BY <1>10, <3>1, <3>2
    <3>4. Slot(a, 0) \in Slots
      BY SlotType, LevelNumbers
    <3>5. n[g][Slot(a, 0)] = m[g][Slot(a, 0)]
      BY <1>9, <3>2, <3>4
    <3>6. StoredIn(m, root, a) = m[g][Slot(a, 0)]
      BY <3>1, StoredEntry
    <3>7. StoredIn(n, root, a) = n[g][Slot(a, 0)]
      BY <1>17, <3>3, StoredEntry
    <3>. QED  BY <3>5, <3>6, <3>7
  <2>2. CASE ~\E g : On(lv, via, g, 0, a)
    <3>1. StoredIn(m, root, a) = Zero
      BY <2>2, StoredEntry
    <3>2. CASE On(lw, vw, b, 0, a)
      <4>1. StoredIn(n, root, a) = n[b][Slot(a, 0)]
        BY <1>17, <3>2, StoredEntry
      <4>2. Slot(a, 0) \in Slots
        BY SlotType, LevelNumbers
      <4>3. n[b][Slot(a, 0)] = Zero
        BY <1>6, <1>9, <4>2 DEF ZeroPage
      <4>. QED  BY <3>1, <4>1, <4>3
    <3>3. CASE ~On(lw, vw, b, 0, a)
      <4>1. \A g : ~On(lw, vw, g, 0, a)
        BY <1>10, <2>2, <3>3 DEF On
      <4>2. StoredIn(n, root, a) = Zero
        BY <1>17, <4>1, StoredEntry
      <4>. QED  BY <3>1, <4>2
    <3>. QED  BY <3>2, <3>3
  <2>. QED  BY <2>1, <2>2
<1>19. \A g \in Ram : lw[g] = IF g = b THEN l - 1 ELSE lv[g]
  BY <1>5
<1>. QED  BY <1>12, <1>17, <1>18, <1>19

\* The first table, cleared, is a tree in which no page is found.
LEMMA FirstTable ==
  ASSUME NEW m, NEW root \in Ram, m[root] = ZeroPage
  PROVE  \E lv, via :
           /\ Tree(m, root, lv, via)
           /\ \A g \in Ram : lv[g] = IF g = root THEN Depth - 1 ELSE -1
           /\ \A a \in Pages : StoredIn(m, root, a) = Zero
<1>1. PICK lv : lv = [g \in Ram |-> IF g = root THEN Depth - 1 ELSE -1]
  OBVIOUS
<1>2. PICK via : via = [g \in Ram |-> 0]
  OBVIOUS
<1>3. /\ Depth - 1 \in Nat /\ lv \in [Ram -> Tops] /\ via \in [Ram -> Pages]
      /\ \A g \in Ram : lv[g] = IF g = root THEN Depth - 1 ELSE -1
  BY <1>1, <1>2, LevelNumbers, RamPages DEF Tops, Pages
<1>4. \A g \in Ram : lv[g] >= 0 => g = root
  BY <1>3
<1>5. \A s \in Slots : ~Present(m[root][s])
  BY DEF ZeroPage, Present, Zero
<1>6. \A g \in Ram : lv[g] \notin 0 .. Depth - 2
  BY <1>3, LevelNumbers
<1>7. Tree(m, root, lv, via)
  BY <1>3, <1>4, <1>5, <1>6 DEF Tree, On
<1>8. ASSUME NEW a \in Pages
      PROVE  StoredIn(m, root, a) = Zero
  <2>1. Slot(a, 0) \in Slots
    BY SlotType, LevelNumbers
  <2>2. CASE \E f : On(lv, via, f, 0, a)
    <3>1. PICK f : On(lv, via, f, 0, a)
      BY <2>2
    <3>2. f = root
      BY <1>4, <3>1 DEF On
    <3>3. StoredIn(m, root, a) = m[root][Slot(a, 0)]
      BY <1>7, <3>1, <3>2, StoredEntry
    <3>. QED  BY <2>1, <3>3 DEF ZeroPage
  <2>3. CASE ~\E f : On(lv, via, f, 0, a)
    BY <1>7, <2>3, StoredEntry
  <2>. QED  BY <2>2, <2>3
<1>. QED  BY <1>3, <1>7, <1>8

-----------------------------------------------------------------------------
(* The allocator *)

\* If there is a page the allocator finds one.
LEMMA BestFitOfPages ==
  ASSUME free \in SUBSET Pages, free # {}
  PROVE  BestFit \in free
<1>1. free \in SUBSET Nat /\ \A a \in free : a <= WORD
  BY RamPages DEF Pages
<1>2. IsFiniteSet(free)
  BY <1>1, RamPages, FS_BoundedSetOfNaturals
<1>3. \A a \in free : Run(a) \in Nat
  <2>1. ASSUME NEW a \in free
        PROVE  Run(a) \in Nat
    <3>1. {b \in free : a <= b /\ a .. b \subseteq free} \in SUBSET free
      OBVIOUS
    <3>2. IsFiniteSet({b \in free : a <= b /\ a .. b \subseteq free})
      BY <1>2, <3>1, FS_Subset
    <3>. QED  BY <3>2, FS_CardinalityType DEF Run
  <2>. QED  BY <2>1
<1>4. Starts # {} /\ Starts \subseteq free
  <2>1. PICK a \in free : \A b \in free : a <= b
    BY <1>1, Least
  <2>2. a - 1 \notin free
    BY <1>1, <2>1
  <2>. QED  BY <2>2 DEF Starts
<1>5. PICK R : R = {Run(a) : a \in Starts}
  OBVIOUS
<1>6. PICK r \in R : \A q \in R : r <= q
  <2>1. R \in SUBSET Nat /\ R # {}
    BY <1>3, <1>4, <1>5
  <2>. QED  BY <2>1, Least
<1>7. PICK B : B = {a \in Starts : Run(a) = r}
  OBVIOUS
<1>8. PICK a \in B : \A b \in B : a <= b
  <2>1. B \in SUBSET Nat /\ B # {}
    BY <1>1, <1>4, <1>5, <1>6, <1>7
  <2>. QED  BY <2>1, Least
<1>9. a \in Starts /\ \A b \in Starts : Run(a) < Run(b) \/ (Run(a) = Run(b) /\ a <= b)
  <2>1. ASSUME NEW b \in Starts
        PROVE  Run(a) < Run(b) \/ (Run(a) = Run(b) /\ a <= b)
    <3>1. r <= Run(b) /\ Run(a) = r /\ Run(b) \in Nat /\ r \in Nat
      BY <1>3, <1>4, <1>5, <1>6, <1>7, <1>8
    <3>2. CASE Run(b) = r
      BY <1>7, <1>8, <3>1, <3>2
    <3>3. CASE Run(b) # r
      BY <3>1, <3>3
    <3>. QED  BY <3>2, <3>3
  <2>. QED  BY <1>7, <2>1
<1>10. BestFit \in Starts
  BY <1>9 DEF BestFit
<1>. QED  BY <1>4, <1>10

\* It finds it in memory where the direct map is the identity.
LEMMA BestFitIsFree ==
  ASSUME free \subseteq Ram, free # {}
  PROVE  BestFit \in free
BY RamPages, BestFitOfPages

-----------------------------------------------------------------------------
(* The calls of init_mmu *)

\* What holds for 1, and with a number for the next one, holds up to n.
LEMMA Upwards ==
  ASSUME NEW n \in Nat, NEW S, 1 \in S, \A i \in 1 .. n : i \in S /\ i < n => i + 1 \in S
  PROVE  1 .. n \subseteq S
<1>1. SUFFICES ASSUME (1 .. n) \ S # {}
               PROVE  FALSE
  OBVIOUS
<1>2. PICK i \in (1 .. n) \ S : \A j \in (1 .. n) \ S : i <= j
  <2>1. (1 .. n) \ S \in SUBSET Nat
    OBVIOUS
  <2>. QED  BY <1>1, <2>1, Least
<1>3. i # 1 /\ i - 1 \in 1 .. n /\ i - 1 < n
  BY <1>2
<1>4. i - 1 \in S
  BY <1>2, <1>3
<1>5. (i - 1) + 1 \in S
  BY <1>3, <1>4
<1>. QED  BY <1>2, <1>5

Flattens(q, n, f) == f = [i \in 1 .. n |-> IF i = 1 THEN q[i] ELSE f[i - 1] \o q[i]]

\* There is a function that FlattenSeq chooses.
LEMMA FlattensExists ==
  ASSUME NEW q, NEW n \in Nat, n >= 1
  PROVE  \E f : Flattens(q, n, f)
<1>1. PICK S : S = {k \in 1 .. n : \E f : Flattens(q, k, f)}
  OBVIOUS
<1>2. 1 \in S
  <2>1. Flattens(q, 1, [i \in 1 .. 1 |-> q[i]])
    BY DEF Flattens
  <2>. QED  BY <1>1, <2>1
<1>3. ASSUME NEW k \in 1 .. n, k \in S, k < n
      PROVE  k + 1 \in S
  <2>1. PICK f : Flattens(q, k, f)
    BY <1>1, <1>3
  <2>2. PICK g : g = [i \in 1 .. k + 1 |-> IF i = k + 1 THEN f[k] \o q[i] ELSE f[i]]
    OBVIOUS
  <2>3. ASSUME NEW i \in 1 .. k + 1
        PROVE  g[i] = IF i = 1 THEN q[i] ELSE g[i - 1] \o q[i]
    <3>1. CASE i = k + 1
      <4>1. i - 1 = k /\ i # 1 /\ k \in 1 .. k + 1 /\ k # k + 1
        BY <3>1
      <4>2. g[i - 1] = f[k]
        BY <2>2, <4>1
      <4>. QED  BY <2>2, <3>1, <4>1, <4>2
    <3>2. CASE i # k + 1
      <4>1. i \in 1 .. k
        BY <3>2
      <4>2. g[i] = f[i]
        BY <2>2, <3>2
      <4>3. f[i] = IF i = 1 THEN q[i] ELSE f[i - 1] \o q[i]
        BY <2>1, <4>1 DEF Flattens
      <4>4. CASE i = 1
        BY <4>2, <4>3, <4>4
      <4>5. CASE i # 1
        <5>1. i - 1 \in 1 .. k + 1 /\ i - 1 # k + 1
          BY <4>1, <4>5
        <5>2. g[i - 1] = f[i - 1]
          BY <2>2, <5>1
        <5>. QED  BY <4>2, <4>3, <4>5, <5>2
      <4>. QED  BY <4>4, <4>5
    <3>. QED  BY <3>1, <3>2
  <2>4. Flattens(q, k + 1, g)
    BY <2>2, <2>3 DEF Flattens
  <2>5. k + 1 \in 1 .. n
    BY <1>3
  <2>. QED  BY <1>1, <2>4, <2>5
<1>4. 1 .. n \subseteq S
  BY <1>2, <1>3, Upwards
<1>. QED  BY <1>1, <1>4

\* The elements of s and of t, and no others, are those of their concatenation.
LEMMA Concatenated ==
  ASSUME NEW S, NEW s \in Seq(S), NEW t \in Seq(S)
  PROVE  s \o t \in Seq(S) /\ Range(s \o t) = Range(s) \cup Range(t)
<1>1. /\ s \o t \in Seq(S) /\ Len(s \o t) = Len(s) + Len(t)
      /\ \A i \in 1 .. Len(s) : (s \o t)[i] = s[i]
      /\ \A i \in Len(s) + 1 .. Len(s) + Len(t) : (s \o t)[i] = t[i - Len(s)]
  OBVIOUS
<1>2. \A i \in 1 .. Len(t) : (s \o t)[Len(s) + i] = t[i]
  OBVIOUS
<1>3. PICK u \in Seq(S) : u = s \o t
  BY <1>1
<1>4. Range(u) = {u[i] : i \in 1 .. Len(u)}
  BY DEF Range
<1>5. Range(s) = {s[i] : i \in 1 .. Len(s)} /\ Range(t) = {t[i] : i \in 1 .. Len(t)}
  BY DEF Range
<1>6. ASSUME NEW x \in Range(u)
      PROVE  x \in Range(s) \cup Range(t)
  <2>1. PICK i \in 1 .. Len(u) : x = u[i]
    BY <1>4, <1>6
  <2>2. CASE i <= Len(s)
    <3>1. i \in 1 .. Len(s)
      BY <2>2
    <3>2. u[i] = s[i]
      BY <1>1, <1>3, <3>1
    <3>. QED  BY <1>5, <2>1, <3>1, <3>2
  <2>3. CASE i > Len(s)
    <3>1. i \in Len(s) + 1 .. Len(s) + Len(t) /\ i - Len(s) \in 1 .. Len(t)
      BY <1>1, <1>3, <2>3
    <3>2. u[i] = t[i - Len(s)]
      BY <1>1, <1>3, <3>1
    <3>. QED  BY <1>5, <2>1, <3>1, <3>2
  <2>. QED  BY <2>2, <2>3
<1>7. ASSUME NEW x \in Range(s)
      PROVE  x \in Range(u)
  <2>1. PICK i \in 1 .. Len(s) : x = s[i]
    BY <1>5, <1>7
  <2>2. u[i] = s[i] /\ i \in 1 .. Len(u)
    BY <1>1, <1>3, <2>1
  <2>. QED  BY <1>4, <2>1, <2>2
<1>8. ASSUME NEW x \in Range(t)
      PROVE  x \in Range(u)
  <2>1. PICK i \in 1 .. Len(t) : x = t[i]
    BY <1>5, <1>8
  <2>2. PICK j \in 1 .. Len(u) : j = Len(s) + i
    BY <1>1, <1>3, <2>1
  <2>3. u[j] = t[i]
    BY <1>2, <1>3, <2>2
  <2>. QED  BY <1>4, <2>1, <2>3
<1>. QED  BY <1>1, <1>3, <1>6, <1>7, <1>8

\* FlattenSeq makes a sequence of the elements of all the sequences.
LEMMA Flattened ==
  ASSUME NEW S, NEW q \in Seq(Seq(S))
  PROVE  /\ FlattenSeq(q) \in Seq(S)
         /\ \A x : x \in Range(FlattenSeq(q)) <=> \E i \in 1 .. Len(q) : x \in Range(q[i])
<1>1. CASE Len(q) = 0
  <2>1. FlattenSeq(q) = q /\ q = <<>>
    BY <1>1 DEF FlattenSeq
  <2>. QED  BY <2>1 DEF Range
<1>2. CASE Len(q) # 0
  <2>1. PICK n \in Nat : n = Len(q) /\ n >= 1
    BY <1>2
  <2>2. PICK f : Flattens(q, n, f) /\ FlattenSeq(q) = f[n]
    <3>1. FlattenSeq(q) = (CHOOSE f : Flattens(q, Len(q), f))[Len(q)]
      BY <1>2 DEF FlattenSeq, Flattens
    <3>2. Flattens(q, n, CHOOSE f : Flattens(q, n, f))
      BY <2>1, FlattensExists
    <3>. QED  BY <2>1, <3>1, <3>2
  <2>3. PICK K : K = {k \in 1 .. n : /\ f[k] \in Seq(S)
                                     /\ \A x : x \in Range(f[k])
                                          <=> \E i \in 1 .. k : x \in Range(q[i])}
    OBVIOUS
  <2>4. \A i \in 1 .. n : q[i] \in Seq(S)
    BY <2>1
  <2>5. \A i \in 1 .. n : f[i] = IF i = 1 THEN q[i] ELSE f[i - 1] \o q[i]
    BY <2>2 DEF Flattens
  <2>6. 1 \in K
    <3>1. f[1] = q[1] /\ 1 \in 1 .. n
      BY <2>1, <2>5
    <3>3. \A x : x \in Range(q[1]) <=> \E i \in 1 .. 1 : x \in Range(q[i])
      OBVIOUS
    <3>. QED  BY <2>3, <2>4, <3>1, <3>3
  <2>7. ASSUME NEW k \in 1 .. n, k \in K, k < n
        PROVE  k + 1 \in K
    <3>1. k + 1 \in 1 .. n /\ k + 1 # 1 /\ (k + 1) - 1 = k
      BY <2>7
    <3>2. f[k + 1] = f[k] \o q[k + 1]
      BY <2>5, <3>1
    <3>3. f[k] \in Seq(S) /\ \A x : x \in Range(f[k]) <=> \E i \in 1 .. k : x \in Range(q[i])
      BY <2>3, <2>7
    <3>4. f[k + 1] \in Seq(S) /\ Range(f[k + 1]) = Range(f[k]) \cup Range(q[k + 1])
      BY <2>4, <3>1, <3>2, <3>3, Concatenated
    <3>5. PICK j \in 1 .. n : j = k + 1
      BY <3>1
    <3>6. \A i : i \in 1 .. j <=> i \in 1 .. k \/ i = j
      BY <2>7, <3>5
    <3>7. f[j] \in Seq(S) /\ Range(f[j]) = Range(f[k]) \cup Range(q[j])
      BY <3>4, <3>5
    <3>8. \A x : x \in Range(f[j]) <=> \E i \in 1 .. j : x \in Range(q[i])
      BY <3>3, <3>6, <3>7, Zenon
    <3>9. j \in K
      BY <2>3, <3>7, <3>8
    <3>. QED  BY <3>5, <3>9
  <2>8. 1 .. n \subseteq K
    BY <2>1, <2>6, <2>7, Upwards
  <2>9. n \in K
    BY <2>1, <2>8
  <2>. QED  BY <2>1, <2>2, <2>3, <2>9
<1>. QED  BY <1>1, <1>2

\* What the calls of init_mmu are like: memory is mapped to itself, by the calls
\* for the sections too if these add nothing to their addresses.
BootCall ==
  {r \in [op : {"map"}, va : Pages, pa : Pages, flags : SUBSET Bits, free_pa : {FALSE}] :
     HHDM = 0 /\ r.va \in Ram => r.pa = r.va /\ "present" \in r.flags}

\* A call for page addr of a memory map entry or of a section.
LEMMA MappingIsBootCall ==
  ASSUME NEW addr \in Nat, addr < WORD, NEW flags \in SUBSET Bits, "present" \in flags
  PROVE  /\ Mapping(addr, addr, flags) \in BootCall
         /\ Mapping(addr + HHDM, addr, flags) \in BootCall
         /\ Mapping(addr, addr, flags).va = addr
<1>1. addr % WORD = addr /\ addr \in Pages
  <2>1. addr \in 0 .. WORD - 1 /\ WORD \in Nat \ {0}
    BY RamPages
  <2>. QED  BY <2>1 DEF Pages
<1>2. ASSUME NEW va \in Nat, HHDM = 0 => va = addr
      PROVE  Mapping(va, addr, flags) \in BootCall
  <2>1. PICK r : r = Mapping(va, addr, flags)
    OBVIOUS
  <2>2. r = [op |-> "map", va |-> va % WORD, pa |-> addr, flags |-> flags, free_pa |-> FALSE]
    BY <1>1, <2>1 DEF Mapping
  <2>3. va % WORD \in Pages
    BY Masked
  <2>4. HHDM = 0 => r.va = addr
    BY <1>1, <1>2, <2>2
  <2>5. r \in [op : {"map"}, va : Pages, pa : Pages, flags : SUBSET Bits, free_pa : {FALSE}]
    BY <1>1, <2>2, <2>3
  <2>6. r \in BootCall
    BY <2>2, <2>4, <2>5 DEF BootCall
  <2>. QED  BY <2>1, <2>6
<1>3. HHDM \in Nat
  BY MmuAssumption
<1>4. PICK v \in Nat : v = addr + HHDM
  BY <1>3
<1>5. HHDM = 0 => v = addr
  BY <1>4
<1>6. Mapping(addr + HHDM, addr, flags) \in BootCall
  BY <1>2, <1>4, <1>5
<1>. QED  BY <1>1, <1>2, <1>6 DEF Mapping

\* The calls for one entry of the memory map.
LEMMA EntryCallsTypes ==
  ASSUME NEW e \in ToSet(MemMap)
  PROVE  /\ EntryCalls(e) \in Seq(BootCall)
         /\ \A f \in e.base .. e.base + e.pages - 1 : \E r \in Range(EntryCalls(e)) : r.va = f
<1>1. e \in [base : Nat, pages : Nat, usable : BOOLEAN]
  <2>1. PICK i \in DOMAIN MemMap : e = MemMap[i]
    BY DEF ToSet
  <2>2. PICK S : S = [base : Nat, pages : Nat, usable : BOOLEAN]
    OBVIOUS
  <2>3. MemMap \in Seq(S)
    BY <2>2, MachineAssumption
  <2>4. e \in S
    BY <2>1, <2>3
  <2>. QED  BY <2>2, <2>4
<1>2. \A f \in e.base .. e.base + e.pages - 1 : f \in Nat /\ f < WORD
  <2>1. \A f \in e.base .. e.base + e.pages - 1 : f \in Physical
    BY DEF Physical
  <2>. QED  BY <1>1, <2>1, MmuAssumption
<1>3. PICK flags \in SUBSET Bits :
        flags = {"present"} \cup (IF e.usable THEN {"write"} ELSE {"noexec"}) /\ "present" \in flags
  <2>1. {"present"} \cup (IF e.usable THEN {"write"} ELSE {"noexec"}) \in SUBSET Bits
    BY DEF Bits
  <2>. QED  BY <2>1
<1>4. PICK k \in Nat : k = Limit(e) - e.base /\ k = e.pages
  BY <1>1 DEF Limit
<1>5. EntryCalls(e) = [n \in 1 .. k |-> Mapping(e.base + n - 1, e.base + n - 1, flags)]
  BY <1>3, <1>4 DEF EntryCalls
<1>6. ASSUME NEW n \in 1 .. k
      PROVE  EntryCalls(e)[n] \in BootCall /\ EntryCalls(e)[n].va = e.base + n - 1
  <2>1. PICK addr \in Nat : addr = e.base + n - 1 /\ addr < WORD
    <3>1. e.base + n - 1 \in e.base .. e.base + e.pages - 1
      BY <1>1, <1>4
    <3>. QED  BY <1>2, <3>1
  <2>2. EntryCalls(e)[n] = Mapping(addr, addr, flags)
    BY <1>5, <2>1
  <2>3. Mapping(addr, addr, flags) \in BootCall /\ Mapping(addr, addr, flags).va = addr
    BY <1>3, <2>1, MappingIsBootCall
  <2>. QED  BY <2>1, <2>2, <2>3
<1>7. EntryCalls(e) \in [1 .. k -> BootCall]
  BY <1>5, <1>6
<1>8. ASSUME NEW f \in e.base .. e.base + e.pages - 1
      PROVE  \E r \in Range(EntryCalls(e)) : r.va = f
  <2>1. PICK n \in 1 .. k : n = f - e.base + 1
    BY <1>1, <1>4
  <2>2. EntryCalls(e)[n].va = f
    BY <1>1, <1>6, <2>1
  <2>3. EntryCalls(e)[n] \in Range(EntryCalls(e))
    BY <1>5 DEF Range
  <2>. QED  BY <2>2, <2>3
<1>. QED  BY <1>7, <1>8

\* The calls for one section of the kernel.
LEMMA SectionCallsTypes ==
  ASSUME NEW s \in ToSet(Sections)
  PROVE  SectionCalls(s) \in Seq(BootCall)
<1>1. /\ s \in [start : Nat, end : Nat, flags : SUBSET Bits]
      /\ AlignUp(s.end) <= WORD /\ "present" \in s.flags
  <2>1. PICK i \in DOMAIN Sections : s = Sections[i]
    BY DEF ToSet
  <2>2. PICK S : S = [start : Nat, end : Nat, flags : SUBSET Bits]
    OBVIOUS
  <2>3. Sections \in Seq(S)
    BY <2>2, MachineAssumption
  <2>4. s \in S
    BY <2>1, <2>3
  <2>. QED  BY <2>2, <2>4, MachineAssumption, Zenon
<1>2. PICK lo \in Nat : lo = AlignDown(s.start)
  BY <1>1, MmuAssumption DEF AlignDown
<1>3. PICK hi \in Nat : hi = AlignUp(s.end)
  BY <1>1, MmuAssumption DEF AlignUp
<1>4. SectionCalls(s) = [n \in 1 .. hi - lo |-> Mapping(lo + n - 1 + HHDM, lo + n - 1, s.flags)]
  BY <1>2, <1>3 DEF SectionCalls
<1>5. ASSUME NEW n \in 1 .. hi - lo
      PROVE  SectionCalls(s)[n] \in BootCall
  <2>1. PICK addr \in Nat : addr = lo + n - 1 /\ addr < WORD
    BY <1>1, <1>3, RamPages
  <2>2. SectionCalls(s)[n] = Mapping(addr + HHDM, addr, s.flags)
    BY <1>4, <2>1
  <2>. QED  BY <1>1, <2>1, <2>2, MappingIsBootCall
<1>6. PICK k \in Nat : \A n : n \in 1 .. k <=> n \in 1 .. hi - lo
  <2>1. CASE lo <= hi
    <3>1. hi - lo \in Nat
      BY <2>1
    <3>. QED  BY <3>1
  <2>2. CASE lo > hi
    <3>1. 0 \in Nat /\ \A n : n \in 1 .. 0 <=> n \in 1 .. hi - lo
      BY <2>2
    <3>. QED  BY <3>1
  <2>. QED  BY <2>1, <2>2
<1>7. SectionCalls(s) \in [1 .. k -> BootCall]
  <2>1. 1 .. k = 1 .. hi - lo
    BY <1>6, Zenon
  <2>. QED  BY <1>4, <1>5, <2>1
<1>. QED  BY <1>7

\* The calls of init_mmu, which map all memory.
LEMMA InitMaps ==
  /\ InitCalls \in Seq(BootCall)
  /\ \A f \in Ram : \E n \in 1 .. Len(InitCalls) : InitCalls[n].va = f
<1>1. PICK p : p = [n \in 1 .. Len(MemMap) |-> EntryCalls(MemMap[n])]
  OBVIOUS
<1>2. PICK q : q = [n \in 1 .. Len(Sections) |-> SectionCalls(Sections[n])]
  OBVIOUS
<1>3. Len(MemMap) \in Nat /\ Len(Sections) \in Nat
  BY MachineAssumption
<1>4. \A n \in 1 .. Len(MemMap) : MemMap[n] \in ToSet(MemMap)
  BY MachineAssumption DEF ToSet
<1>5. \A n \in 1 .. Len(Sections) : Sections[n] \in ToSet(Sections)
  BY MachineAssumption DEF ToSet
<1>6. p \in Seq(Seq(BootCall)) /\ Len(p) = Len(MemMap)
  <2>1. \A n \in 1 .. Len(MemMap) : p[n] \in Seq(BootCall)
    BY <1>1, <1>4, EntryCallsTypes
  <2>. QED  BY <1>1, <1>3, <2>1
<1>7. q \in Seq(Seq(BootCall))
  <2>1. \A n \in 1 .. Len(Sections) : q[n] \in Seq(BootCall)
    BY <1>2, <1>5, SectionCallsTypes
  <2>. QED  BY <1>2, <1>3, <2>1
<1>8. /\ FlattenSeq(p) \in Seq(BootCall) /\ FlattenSeq(q) \in Seq(BootCall)
      /\ \A x : x \in Range(FlattenSeq(p)) <=> \E i \in 1 .. Len(p) : x \in Range(p[i])
  BY <1>6, <1>7, Flattened
<1>9. InitCalls = FlattenSeq(p) \o FlattenSeq(q)
  BY <1>1, <1>2 DEF InitCalls
<1>10. /\ InitCalls \in Seq(BootCall)
       /\ Range(InitCalls) = Range(FlattenSeq(p)) \cup Range(FlattenSeq(q))
  BY <1>8, <1>9, Concatenated
<1>11. ASSUME NEW f \in Ram
       PROVE  \E n \in 1 .. Len(InitCalls) : InitCalls[n].va = f
  <2>1. PICK e \in ToSet(MemMap) : f \in e.base .. e.base + e.pages - 1
    BY DEF Ram
  <2>2. PICK i \in 1 .. Len(MemMap) : e = MemMap[i]
    BY MachineAssumption DEF ToSet
  <2>3. PICK r \in Range(EntryCalls(e)) : r.va = f
    BY <2>1, EntryCallsTypes
  <2>4. r \in Range(p[i])
    BY <1>1, <2>2, <2>3
  <2>5. r \in Range(InitCalls)
    BY <1>6, <1>8, <1>10, <2>4
  <2>6. PICK n \in DOMAIN InitCalls : r = InitCalls[n]
    BY <2>5 DEF Range
  <2>7. n \in 1 .. Len(InitCalls)
    BY <1>10, <2>6
  <2>. QED  BY <2>3, <2>6, <2>7
<1>. QED  BY <1>10, <1>11

=============================================================================
