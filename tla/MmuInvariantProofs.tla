--------------------------- MODULE MmuInvariantProofs ---------------------------
(***************************************************************************)
(* The invariant of Mmu, and what follows from it: every page of memory    *)
(* has one use, and what the processors find in the tables is what the     *)
(* calls of map and unmap say.                                             *)
(*                                                                         *)
(* The theorems are for every offset of the direct map, and the offset     *)
(* decides which of two things they say.  With the offset that the boot    *)
(* loader chooses init_mmu faults at the first table it clears, since      *)
(* mmu.c:55-61 adds the offset to an address that has it already           *)
(* (OffsetStopsBoot), so that there are no tables and what is claimed of   *)
(* them is claimed of none.  What the code is meant to do is done with the *)
(* offset 0, where that addition is harmless, and the long part of the     *)
(* proofs, from WorkingMachine, is about that machine.                     *)
(***************************************************************************)
EXTENDS MmuProofs

-----------------------------------------------------------------------------
(* What every page of memory is used for *)

Asking(c) ==
  /\ pc[c] \notin {"idle", "flush", "unlock"} /\ req[c] # None
  /\ req[c].op = "map" /\ req[c].va \in OwnPages

Holding(c) == pc[c] \in {"zero", "link"}

Mapped(va) ==
  va \in OwnPages /\ Stored(va) # Zero /\ ~\E c \in Cores : Freeing(c) /\ req[c].va = va

Uses == {"free", "held", "table", "below", "asked", "mapped", "replaced"}

\* The claimants of a kind have a page each, and the pages of that kind have
\* their claimant.
Match(C, P, k, kind, who) ==
  /\ \A c \in C : P[c] \in Ram /\ kind[P[c]] = k /\ who[P[c]] = c
  /\ \A f \in Ram : kind[f] = k => who[f] \in C /\ P[who[f]] = f

Holders == {c \in Cores : Holding(c)}
Askers == {c \in Cores : Asking(c)}
MappedPages == {va \in OwnPages : Mapped(va)}
AskedOf == [c \in Cores |-> req[c].pa]
MappedTo == [va \in OwnPages |-> Stored(va).pa]

\* The uses that are sets.
Placed(lv, kind, f) ==
  /\ f \in free <=> kind[f] = "free"
  /\ f \in held <=> kind[f] = "held"
  /\ f \in replaced <=> kind[f] = "replaced"
  /\ lv[f] >= 0 <=> kind[f] = "table"

\* Each page has one use: kind[f] says which, who[f] by which core or at which page.
Used(lv, kind, who) ==
  /\ kind \in [Ram -> Uses]
  /\ \A f \in Ram : Placed(lv, kind, f)
  /\ Match(Holders, below, "below", kind, who)
  /\ Match(Askers, AskedOf, "asked", kind, who)
  /\ Match(MappedPages, MappedTo, "mapped", kind, who)

-----------------------------------------------------------------------------
(* Where each core is *)

\* The core has a table of its call's walk.
AtTable(c) == pc[c] \in {"walk", "allocate", "zero", "link", "erase"}

Position(lv, via, c) ==
  /\ AtTable(c) => lvl[c] \in Levels /\ On(lv, via, ptr[c], lvl[c], req[c].va)
  /\ pc[c] \in {"allocate", "zero", "link"} =>
       lvl[c] > 0 /\ ~Present(mem[ptr[c]][Slot(req[c].va, lvl[c])])
  /\ pc[c] = "link" => mem[below[c]] = ZeroPage
  /\ pc[c] = "erase" => lvl[c] = 0

\* Whose calls there are, and what is known of them.
Calling(c) ==
  /\ pc[c] \in {"start", "clear pml4"} => done = 0
  /\ pc[c] \in {"start", "clear pml4", "init", "idle"} => req[c] = None
  /\ Inside(c) \/ pc[c] = "lock" => req[c] # None
  /\ pc[c] \in {"allocate", "zero", "link"} => req[c].op = "map"
  /\ pc[c] = "erase" => req[c].op = "unmap"
  /\ req[c] \in IF loaded THEN Requests \cup {None}
                ELSE IF done > 0 THEN {InitCalls[done], None} ELSE {None}
  /\ result[c] = None <=> pc[c] \notin {"flush", "unlock"}
  /\ pc[c] = "flush" => result[c] = "true"

\* Of the calls of init_mmu, so many have written their entry.
Written == IF loaded \/ pc[BootCore] \in {"init", "flush", "unlock"} THEN done ELSE done - 1

\* A page that init_mmu has mapped is mapped as its last call for it said.
BootMapped ==
  \A n \in 1 .. Written : \E m \in n .. Written :
    /\ InitCalls[m].va = InitCalls[n].va
    /\ Stored(InitCalls[n].va) = Word(InitCalls[m].pa, InitCalls[m].flags)

\* Before load_context callers have nothing.
Untouched ==
  ~loaded => /\ held = {} /\ replaced = {} /\ \A va \in CallerPages : Stored(va) = Zero
             /\ \A c \in Cores : tlb[c] = [va \in CallerPages |-> None]

Before ==
  /\ pc[BootCore] \in {"start", "clear pml4", "panic"}
  /\ ~loaded /\ done = 0 /\ held = {} /\ replaced = {}
  /\ page_map.pml4_address = page_map.cr3_paddr
  /\ IF pc[BootCore] = "clear pml4"
     THEN page_map.cr3_paddr \in Ram /\ free = Ram \ {page_map.cr3_paddr}
     ELSE page_map.cr3_paddr = 0 /\ free = Ram
  /\ \A c \in Cores : tlb[c] = [va \in CallerPages |-> None]

\* The calls that a core may be in, and what it may remember.
Calls == Requests \cup ToSet(InitCalls) \cup {None}
Remembered == [CallerPages -> Entries \cup {None}]

TTypes ==
  /\ mem \in [Ram -> [Slots -> Entries]] /\ free \subseteq Ram /\ held \subseteq Ram
  /\ replaced \subseteq Ram /\ page_map \in [pml4_address : Pages, cr3_paddr : Pages]
  /\ done \in 0 .. Len(InitCalls)
  /\ req \in [Cores -> Calls]
  /\ ptr \in [Cores -> Pages] /\ lvl \in [Cores -> Levels] /\ below \in [Cores -> Pages]
  /\ result \in [Cores -> {None, "true", "false"}]
  /\ tlb \in [Cores -> Remembered]
  /\ changed \in [Cores -> SUBSET CallerPages]

After(lv, via, kind, who) ==
  /\ page_map.pml4_address = page_map.cr3_paddr
  /\ Tree(mem, page_map.cr3_paddr, lv, via)
  /\ Used(lv, kind, who)
  /\ \A c \in Cores : Position(lv, via, c)
  /\ loaded => done = Len(InitCalls)
  /\ BootMapped /\ Untouched

TInv ==
  /\ LInv /\ TTypes /\ \A c \in Cores : Calling(c)
  /\ loaded => Booted
  /\ IF Booted THEN \E lv, via, kind, who : After(lv, via, kind, who) ELSE Before

-----------------------------------------------------------------------------
(* How claims change *)

\* Nothing changes for kind k.
Alike(k, kind, who, kind2, who2, f) ==
  \/ kind2[f] = kind[f] /\ who2[f] = who[f]
  \/ kind[f] # k /\ kind2[f] # k

\* The same claimants have the same pages.
LEMMA MatchKept ==
  ASSUME NEW C, NEW P, NEW k, NEW kind, NEW who, Match(C, P, k, kind, who),
         NEW D, NEW Q, NEW kind2, NEW who2,
         \A x : x \in D <=> x \in C, \A x \in C : Q[x] = P[x],
         \A f \in Ram : Alike(k, kind, who, kind2, who2, f)
  PROVE  Match(D, Q, k, kind2, who2)
<1>1. ASSUME NEW x \in D
      PROVE  Q[x] \in Ram /\ kind2[Q[x]] = k /\ who2[Q[x]] = x
  <2>1. x \in C /\ Q[x] = P[x]
    OBVIOUS
  <2>2. P[x] \in Ram /\ kind[P[x]] = k /\ who[P[x]] = x
    BY <2>1 DEF Match
  <2>. QED  BY <2>1, <2>2 DEF Alike
<1>2. ASSUME NEW f \in Ram, kind2[f] = k
      PROVE  who2[f] \in D /\ Q[who2[f]] = f
  <2>1. kind[f] = k /\ who2[f] = who[f]
    BY <1>2 DEF Alike
  <2>2. who[f] \in C /\ P[who[f]] = f
    BY <2>1 DEF Match
  <2>. QED  BY <2>1, <2>2
<1>. QED  BY <1>1, <1>2 DEF Match

\* One more has a page that was not of this kind.
LEMMA MatchMore ==
  ASSUME NEW C, NEW P, NEW k, NEW kind, NEW who, Match(C, P, k, kind, who),
         NEW D, NEW Q, NEW kind2, NEW who2, NEW x, NEW g \in Ram,
         \A y : y \in D <=> y \in C \/ y = x,
         x \notin C, \A y \in C : Q[y] = P[y], Q[x] = g,
         kind[g] # k, kind2[g] = k, who2[g] = x,
         \A f \in Ram : f # g => Alike(k, kind, who, kind2, who2, f)
  PROVE  Match(D, Q, k, kind2, who2)
<1>1. ASSUME NEW y \in D
      PROVE  Q[y] \in Ram /\ kind2[Q[y]] = k /\ who2[Q[y]] = y
  <2>1. CASE y = x
    BY <2>1
  <2>2. CASE y # x
    <3>1. y \in C /\ Q[y] = P[y]
      BY <2>2
    <3>2. P[y] \in Ram /\ kind[P[y]] = k /\ who[P[y]] = y
      BY <3>1 DEF Match
    <3>. QED  BY <3>1, <3>2 DEF Alike
  <2>. QED  BY <2>1, <2>2
<1>2. ASSUME NEW f \in Ram, kind2[f] = k
      PROVE  who2[f] \in D /\ Q[who2[f]] = f
  <2>1. CASE f = g
    BY <2>1
  <2>2. CASE f # g
    <3>1. kind[f] = k /\ who2[f] = who[f]
      BY <1>2, <2>2 DEF Alike
    <3>2. who[f] \in C /\ P[who[f]] = f
      BY <3>1 DEF Match
    <3>. QED  BY <3>1, <3>2
  <2>. QED  BY <2>1, <2>2
<1>. QED  BY <1>1, <1>2 DEF Match

\* One of them has no page of this kind any more.
LEMMA MatchLess ==
  ASSUME NEW C, NEW P, NEW k, NEW kind, NEW who, Match(C, P, k, kind, who),
         NEW D, NEW Q, NEW kind2, NEW who2, NEW x \in C, NEW g, P[x] = g,
         \A y : y \in D <=> y \in C /\ y # x,
         \A y \in D : Q[y] = P[y],
         kind2[g] # k,
         \A f \in Ram : f # g => Alike(k, kind, who, kind2, who2, f)
  PROVE  Match(D, Q, k, kind2, who2)
<1>1. g \in Ram /\ kind[g] = k /\ who[g] = x
  BY DEF Match
<1>2. ASSUME NEW y \in D
      PROVE  Q[y] \in Ram /\ kind2[Q[y]] = k /\ who2[Q[y]] = y
  <2>1. y \in C /\ y # x /\ Q[y] = P[y]
    OBVIOUS
  <2>2. P[y] \in Ram /\ kind[P[y]] = k /\ who[P[y]] = y
    BY <2>1 DEF Match
  <2>3. P[y] # g
    BY <1>1, <2>1, <2>2
  <2>. QED  BY <2>1, <2>2, <2>3 DEF Alike
<1>3. ASSUME NEW f \in Ram, kind2[f] = k
      PROVE  who2[f] \in D /\ Q[who2[f]] = f
  <2>1. f # g
    BY <1>3
  <2>2. kind[f] = k /\ who2[f] = who[f]
    BY <1>3, <2>1 DEF Alike
  <2>3. who[f] \in C /\ P[who[f]] = f
    BY <2>2 DEF Match
  <2>4. who[f] # x
    BY <2>1, <2>3
  <2>. QED  BY <2>2, <2>3, <2>4
<1>. QED  BY <1>2, <1>3 DEF Match

-----------------------------------------------------------------------------
(* The machine and the calls *)

AnyCall ==
  [op : {"map", "unmap"}, va : Pages, pa : Pages, flags : SUBSET Bits, free_pa : BOOLEAN]

\* The direct map changes no address of memory.
LEMMA Identity ==
  ASSUME WorkingMachine
  PROVE  /\ \A x \in Int : x + HHDM = x /\ x - HHDM = x
         /\ \A f \in Ram : (f + HHDM) % WORD = f
         /\ \A f \in Ram : f \in Pages /\ f % MASK = f /\ f # 0
<1>1. HHDM = 0
  BY Zenon DEF WorkingMachine, Mappable
<1>2. \A x \in Int : x + HHDM = x /\ x - HHDM = x
  BY <1>1
<1>3. ASSUME NEW f \in Ram
      PROVE  (f + HHDM) % WORD = f /\ f \in Pages /\ f % MASK = f /\ f # 0
  <2>1. f \in Int /\ f \in Pages /\ f % MASK = f /\ f % WORD = f /\ f # 0
    BY RamPages
  <2>2. f + HHDM = f
    BY <1>2, <2>1
  <2>. QED  BY <2>1, <2>2
<1>. QED  BY <1>2, <1>3

\* Nothing is not an entry, and not a call.
LEMMA NoneIsNothing ==
  None \notin Entries /\ None \notin AnyCall /\ None \notin {"true", "false"} /\ Zero \in Entries
<1>. Pages \subseteq Nat
  BY DEF Pages
<1>1. Entries \subseteq [pa : Nat, flags : SUBSET Bits]
  BY DEF Entries
<1>2. AnyCall \subseteq
        [op : {"map", "unmap"}, va : Nat, pa : Nat, flags : SUBSET Bits, free_pa : BOOLEAN]
  BY DEF AnyCall
<1>3. Zero \in Entries
  <2>1. 0 \in Pages /\ {} \in SUBSET Bits
    <3>1. \A w \in Nat \ {0} : 0 \in 0 .. w - 1
      OBVIOUS
    <3>. QED  BY <3>1, MmuAssumption DEF Pages
  <2>. QED  BY ONLY <2>1 DEF Zero, Entries
<1>4. None \notin Entries
  BY ONLY <1>1, NoneAssumption
<1>5. None \notin AnyCall
  BY ONLY <1>2, NoneAssumption, Zenon
<1>6. None \notin {"true", "false"}
  BY ONLY NoneAssumption
<1>. QED  BY <1>3, <1>4, <1>5, <1>6, Zenon

\* The pages that callers map.
LEMMA CallerPagesTypes ==
  /\ CallerPages \subseteq Pages /\ OwnPages \subseteq CallerPages
  /\ \A va \in CallerPages : va \in OwnPages <=> va \notin DevicePages
BY MmuAssumption DEF CallerPages, Pages

\* The word that map writes, which has the address and the flags if the address
\* is a physical one.
LEMMA Words ==
  ASSUME NEW pa \in Pages, NEW flags \in SUBSET Bits
  PROVE  /\ Word(pa, flags) \in Entries /\ Word(pa, flags).pa = pa
         /\ Present(Word(pa, flags)) <=> "present" \in flags
         /\ pa < MASK => Word(pa, flags) = [pa |-> pa, flags |-> flags]
<1>1. pa < MASK => ~(pa >= WORD \div 2)
  <2>1. WORD \div 2 \in Int /\ MASK \in Int /\ MASK <= WORD \div 2 /\ pa \in Int
    BY MmuAssumption DEF Pages
  <2>. QED  BY ONLY <2>1
<1>. QED  BY <1>1 DEF Word, Entries, Present, Bits

\* What a caller asks for.
LEMMA RequestTypes ==
  ASSUME NEW r \in Requests
  PROVE  /\ r \in AnyCall /\ r.va \in CallerPages
         /\ r.op = "map" /\ r.va \in OwnPages => r.pa \in Ram
         /\ r.op = "map" /\ r.va \notin OwnPages => r.pa \notin Ram
         /\ r.op = "map" => r.pa < MASK
         /\ r.op = "map" => r.free_pa = FALSE
         /\ r.op = "unmap" => (r.free_pa <=> r.va \in OwnPages)
<1>1. \A va \in CallerPages : va \in Pages /\ va % WORD = va
  <2>1. ASSUME NEW va \in CallerPages
        PROVE  va % WORD = va
    <3>1. va \in 0 .. WORD - 1 /\ WORD \in Nat \ {0}
      BY CallerPagesTypes, RamPages DEF Pages
    <3>. QED  BY <3>1
  <2>. QED  BY <2>1, CallerPagesTypes
<1>2. \A pa \in Devices : pa % WORD = pa /\ pa \in Pages /\ pa < MASK /\ pa \notin Ram
  <2>1. ASSUME NEW pa \in Devices
        PROVE  pa % WORD = pa /\ pa \in Pages /\ pa < MASK /\ pa \notin Ram
    <3>1. pa \in 0 .. MASK - 1 /\ MASK \in Nat /\ pa \notin Ram
      BY MmuAssumption, RamPages
    <3>2. WORD \in Nat \ {0} /\ MASK <= WORD
      BY RamPages
    <3>3. pa \in 0 .. WORD - 1
      BY <3>1, <3>2
    <3>. QED  BY <3>1, <3>2, <3>3 DEF Pages
  <2>. QED  BY <2>1
<1>3. \A pa \in Ram : pa % WORD = pa /\ pa \in Pages /\ pa < MASK
  BY RamPages
<1>4. CASE \E va \in OwnPages, pa \in Ram, f \in Flags : r = Mapping(va, pa, f)
  <2>1. PICK va \in OwnPages, pa \in Ram, f \in Flags : r = Mapping(va, pa, f)
    BY <1>4
  <2>2. va \in CallerPages /\ f \in SUBSET Bits
    BY CallerPagesTypes, MmuAssumption
  <2>3. r = [op |-> "map", va |-> va, pa |-> pa, flags |-> f, free_pa |-> FALSE]
    BY <1>1, <1>3, <2>1, <2>2 DEF Mapping
  <2>. QED  BY <1>1, <1>3, <2>2, <2>3 DEF AnyCall
<1>5. CASE \E va \in DevicePages, pa \in Devices, f \in Flags : r = Mapping(va, pa, f)
  <2>1. PICK va \in DevicePages, pa \in Devices, f \in Flags : r = Mapping(va, pa, f)
    BY <1>5
  <2>2. va \in CallerPages /\ f \in SUBSET Bits /\ va \notin OwnPages
    BY CallerPagesTypes, MmuAssumption DEF CallerPages
  <2>3. r = [op |-> "map", va |-> va, pa |-> pa, flags |-> f, free_pa |-> FALSE]
    BY <1>1, <1>2, <2>1, <2>2 DEF Mapping
  <2>. QED  BY <1>1, <1>2, <2>2, <2>3 DEF AnyCall
<1>6. CASE \E va \in CallerPages :
             r = [op |-> "unmap", va |-> va, pa |-> 0, flags |-> {}, free_pa |-> va \in OwnPages]
  <2>1. PICK va \in CallerPages :
          r = [op |-> "unmap", va |-> va, pa |-> 0, flags |-> {}, free_pa |-> va \in OwnPages]
    BY <1>6
  <2>2. 0 \in Pages /\ va \in Pages /\ {} \in SUBSET Bits /\ (va \in OwnPages) \in BOOLEAN
    BY <1>1, RamPages DEF Pages
  <2>3. r \in AnyCall
    BY <2>1, <2>2 DEF AnyCall
  <2>4. r.va = va /\ r.op = "unmap"
    BY <2>1
  <2>5. r.free_pa <=> va \in OwnPages
    BY <2>1
  <2>6. r.op # "map" /\ r.va \in CallerPages
    BY <2>4
  <2>7. r.free_pa <=> r.va \in OwnPages
    BY <2>4, <2>5, Zenon
  <2>. QED  BY <2>3, <2>6, <2>7, Zenon
<1>7. \/ \E m \in (OwnPages \X Ram \X Flags) \cup (DevicePages \X Devices \X Flags) :
           r = Mapping(m[1], m[2], m[3])
      \/ \E va \in CallerPages :
           r = [op |-> "unmap", va |-> va, pa |-> 0, flags |-> {}, free_pa |-> va \in OwnPages]
  BY Zenon DEF Requests
<1>8. ASSUME NEW m \in (OwnPages \X Ram \X Flags) \cup (DevicePages \X Devices \X Flags)
      PROVE  /\ m[3] \in Flags
             /\ \/ m[1] \in OwnPages /\ m[2] \in Ram
                \/ m[1] \in DevicePages /\ m[2] \in Devices
  <2>1. CASE m \in OwnPages \X Ram \X Flags
    BY <2>1
  <2>2. CASE m \in DevicePages \X Devices \X Flags
    BY <2>2
  <2>. QED  BY <2>1, <2>2, Zenon
<1>. QED  BY <1>4, <1>5, <1>6, <1>7, <1>8, Zenon

\* What init_mmu asks for.
LEMMA BootCallTypes ==
  ASSUME WorkingMachine, NEW n \in 1 .. Len(InitCalls)
  PROVE  /\ InitCalls[n] \in AnyCall /\ InitCalls[n] \in BootCall
         /\ InitCalls[n].op = "map" /\ InitCalls[n].va \in BootPages
         /\ InitCalls[n].va \notin CallerPages /\ InitCalls[n] \in ToSet(InitCalls)
<1>1. InitCalls \in Seq(BootCall)
  BY InitMaps
<1>2. InitCalls[n] \in BootCall
  BY <1>1
<1>3. InitCalls[n] \in AnyCall /\ InitCalls[n].op = "map"
  BY <1>2 DEF BootCall, AnyCall
<1>4. InitCalls[n].va \in BootPages
  BY DEF BootPages
<1>5. InitCalls[n].va \notin CallerPages
  BY <1>4, Zenon DEF WorkingMachine, Mappable
<1>6. InitCalls[n] \in ToSet(InitCalls)
  BY <1>1 DEF ToSet
<1>. QED  BY <1>2, <1>3, <1>4, <1>5, <1>6

\* The pages whose mappings are told apart.
Told == BootPages \cup CallerPages

\* The tables tell them apart, and the processor takes those of memory and of callers.
LEMMA ToldApart ==
  ASSUME WorkingMachine
  PROVE  /\ Told \subseteq Pages /\ Ram \subseteq Told
         /\ \A a, b \in Told : a # b => \E l \in Levels : Slot(a, l) # Slot(b, l)
         /\ \A a \in Ram \cup CallerPages : Canonical(a)
         /\ \A a \in BootPages : a \notin CallerPages
<1>1. /\ InitCalls \in Seq(BootCall)
      /\ \A f \in Ram : \E n \in 1 .. Len(InitCalls) : InitCalls[n].va = f
  BY InitMaps
<1>2. \A n \in 1 .. Len(InitCalls) : InitCalls[n].va \in Pages
  BY BootCallTypes DEF AnyCall
<1>3. BootPages \subseteq Pages /\ Ram \subseteq BootPages
  BY <1>1, <1>2 DEF BootPages
<1>4. \A a, b \in Told : a # b => \E l \in Levels : Slot(a, l) # Slot(b, l)
  BY Zenon DEF WorkingMachine, Mappable, Told
<1>5. \A a \in Ram \cup CallerPages : Canonical(a)
  BY Zenon DEF WorkingMachine, Mappable
<1>6. \A a \in BootPages : a \notin CallerPages
  BY Zenon DEF WorkingMachine, Mappable
<1>. QED  BY <1>3, <1>4, <1>5, <1>6, CallerPagesTypes DEF Told

-----------------------------------------------------------------------------
(* What the code reaches *)

\* Where the code looks for a page of memory it finds it: first by the tables
\* of the boot loader, then by those that init_mmu has written.
LEMMA Reaches ==
  ASSUME WorkingMachine, TInv, NEW f \in Ram
  PROVE  Reach(f) = f
<1>1. CASE ~loaded
  <2>1. f - HHDM = f /\ f \in Physical
    BY Identity, RamPages
  <2>. QED  BY <1>1, <2>1 DEF Reach
<1>2. CASE loaded
  <2>1. BootMapped /\ done = Len(InitCalls) /\ Written = done
    BY <1>2 DEF TInv, After, Written
  <2>2. PICK n \in 1 .. Len(InitCalls) : InitCalls[n].va = f
    BY InitMaps
  <2>3. PICK m \in n .. Written :
          /\ InitCalls[m].va = InitCalls[n].va
          /\ Stored(f) = Word(InitCalls[m].pa, InitCalls[m].flags)
    BY <2>1, <2>2 DEF BootMapped
  <2>4. m \in 1 .. Len(InitCalls)
    <3>1. Len(InitCalls) \in Nat
      BY InitMaps
    <3>. QED  BY <2>1, <2>2, <2>3, <3>1
  <2>5. InitCalls[m] \in BootCall /\ InitCalls[m].va = f
    BY <2>2, <2>3, <2>4, BootCallTypes
  <2>6. InitCalls[m].pa = f /\ "present" \in InitCalls[m].flags
    BY <2>5 DEF BootCall, WorkingMachine
  <2>7. PICK e : e = Stored(f)
    OBVIOUS
  <2>8. e.pa = f /\ Present(e) /\ e \in Entries
    <3>1. InitCalls[m] \in AnyCall
      BY <2>4, BootCallTypes
    <3>2. InitCalls[m].pa \in Pages /\ InitCalls[m].flags \in SUBSET Bits
      BY <3>1 DEF AnyCall
    <3>. QED  BY <2>3, <2>6, <2>7, <3>2, Words
  <2>9. Canonical(f)
    BY ToldApart
  <2>10. Walk(f) = e
    BY <1>2, <2>7, <2>8, <2>9, Zenon DEF Walk
  <2>11. e # None
    BY <2>8, NoneIsNothing
  <2>12. Reach(f) = e.pa % MASK
    BY <1>2, <2>10, <2>11, Zenon DEF Reach
  <2>. QED  BY <2>8, <2>12, Identity
<1>. QED  BY <1>1, <1>2

-----------------------------------------------------------------------------
(* Types *)

\* They have their types.
LEMMA CallsTypes ==
  ASSUME WorkingMachine, NEW r \in Calls, r # None
  PROVE  r \in AnyCall /\ (r.op = "map" \/ r.op = "unmap")
<1>1. ASSUME r \in ToSet(InitCalls)
      PROVE  r \in AnyCall
  <2>1. PICK n \in DOMAIN InitCalls : r = InitCalls[n]
    BY <1>1 DEF ToSet
  <2>2. DOMAIN InitCalls = 1 .. Len(InitCalls)
    BY InitMaps
  <2>. QED  BY <2>1, <2>2, BootCallTypes
<1>2. r \in AnyCall
  BY <1>1, RequestTypes DEF Calls
<1>. QED  BY <1>2 DEF AnyCall

\* The page table entry that is found has its type.
LEMMA StoredTypes ==
  ASSUME NEW m \in [Ram -> [Slots -> Entries]], NEW root, NEW lv, NEW via,
         Tree(m, root, lv, via), NEW a \in Pages
  PROVE  StoredIn(m, root, a) \in Entries
<1>1. CASE \E f : On(lv, via, f, 0, a)
  <2>1. PICK f : On(lv, via, f, 0, a)
    BY <1>1
  <2>2. StoredIn(m, root, a) = m[f][Slot(a, 0)] /\ f \in Ram
    BY <2>1, StoredEntry DEF On
  <2>3. Slot(a, 0) \in Slots
    BY SlotType, LevelNumbers
  <2>. QED  BY <2>2, <2>3
<1>2. CASE ~\E f : On(lv, via, f, 0, a)
  <2>1. StoredIn(m, root, a) = Zero
    BY <1>2, StoredEntry
  <2>. QED  BY <2>1, NoneIsNothing
<1>. QED  BY <1>1, <1>2

-----------------------------------------------------------------------------
(* Steps *)

\* The other cores stand still.
Stays(c) ==
  \A d \in Cores : d # c => /\ pc'[d] = pc[d] /\ req'[d] = req[d] /\ ptr'[d] = ptr[d]
                            /\ lvl'[d] = lvl[d] /\ below'[d] = below[d] /\ result'[d] = result[d]

\* The local variables are functions of the cores.
LocalsAreFunctions ==
  /\ pc \in [Cores -> States] /\ req \in [Cores -> Calls] /\ ptr \in [Cores -> Pages]
  /\ lvl \in [Cores -> Levels] /\ below \in [Cores -> Pages]
  /\ result \in [Cores -> {None, "true", "false"}]

\* A core's step is its own.
LEMMA OthersStay ==
  ASSUME LocalsAreFunctions, NEW c \in Cores, Step(c)
  PROVE  Stays(c)
<1>. USE DEF Goto, boot, locals, seen, owners, Stays, LocalsAreFunctions
<1>2. CASE StartMmu(c)
  BY <1>2 DEF StartMmu
<1>3. CASE ClearPml4(c)
  BY <1>3 DEF ClearPml4, At
<1>4. CASE InitMap(c)
  BY <1>4 DEF InitMap
<1>5. CASE LoadContext(c)
  BY <1>5 DEF LoadContext
<1>6. CASE Lock(c)
  BY <1>6 DEF Lock
<1>7. CASE Unlock(c)
  BY <1>7 DEF Unlock
<1>8. CASE Descend(c)
  BY <1>8 DEF Descend, At, Enter
<1>9. CASE AllocTable(c)
  BY <1>9 DEF AllocTable
<1>10. CASE AllocFails(c)
  BY <1>10 DEF AllocFails
<1>11. CASE ZeroTable(c)
  BY <1>11 DEF ZeroTable, At
<1>12. CASE LinkTable(c)
  BY <1>12 DEF LinkTable, Enter
<1>13. CASE WriteEntry(c)
  BY <1>13 DEF WriteEntry, At
<1>14. CASE FreePage(c)
  BY <1>14 DEF FreePage, At
<1>15. CASE EraseEntry(c)
  BY <1>15 DEF EraseEntry
<1>16. CASE tlb_flush(c)
  BY <1>16 DEF tlb_flush
<1>. QED
  BY <1>2, <1>3, <1>4, <1>5, <1>6, <1>7, <1>8, <1>9, <1>10, <1>11, <1>12, <1>13, <1>14,
     <1>15, <1>16 DEF Step

\* What is stored, after a step.
LEMMA StoredThen ==
  ASSUME NEW a
  PROVE  Stored(a)' = StoredIn(mem', page_map'.cr3_paddr, a)
BY DEF Stored, StoredIn, WalkTables, Follow, Below, BelowIn

\* It changes with memory and root only.
LEMMA StoredSame ==
  ASSUME mem' = mem, page_map' = page_map
  PROVE  \A a : Stored(a)' = Stored(a)
BY StoredNow, StoredThen

\* A core that stands still is where it was, if memory is what it was.
LEMMA PositionKept ==
  ASSUME NEW lv, NEW via, NEW c \in Cores, NEW d \in Cores, Stays(c), d # c,
         Position(lv, via, d), mem' = mem
  PROVE  Position(lv, via, d)'
BY DEF Position, Stays, AtTable

\* A core that is at no table is nowhere.
LEMMA NoPosition ==
  ASSUME NEW lv, NEW via, NEW d \in Cores, pc'[d] \notin {"walk", "allocate", "zero", "link",
         "erase"}
  PROVE  Position(lv, via, d)'
BY DEF Position, AtTable

\* The others are not at a table while one core is inside.
LEMMA OthersNowhere ==
  ASSUME LInv, NEW c \in Cores, Inside(c), Stays(c), NEW lv, NEW via
  PROVE  \A d \in Cores : d # c => ~Inside(d) /\ Position(lv, via, d)'
<1>1. ASSUME NEW d \in Cores, d # c
      PROVE  ~Inside(d) /\ pc'[d] = pc[d]
  BY <1>1 DEF LInv, OneCoreInside, Stays
<1>2. ASSUME NEW d \in Cores, d # c
      PROVE  Position(lv, via, d)'
  <2>1. pc'[d] \notin {"walk", "allocate", "zero", "link", "erase"}
    BY <1>1, <1>2 DEF Inside, InsideStates
  <2>. QED  BY <2>1, NoPosition
<1>. QED  BY <1>1, <1>2

-----------------------------------------------------------------------------
(* Steps that leave every page with the use it has *)

\* What core c has, asks for and is freeing.
SameHold(c) == (Holding(c)' <=> Holding(c)) /\ (Holding(c) => below'[c] = below[c])
SameAsk(c) == (Asking(c)' <=> Asking(c)) /\ (Asking(c) => req'[c].pa = req[c].pa)
SameFree(c) == (Freeing(c)' <=> Freeing(c)) /\ (Freeing(c) => req'[c].va = req[c].va)

\* The cores that stand still keep what they have.
LEMMA OthersSame ==
  ASSUME NEW c \in Cores, Stays(c), NEW d \in Cores, d # c
  PROVE  SameHold(d) /\ SameAsk(d) /\ SameFree(d)
BY DEF Stays, SameHold, SameAsk, SameFree, Holding, Asking, Freeing

\* Who has a new table keeps it.
LEMMA HoldersKept ==
  ASSUME \A d \in Cores : SameHold(d), NEW kind, NEW who, NEW kind2, NEW who2,
         Match(Holders, below, "below", kind, who),
         \A f \in Ram : Alike("below", kind, who, kind2, who2, f)
  PROVE  Match(Holders', below', "below", kind2, who2)
<1>1. \A x : x \in Holders' <=> x \in Holders
  BY DEF Holders, SameHold
<1>2. \A x \in Holders : below'[x] = below[x]
  BY DEF Holders, SameHold
<1>. QED  BY <1>1, <1>2, MatchKept

\* Who asks for a page of its own to be mapped goes on asking.
LEMMA AskersKept ==
  ASSUME \A d \in Cores : SameAsk(d), NEW kind, NEW who, NEW kind2, NEW who2,
         Match(Askers, AskedOf, "asked", kind, who),
         \A f \in Ram : Alike("asked", kind, who, kind2, who2, f)
  PROVE  Match(Askers', AskedOf', "asked", kind2, who2)
<1>1. \A x : x \in Askers' <=> x \in Askers
  BY DEF Askers, SameAsk
<1>2. \A x \in Askers : AskedOf'[x] = AskedOf[x]
  BY DEF Askers, AskedOf, SameAsk
<1>. QED  BY <1>1, <1>2, MatchKept

\* The pages that are mapped stay mapped.
LEMMA MappedKept ==
  ASSUME \A d \in Cores : SameFree(d), \A va \in OwnPages : Stored(va)' = Stored(va),
         NEW kind, NEW who, NEW kind2, NEW who2,
         Match(MappedPages, MappedTo, "mapped", kind, who),
         \A f \in Ram : Alike("mapped", kind, who, kind2, who2, f)
  PROVE  Match(MappedPages', MappedTo', "mapped", kind2, who2)
<1>1. ASSUME NEW va \in OwnPages
      PROVE  Mapped(va)' <=> Mapped(va)
  <2>1. (\E d \in Cores : Freeing(d) /\ req[d].va = va)'
          <=> (\E d \in Cores : Freeing(d) /\ req[d].va = va)
    BY DEF SameFree
  <2>. QED  BY <2>1 DEF Mapped
<1>2. \A x : x \in MappedPages' <=> x \in MappedPages
  BY <1>1 DEF MappedPages
<1>3. \A x \in MappedPages : MappedTo'[x] = MappedTo[x]
  BY DEF MappedPages, MappedTo
<1>. QED  BY <1>2, <1>3, MatchKept

\* All the uses.
LEMMA UsedKept ==
  ASSUME NEW lv, NEW kind, NEW who, Used(lv, kind, who), UNCHANGED <<free, held, replaced>>,
         \A va \in OwnPages : Stored(va)' = Stored(va),
         \A d \in Cores : SameHold(d) /\ SameAsk(d) /\ SameFree(d)
  PROVE  Used(lv, kind, who)'
<1>1. \A f \in Ram, k \in Uses : Alike(k, kind, who, kind, who, f)
  BY DEF Alike
<1>2. Match(Holders', below', "below", kind, who)
  BY <1>1, HoldersKept DEF Used, Uses
<1>3. Match(Askers', AskedOf', "asked", kind, who)
  BY <1>1, AskersKept DEF Used, Uses
<1>4. Match(MappedPages', MappedTo', "mapped", kind, who)
  BY <1>1, MappedKept DEF Used, Uses
<1>. QED  BY <1>2, <1>3, <1>4 DEF Used, Placed

\* What the rest of the invariant needs of such a step.
Steady ==
  /\ \A a \in Pages : Stored(a)' = Stored(a)
  /\ Written' = Written /\ (loaded' => done' = Len(InitCalls))
  /\ page_map' = page_map
  /\ ~loaded' => ~loaded /\ held' = held /\ replaced' = replaced /\ tlb' = tlb

\* With the tree, the uses and the positions the rest of the invariant is kept.
LEMMA AfterKept ==
  ASSUME WorkingMachine, TTypes, Steady, NEW lv, NEW via, NEW kind, NEW who,
         After(lv, via, kind, who),
         NEW lv2, NEW via2, NEW kind2, NEW who2, Tree(mem', page_map'.cr3_paddr, lv2, via2),
         Used(lv2, kind2, who2)', \A d \in Cores : Position(lv2, via2, d)'
  PROVE  After(lv2, via2, kind2, who2)'
<1>1. page_map'.pml4_address = page_map'.cr3_paddr
  BY DEF After, Steady
<1>2. Tree(mem, page_map.cr3_paddr, lv2, via2)'
  OBVIOUS
<1>3. \A n \in 1 .. Len(InitCalls) : Stored(InitCalls[n].va)' = Stored(InitCalls[n].va)
  BY BootCallTypes DEF Steady, AnyCall
<1>4. BootMapped'
  <2>1. Written \in Int /\ Written <= Len(InitCalls)
    BY InitMaps DEF TTypes, Written
  <2>2. \A n \in 1 .. Written : \E m \in n .. Written :
          /\ InitCalls[m].va = InitCalls[n].va
          /\ Stored(InitCalls[n].va) = Word(InitCalls[m].pa, InitCalls[m].flags)
    BY DEF After, BootMapped
  <2>3. \A n \in 1 .. Written : n \in 1 .. Len(InitCalls)
    BY <2>1, InitMaps
  <2>4. \A n \in 1 .. Written : \E m \in n .. Written :
          /\ InitCalls[m].va = InitCalls[n].va
          /\ Stored(InitCalls[n].va)' = Word(InitCalls[m].pa, InitCalls[m].flags)
    BY <1>3, <2>2, <2>3
  <2>5. Written' = Written
    BY DEF Steady
  <2>. QED  BY <2>4, <2>5 DEF BootMapped
<1>5. Untouched'
  BY CallerPagesTypes DEF After, Untouched, Steady
<1>6. loaded' => done' = Len(InitCalls)
  BY DEF Steady
<1>. QED  BY <1>1, <1>2, <1>4, <1>5, <1>6 DEF After

-----------------------------------------------------------------------------
(* Parts of the proof that a step keeps the invariant *)

\* What the invariant says, in parts.
LEMMA TInvParts ==
  ASSUME TInv
  PROVE  /\ LInv /\ TTypes /\ LocalsAreFunctions /\ (\A d \in Cores : Calling(d))
         /\ (loaded => Booted) /\ (~Booted => Before)
         /\ (Booted => \E lv, via, kind, who : After(lv, via, kind, who))
BY DEF TInv, LocalsAreFunctions, LInv, TTypes

\* Who is past the beginning of init_mmu has a root to work with.
LEMMA BootedWhenWorking ==
  ASSUME TInv, NEW c \in Cores, pc[c] \notin {"start", "clear pml4", "panic", "idle"}
  PROVE  Booted
<1>1. LInv /\ (loaded => Booted) /\ (~Booted => Before)
  BY TInvParts
<1>2. ~loaded => c = BootCore
  BY <1>1 DEF LInv, BootInv
<1>. QED  BY <1>1, <1>2 DEF Before, Booted

\* A core in the middle of map or unmap has a table in memory that it reaches.
LEMMA AtWork ==
  ASSUME WorkingMachine, TInv, NEW c \in Cores, AtTable(c)
  PROVE  /\ Booted /\ Inside(c) /\ ptr[c] \in Ram /\ Reach(ptr[c]) = ptr[c] /\ lvl[c] \in Levels
         /\ req[c] \in AnyCall /\ req[c] # None /\ req[c].va \in Pages /\ req[c].va \in Told
         /\ IndexOf(req[c].va, lvl[c]) = Slot(req[c].va, lvl[c])
         /\ Slot(req[c].va, lvl[c]) \in Slots
         /\ Entry(c) = mem[ptr[c]][Slot(req[c].va, lvl[c])] /\ Entry(c) \in Entries
<1>1. LInv /\ TTypes /\ Calling(c) /\ (Booted => \E lv, via, kind, who : After(lv, via, kind, who))
  BY TInvParts
<1>2. Booted /\ Inside(c)
  BY BootedWhenWorking DEF AtTable, Inside, InsideStates
<1>3. PICK lv, via : Position(lv, via, c)
  BY <1>1, <1>2 DEF After
<1>4. lvl[c] \in Levels /\ On(lv, via, ptr[c], lvl[c], req[c].va)
  BY <1>3 DEF Position
<1>5. ptr[c] \in Ram
  BY <1>4 DEF On
<1>6. Reach(ptr[c]) = ptr[c]
  BY <1>5, Reaches
<1>7. req[c] # None /\ req[c] \in Calls
  BY <1>1, <1>2 DEF Calling, TTypes
<1>8. req[c] \in AnyCall
  BY <1>7, CallsTypes
<1>9. req[c].va \in Pages
  BY <1>8 DEF AnyCall
<1>10. req[c].va \in Told
  <2>1. CASE req[c] \in Requests
    BY <2>1, RequestTypes DEF Told
  <2>2. CASE req[c] \in ToSet(InitCalls)
    <3>1. PICK n \in DOMAIN InitCalls : req[c] = InitCalls[n]
      BY <2>2 DEF ToSet
    <3>2. DOMAIN InitCalls = 1 .. Len(InitCalls)
      BY InitMaps
    <3>. QED  BY <3>1, <3>2, BootCallTypes DEF Told
  <2>. QED  BY <1>7, <2>1, <2>2 DEF Calls
<1>11. IndexOf(req[c].va, lvl[c]) = Slot(req[c].va, lvl[c])
  BY DEF IndexOf, Slot
<1>12. Slot(req[c].va, lvl[c]) \in Slots
  BY <1>4, <1>9, SlotType
<1>13. Entry(c) = mem[ptr[c]][Slot(req[c].va, lvl[c])]
  BY <1>6, <1>11 DEF Entry
<1>14. Entry(c) \in Entries
  BY <1>1, <1>5, <1>12, <1>13 DEF TTypes
<1>. QED  BY <1>2, <1>4, <1>5, <1>6, <1>7, <1>8, <1>9, <1>10, <1>11, <1>12, <1>13, <1>14

\* Before load_context the calls are those of init_mmu.
LEMMA BootCallsOnly ==
  ASSUME WorkingMachine, TInv, NEW c \in Cores, ~loaded, req[c] # None
  PROVE  /\ done \in 1 .. Len(InitCalls) /\ req[c] = InitCalls[done] /\ c = BootCore
         /\ req[c].op = "map" /\ req[c].va \in BootPages
<1>1. Calling(c) /\ TTypes /\ LInv
  BY TInvParts
<1>2. done > 0 /\ req[c] = InitCalls[done]
  BY <1>1 DEF Calling
<1>3. done \in 1 .. Len(InitCalls)
  BY <1>1, <1>2, InitMaps DEF TTypes
<1>4. c = BootCore
  BY <1>1 DEF Calling, LInv, BootInv
<1>. QED  BY <1>2, <1>3, <1>4, BootCallTypes

\* What is left to show of a step of core c is about core c and the tables.
LEMMA StepDone ==
  ASSUME TInv, Booted, NEW c \in Cores, Stays(c), LInv', TTypes', Calling(c)',
         pc'[c] \notin {"start", "clear pml4"}, loaded' = loaded, done' = done,
         loaded \/ pc[c] # "init",
           page_map' = page_map,
         NEW lv, NEW via, NEW kind, NEW who, After(lv, via, kind, who)'
  PROVE  TInv'
<1>1. \A d \in Cores : Calling(d)
  BY TInvParts
<1>2. ASSUME NEW d \in Cores, d # c
      PROVE  Calling(d)'
  BY <1>1, <1>2 DEF Calling, Stays, Inside
<1>3. Booted'
  BY MmuAssumption DEF Booted, Stays
<1>. QED  BY <1>2, <1>3 DEF TInv

\* The same for a step that changes no use of a page and no memory.
LEMMA QuietStepDone ==
  ASSUME WorkingMachine, TInv, Booted, NEW c \in Cores, Stays(c), LInv', TTypes', Calling(c)',
         pc'[c] \notin {"start", "clear pml4"}, loaded' = loaded, done' = done,
         loaded \/ pc[c] # "init",
           page_map' = page_map,
         mem' = mem, UNCHANGED <<free, held, replaced>>, ~loaded => tlb' = tlb,
         SameHold(c), SameAsk(c), SameFree(c),
         loaded \/ (pc'[BootCore] \in {"init", "flush", "unlock"}
                      <=> pc[BootCore] \in {"init", "flush", "unlock"}),
         NEW lv, NEW via, NEW kind, NEW who, After(lv, via, kind, who), Position(lv, via, c)'
  PROVE  TInv'
<1>1. TTypes
  BY TInvParts
<1>2. \A a : Stored(a)' = Stored(a)
  BY StoredSame
<1>3. Steady
  BY <1>2 DEF Steady, Written, After
<1>4. \A d \in Cores : SameHold(d) /\ SameAsk(d) /\ SameFree(d)
  BY OthersSame
<1>5. Used(lv, kind, who)'
  BY <1>2, <1>4, UsedKept DEF After
<1>6. \A d \in Cores : Position(lv, via, d)'
  BY PositionKept DEF After
<1>7. Tree(mem', page_map'.cr3_paddr, lv, via)
  BY DEF After
<1>8. After(lv, via, kind, who)'
  BY <1>1, <1>3, <1>5, <1>6, <1>7, AfterKept
<1>. QED  BY <1>8, StepDone

-----------------------------------------------------------------------------
(* Steps that change no use of a page *)

\* Lock puts the core at the root.
LEMMA LockStep ==
  ASSUME WorkingMachine, TInv, LInv', NEW c \in Cores, Stays(c), Lock(c)
  PROVE  TInv'
<1>1. /\ pc[c] = "lock" /\ ~mmu_lock /\ pc' = [pc EXCEPT ![c] = "walk"]
      /\ ptr' = [ptr EXCEPT ![c] = page_map.pml4_address] /\ lvl' = [lvl EXCEPT ![c] = Depth - 1]
      /\ UNCHANGED <<mem, free, page_map, loaded, done, req, below, result, tlb, changed, held,
           replaced>>
  BY DEF Lock, Goto, boot, seen, owners
<1>2. LInv /\ TTypes /\ LocalsAreFunctions /\ Calling(c)
  BY TInvParts
<1>3. pc'[c] = "walk" /\ ptr'[c] = page_map.pml4_address /\ lvl'[c] = Depth - 1 /\ req'[c] = req[c]
  BY <1>1, <1>2 DEF LocalsAreFunctions
<1>4. Booted
  BY <1>1, BootedWhenWorking
<1>5. PICK lv, via, kind, who : After(lv, via, kind, who)
  BY <1>4, TInvParts
<1>6. Position(lv, via, c)'
  <2>1. On(lv, via, page_map.cr3_paddr, Depth - 1, req[c].va)
    BY <1>5, AtRoot DEF After
  <2>2. page_map.pml4_address = page_map.cr3_paddr
    BY <1>5 DEF After
  <2>. QED  BY <1>3, <2>1, <2>2, LevelNumbers DEF Position, AtTable
<1>7. TTypes'
  <2>1. ptr' \in [Cores -> Pages]
    BY <1>1, <1>2 DEF TTypes
  <2>2. lvl' \in [Cores -> Levels]
    BY <1>1, <1>2, LevelNumbers DEF TTypes
  <2>. QED  BY <1>1, <1>2, <2>1, <2>2 DEF TTypes
<1>8. Calling(c)'
  BY <1>1, <1>2, <1>3 DEF Calling, Inside, InsideStates
<1>9. SameHold(c) /\ SameAsk(c) /\ SameFree(c)
  BY <1>1, <1>3 DEF SameHold, SameAsk, SameFree, Holding, Asking, Freeing
<1>10. pc'[BootCore] \in {"init", "flush", "unlock"}
         <=> pc[BootCore] \in {"init", "flush", "unlock"}
  BY <1>1, <1>3, MmuAssumption DEF Stays
<1>. QED  BY <1>1, <1>3, <1>4, <1>5, <1>6, <1>7, <1>8, <1>9, <1>10, QuietStepDone

\* Descend goes to the table below, or finds none.
LEMMA DescendStep ==
  ASSUME WorkingMachine, TInv, LInv', NEW c \in Cores, Stays(c), Descend(c)
  PROVE  TInv'
<1>1. pc[c] = "walk" /\ lvl[c] > 0
  BY DEF Descend, Inner
<1>2. LInv /\ TTypes /\ LocalsAreFunctions /\ Calling(c)
  BY TInvParts
<1>3. /\ Booted /\ ptr[c] \in Ram /\ Reach(ptr[c]) = ptr[c] /\ lvl[c] \in Levels
      /\ req[c] \in AnyCall /\ req[c] # None /\ req[c].va \in Pages
      /\ Entry(c) = mem[ptr[c]][Slot(req[c].va, lvl[c])] /\ Entry(c) \in Entries
  BY <1>1, AtWork DEF AtTable
<1>4. /\ IF Present(Entry(c))
         THEN Enter(c, Entry(c).pa % MASK) /\ UNCHANGED <<pc, result>>
         ELSE IF req[c].op = "map"
         THEN pc' = [pc EXCEPT ![c] = "allocate"] /\ UNCHANGED <<ptr, lvl, result>>
         ELSE /\ result' = [result EXCEPT ![c] = "false"]
              /\ pc' = [pc EXCEPT ![c] = "unlock"] /\ UNCHANGED <<ptr, lvl>>
      /\ UNCHANGED <<mem, free, page_map, loaded, done, req, below, tlb, changed, held, replaced>>
  BY <1>3 DEF Descend, At, Goto, boot, seen, owners
<1>5. PICK lv, via, kind, who : After(lv, via, kind, who)
  BY <1>3, TInvParts
<1>6. On(lv, via, ptr[c], lvl[c], req[c].va) /\ Tree(mem, page_map.cr3_paddr, lv, via)
  BY <1>1, <1>5 DEF After, Position, AtTable
<1>7. CASE Present(Entry(c))
  <2>1. PICK g : g = mem[ptr[c]][Slot(req[c].va, lvl[c])].pa % MASK
    OBVIOUS
  <2>2. On(lv, via, g, lvl[c] - 1, req[c].va) /\ lvl[c] - 1 \in Levels
    BY <1>1, <1>3, <1>6, <1>7, <2>1, Down
  <2>3. g \in Ram /\ (g + HHDM) % WORD = g
    BY <2>2, Identity DEF On
  <2>4. /\ ptr' = [ptr EXCEPT ![c] = g] /\ lvl' = [lvl EXCEPT ![c] = lvl[c] - 1]
        /\ UNCHANGED <<pc, result>>
    BY <1>3, <1>4, <1>7, <2>1, <2>3 DEF Enter
  <2>5. ptr'[c] = g /\ lvl'[c] = lvl[c] - 1 /\ pc'[c] = "walk" /\ req'[c] = req[c]
    BY <1>1, <1>2, <1>4, <2>4 DEF LocalsAreFunctions
  <2>6. Position(lv, via, c)'
    BY <2>2, <2>5 DEF Position, AtTable
  <2>7. TTypes'
    <3>1. ptr' \in [Cores -> Pages] /\ lvl' \in [Cores -> Levels]
      BY <1>2, <2>2, <2>3, <2>4, Identity DEF TTypes
    <3>. QED  BY <1>2, <1>4, <2>4, <3>1 DEF TTypes
  <2>8. Calling(c)'
    BY <1>1, <1>2, <1>4, <2>4 DEF Calling, Inside
  <2>9. SameHold(c) /\ SameAsk(c) /\ SameFree(c)
    BY <1>4, <2>4 DEF SameHold, SameAsk, SameFree, Holding, Asking, Freeing
  <2>. QED  BY <1>3, <1>4, <1>5, <2>4, <2>5, <2>6, <2>7, <2>8, <2>9, QuietStepDone
<1>8. CASE ~Present(Entry(c)) /\ req[c].op = "map"
  <2>1. pc' = [pc EXCEPT ![c] = "allocate"] /\ UNCHANGED <<ptr, lvl, result>>
    BY <1>4, <1>8
  <2>2. pc'[c] = "allocate" /\ ptr'[c] = ptr[c] /\ lvl'[c] = lvl[c] /\ req'[c] = req[c]
    BY <1>2, <1>4, <2>1 DEF LocalsAreFunctions
  <2>3. Position(lv, via, c)'
    BY <1>1, <1>3, <1>4, <1>6, <1>8, <2>2 DEF Position, AtTable
  <2>4. TTypes'
    BY <1>2, <1>4, <2>1 DEF TTypes
  <2>5. Calling(c)'
    BY <1>1, <1>2, <1>3, <1>4, <1>8, <2>1, <2>2 DEF Calling, Inside, InsideStates
  <2>6. SameHold(c) /\ SameAsk(c) /\ SameFree(c)
    BY <1>1, <1>4, <2>1, <2>2 DEF SameHold, SameAsk, SameFree, Holding, Asking, Freeing
  <2>7. pc'[BootCore] \in {"init", "flush", "unlock"}
          <=> pc[BootCore] \in {"init", "flush", "unlock"}
    BY <1>1, <2>2, MmuAssumption DEF Stays
  <2>. QED  BY <1>1, <1>3, <1>4, <1>5, <2>1, <2>2, <2>3, <2>4, <2>5, <2>6, <2>7, QuietStepDone
<1>9. CASE ~Present(Entry(c)) /\ req[c].op # "map"
  <2>1. /\ result' = [result EXCEPT ![c] = "false"] /\ pc' = [pc EXCEPT ![c] = "unlock"]
        /\ UNCHANGED <<ptr, lvl>>
    BY <1>4, <1>9
  <2>2. pc'[c] = "unlock" /\ req'[c] = req[c] /\ result'[c] = "false"
    BY <1>2, <1>4, <2>1 DEF LocalsAreFunctions
  <2>3. Position(lv, via, c)'
    BY <2>2, NoPosition
  <2>4. TTypes'
    <3>1. result' \in [Cores -> {None, "true", "false"}]
      BY <1>2, <2>1 DEF TTypes
    <3>. QED  BY <1>2, <1>4, <2>1, <3>1 DEF TTypes
  <2>5. Calling(c)'
    BY <1>1, <1>2, <1>3, <1>4, <2>2, NoneIsNothing DEF Calling, Inside, InsideStates
  <2>6. SameHold(c) /\ SameAsk(c) /\ SameFree(c)
    BY <1>1, <1>4, <1>9, <2>2 DEF SameHold, SameAsk, SameFree, Holding, Asking, Freeing
  <2>7. loaded
    BY <1>3, <1>9, BootCallsOnly
  <2>. QED  BY <1>1, <1>3, <1>4, <1>5, <2>1, <2>2, <2>3, <2>4, <2>5, <2>6, <2>7, QuietStepDone
<1>. QED  BY <1>7, <1>8, <1>9

\* AllocFails stops the core where it is.
LEMMA AllocFailsStep ==
  ASSUME WorkingMachine, TInv, LInv', NEW c \in Cores, Stays(c), AllocFails(c)
  PROVE  TInv'
<1>1. /\ pc[c] = "allocate" /\ pc' = [pc EXCEPT ![c] = "panic"]
      /\ UNCHANGED <<mem, free, page_map, loaded, done, req, ptr, lvl, below, result, tlb,
           changed, held, replaced>>
  BY DEF AllocFails, Goto, boot, seen, owners
<1>2. LInv /\ TTypes /\ LocalsAreFunctions /\ Calling(c)
  BY TInvParts
<1>3. pc'[c] = "panic" /\ req'[c] = req[c] /\ result'[c] = result[c]
  BY <1>1, <1>2 DEF LocalsAreFunctions
<1>4. Booted
  BY <1>1, BootedWhenWorking
<1>5. PICK lv, via, kind, who : After(lv, via, kind, who)
  BY <1>4, TInvParts
<1>6. Position(lv, via, c)'
  BY <1>3, NoPosition
<1>7. TTypes'
  BY <1>1, <1>2 DEF TTypes
<1>8. Calling(c)'
  BY <1>1, <1>2, <1>3 DEF Calling, Inside, InsideStates
<1>9. SameHold(c) /\ SameAsk(c) /\ SameFree(c)
  BY <1>1, <1>3 DEF SameHold, SameAsk, SameFree, Holding, Asking, Freeing
<1>10. pc'[BootCore] \in {"init", "flush", "unlock"}
         <=> pc[BootCore] \in {"init", "flush", "unlock"}
  BY <1>1, <1>3, MmuAssumption DEF Stays
<1>. QED  BY <1>1, <1>3, <1>4, <1>5, <1>6, <1>7, <1>8, <1>9, <1>10, QuietStepDone

\* tlb_flush forgets what the core remembers.
LEMMA FlushStep ==
  ASSUME WorkingMachine, TInv, LInv', NEW c \in Cores, Stays(c), tlb_flush(c)
  PROVE  TInv'
<1>1. /\ pc[c] = "flush" /\ pc' = [pc EXCEPT ![c] = "unlock"]
      /\ tlb' = [tlb EXCEPT ![c] = [va \in CallerPages |-> None]]
      /\ changed' = [changed EXCEPT ![c] = {}]
      /\ UNCHANGED <<mem, free, page_map, loaded, done, req, ptr, lvl, below, result, held,
           replaced>>
  BY DEF tlb_flush, Goto, boot, owners
<1>2. LInv /\ TTypes /\ LocalsAreFunctions /\ Calling(c)
  BY TInvParts
<1>3. pc'[c] = "unlock" /\ req'[c] = req[c] /\ result'[c] = result[c]
  BY <1>1, <1>2 DEF LocalsAreFunctions
<1>4. Booted
  BY <1>1, BootedWhenWorking
<1>5. PICK lv, via, kind, who : After(lv, via, kind, who)
  BY <1>4, TInvParts
<1>6. Position(lv, via, c)'
  BY <1>3, NoPosition
<1>7. TTypes'
  <2>1. [va \in CallerPages |-> None] \in Remembered
    BY DEF Remembered
  <2>2. tlb' \in [Cores -> Remembered] /\ changed' \in [Cores -> SUBSET CallerPages]
    BY <1>1, <1>2, <2>1 DEF TTypes
  <2>. QED  BY <1>1, <1>2, <2>2 DEF TTypes
<1>8. Calling(c)'
  BY <1>1, <1>2, <1>3 DEF Calling, Inside, InsideStates
<1>9. SameHold(c) /\ SameAsk(c) /\ SameFree(c)
  BY <1>1, <1>3 DEF SameHold, SameAsk, SameFree, Holding, Asking, Freeing
<1>10. pc'[BootCore] \in {"init", "flush", "unlock"}
         <=> pc[BootCore] \in {"init", "flush", "unlock"}
  BY <1>1, <1>3, MmuAssumption DEF Stays
<1>11. ~loaded => tlb' = tlb
  <2>1. SUFFICES ASSUME ~loaded
                 PROVE  tlb' = tlb
    OBVIOUS
  <2>2. tlb[c] = [va \in CallerPages |-> None]
    BY <1>5, <2>1 DEF After, Untouched
  <2>. QED  BY <1>1, <1>2, <2>2 DEF TTypes
<1>. QED  BY <1>1, <1>3, <1>4, <1>5, <1>6, <1>7, <1>8, <1>9, <1>10, <1>11, QuietStepDone

\* Unlock ends the call.
LEMMA UnlockStep ==
  ASSUME WorkingMachine, TInv, LInv', NEW c \in Cores, Stays(c), Unlock(c)
  PROVE  TInv'
<1>1. /\ pc[c] = "unlock" /\ pc' = [pc EXCEPT ![c] = IF loaded THEN "idle" ELSE "init"]
      /\ req' = [req EXCEPT ![c] = None] /\ result' = [result EXCEPT ![c] = None]
      /\ ptr' = [ptr EXCEPT ![c] = 0] /\ lvl' = [lvl EXCEPT ![c] = 0]
      /\ UNCHANGED <<mem, free, page_map, loaded, done, below, tlb, changed, held, replaced>>
  BY DEF Unlock, Goto, boot, seen, owners
<1>2. LInv /\ TTypes /\ LocalsAreFunctions /\ Calling(c)
  BY TInvParts
<1>3. /\ loaded => pc'[c] = "idle"
      /\ ~loaded => pc'[c] = "init"
      /\ req'[c] = None /\ result'[c] = None
  BY <1>1, <1>2 DEF LocalsAreFunctions
<1>4. Booted
  BY <1>1, BootedWhenWorking
<1>5. PICK lv, via, kind, who : After(lv, via, kind, who)
  BY <1>4, TInvParts
<1>6. Position(lv, via, c)'
  <2>1. pc'[c] = "idle" \/ pc'[c] = "init"
    BY <1>3
  <2>. QED  BY <2>1, NoPosition
<1>7. TTypes'
  <2>1. req' \in [Cores -> Calls]
    BY <1>1, <1>2 DEF TTypes, Calls
  <2>2. ptr' \in [Cores -> Pages]
    BY <1>1, <1>2, RamPages DEF TTypes, Pages
  <2>3. lvl' \in [Cores -> Levels]
    BY <1>1, <1>2, LevelNumbers DEF TTypes
  <2>4. result' \in [Cores -> {None, "true", "false"}]
    BY <1>1, <1>2 DEF TTypes
  <2>. QED  BY <1>1, <1>2, <2>1, <2>2, <2>3, <2>4 DEF TTypes
<1>8. Calling(c)'
  <2>1. pc'[c] = "idle" \/ pc'[c] = "init"
    BY <1>3
  <2>2. /\ pc'[c] \notin InsideStates /\ pc'[c] # "lock" /\ pc'[c] \notin {"allocate", "zero",
             "link", "erase"}
        /\ pc'[c] \notin {"flush", "unlock"}
    BY <2>1 DEF InsideStates
  <2>. QED  BY <1>3, <2>2 DEF Calling, Inside
<1>9. SameHold(c) /\ SameAsk(c) /\ SameFree(c)
  BY <1>1, <1>3 DEF SameHold, SameAsk, SameFree, Holding, Asking, Freeing
<1>10. loaded \/ (pc'[BootCore] \in {"init", "flush", "unlock"}
                    <=> pc[BootCore] \in {"init", "flush", "unlock"})
  <2>1. CASE c = BootCore
    BY <1>1, <1>3, <2>1
  <2>2. CASE c # BootCore
    BY <2>2, MmuAssumption DEF Stays
  <2>. QED  BY <2>1, <2>2
<1>. QED  BY <1>1, <1>3, <1>4, <1>5, <1>6, <1>7, <1>8, <1>9, <1>10, QuietStepDone

\* A core fills its TLB.
LEMMA FillStep ==
  ASSUME WorkingMachine, TInv, LInv', NEW c \in Cores, NEW va \in CallerPages, Fill(c, va)
  PROVE  TInv'
<1>1. /\ Walk(va) # None /\ tlb' = [tlb EXCEPT ![c][va] = Walk(va)]
      /\ changed' = [changed EXCEPT ![c] = @ \ {va}]
      /\ UNCHANGED <<mem, free, page_map, loaded, done, pc, req, ptr, lvl, below, result, held,
           replaced>>
  BY DEF Fill, boot, locals, owners
<1>2. LInv /\ TTypes /\ LocalsAreFunctions /\ \A d \in Cores : Calling(d)
  BY TInvParts
<1>3. loaded /\ Walk(va) = Stored(va)
  BY <1>1 DEF Walk
<1>4. Booted
  BY <1>3, TInvParts
<1>5. PICK lv, via, kind, who : After(lv, via, kind, who)
  BY <1>4, TInvParts
<1>6. Stored(va) \in Entries
  BY <1>2, <1>5, StoredNow, StoredTypes, CallerPagesTypes DEF After, TTypes
<1>7. TTypes'
  <2>1. tlb' \in [Cores -> Remembered]
    BY <1>1, <1>2, <1>3, <1>6 DEF TTypes, Remembered
  <2>2. changed' \in [Cores -> SUBSET CallerPages]
    BY <1>1, <1>2 DEF TTypes
  <2>. QED  BY <1>1, <1>2, <2>1, <2>2 DEF TTypes
<1>8. Stays(c)
  BY <1>1 DEF Stays
<1>9. Calling(c)'
  BY <1>1, <1>2 DEF Calling, Inside
<1>10. SameHold(c) /\ SameAsk(c) /\ SameFree(c)
  BY <1>1 DEF SameHold, SameAsk, SameFree, Holding, Asking, Freeing
<1>11. Position(lv, via, c)'
  BY <1>1, <1>5 DEF After, Position, AtTable
<1>12. pc'[c] \notin {"start", "clear pml4"}
  BY <1>1, <1>2, <1>3 DEF LInv, BootInv, BootStates
<1>. QED  BY <1>1, <1>3, <1>4, <1>5, <1>7, <1>8, <1>9, <1>10, <1>11, <1>12, QuietStepDone

\* Nothing happens.
LEMMA StutterStep ==
  ASSUME WorkingMachine, TInv, LInv', UNCHANGED vars
  PROVE  TInv'
<1>1. UNCHANGED <<mem, free, page_map, loaded, done, mmu_lock, pc, req, ptr, lvl, below, result,
        tlb, changed, held, replaced>>
  BY DEF vars, boot, locals, seen, owners
<1>2. LInv /\ TTypes /\ \A d \in Cores : Calling(d)
  BY TInvParts
<1>3. TTypes'
  BY <1>1, <1>2 DEF TTypes
<1>4. \A d \in Cores : Calling(d)'
  BY <1>1, <1>2 DEF Calling, Inside
<1>5. Booted' <=> Booted
  BY <1>1 DEF Booted
<1>6. CASE ~Booted
  <2>1. Before
    BY <1>6, TInvParts
  <2>2. Before'
    BY <1>1, <2>1 DEF Before
  <2>3. ~loaded'
    BY <1>1, <2>1 DEF Before
  <2>. QED  BY <1>3, <1>4, <1>5, <1>6, <2>2, <2>3 DEF TInv
<1>7. CASE Booted
  <2>1. PICK lv, via, kind, who : After(lv, via, kind, who)
    BY <1>7, TInvParts
  <2>2. \A a : Stored(a)' = Stored(a)
    BY <1>1, StoredSame
  <2>3. Steady
    BY <1>1, <2>1, <2>2 DEF Steady, Written, After
  <2>4. \A d \in Cores : SameHold(d) /\ SameAsk(d) /\ SameFree(d)
    BY <1>1 DEF SameHold, SameAsk, SameFree, Holding, Asking, Freeing
  <2>5. Used(lv, kind, who)'
    BY <1>1, <2>1, <2>2, <2>4, UsedKept DEF After
  <2>6. \A d \in Cores : Position(lv, via, d)'
    BY <1>1, <2>1 DEF After, Position, AtTable
  <2>7. Tree(mem', page_map'.cr3_paddr, lv, via)
    BY <1>1, <2>1 DEF After
  <2>8. After(lv, via, kind, who)'
    BY <1>2, <2>1, <2>3, <2>5, <2>6, <2>7, AfterKept
  <2>. QED  BY <1>3, <1>4, <1>5, <1>7, <2>8 DEF TInv
<1>. QED  BY <1>6, <1>7

\* init_mmu calls map.
LEMMA InitMapStep ==
  ASSUME WorkingMachine, TInv, LInv', NEW c \in Cores, Stays(c), InitMap(c)
  PROVE  TInv'
<1>1. /\ pc[c] = "init" /\ done < Len(InitCalls) /\ pc' = [pc EXCEPT ![c] = "lock"]
      /\ req' = [req EXCEPT ![c] = InitCalls[done + 1]] /\ done' = done + 1
      /\ UNCHANGED <<mem, free, page_map, loaded, ptr, lvl, below, result, tlb, changed, held,
           replaced>>
  BY DEF InitMap, Goto, seen, owners
<1>2. LInv /\ TTypes /\ LocalsAreFunctions /\ \A d \in Cores : Calling(d)
  BY TInvParts
<1>3. pc'[c] = "lock" /\ req'[c] = InitCalls[done + 1] /\ result'[c] = result[c]
  BY <1>1, <1>2 DEF LocalsAreFunctions
<1>4. Booted /\ ~loaded /\ c = BootCore
  BY <1>1, <1>2, BootedWhenWorking DEF LInv, BootInv, BootStates
<1>5. PICK lv, via, kind, who : After(lv, via, kind, who)
  BY <1>4, TInvParts
<1>6. done' \in 1 .. Len(InitCalls)
  BY <1>1, <1>2, InitMaps DEF TTypes
<1>7. PICK r : r = InitCalls[done + 1]
  OBVIOUS
<1>8. r \in AnyCall /\ r.op = "map" /\ r.va \notin OwnPages /\ r \in Calls /\ r # None
  <2>1. InitCalls[done'] \in ToSet(InitCalls) /\ InitCalls[done'] \in AnyCall
        /\ InitCalls[done'].op = "map" /\ InitCalls[done'].va \notin CallerPages
    BY <1>6, BootCallTypes
  <2>. QED  BY <1>1, <1>7, <2>1, NoneIsNothing, CallerPagesTypes DEF Calls
<1>9. TTypes'
  <2>1. req' \in [Cores -> Calls]
    BY <1>1, <1>2, <1>7, <1>8 DEF TTypes
  <2>2. done' \in 0 .. Len(InitCalls)
    BY <1>6
  <2>. QED  BY <1>1, <1>2, <2>1, <2>2 DEF TTypes
<1>10. ASSUME NEW d \in Cores
       PROVE  Calling(d)'
  <2>1. CASE d = c
    <3>1. pc'[c] \notin InsideStates /\ pc'[c] \notin {"allocate", "zero", "link"}
          /\ pc'[c] \notin {"start", "clear pml4", "init", "idle"} /\ pc'[c] # "erase"
          /\ pc'[c] \notin {"flush", "unlock"} /\ pc'[c] # "flush"
      BY <1>3 DEF InsideStates
    <3>2. result[c] = None
      BY <1>1, <1>2 DEF Calling
    <3>3. req'[c] = r /\ r # None /\ InitCalls[done'] = r /\ done' > 0
      BY <1>1, <1>3, <1>6, <1>7, <1>8
    <3>4. ~loaded' /\ result'[c] = None
      BY <1>1, <1>3, <1>4, <3>2
    <3>5. req'[c] \in IF loaded' THEN Requests \cup {None}
                     ELSE IF done' > 0 THEN {InitCalls[done'], None} ELSE {None}
      BY <3>3, <3>4
    <3>. QED  BY <2>1, <3>1, <3>3, <3>4, <3>5, Zenon DEF Calling, Inside
  <2>2. CASE d # c
    <3>1. pc[d] = "idle" /\ pc'[d] = "idle" /\ req'[d] = req[d] /\ result'[d] = result[d]
      BY <1>2, <1>4, <2>2 DEF LInv, BootInv, Stays
    <3>2. req[d] = None /\ result[d] = None
      BY <1>2, <3>1 DEF Calling
    <3>. QED  BY <1>4, <3>1, <3>2 DEF Calling, Inside, InsideStates
  <2>. QED  BY <2>1, <2>2
<1>11. SameHold(c) /\ SameAsk(c) /\ SameFree(c)
  <2>1. ~Asking(c) /\ ~Asking(c)'
    BY <1>1, <1>2, <1>3, <1>7, <1>8 DEF Asking, Calling
  <2>. QED  BY <1>1, <1>3, <2>1 DEF SameHold, SameAsk, SameFree, Holding, Freeing
<1>12. \A d \in Cores : SameHold(d) /\ SameAsk(d) /\ SameFree(d)
  BY <1>11, OthersSame
<1>13. \A a : Stored(a)' = Stored(a)
  BY <1>1, StoredSame
<1>14. Written' = Written
  <2>1. Written = done /\ done \in Int
    BY <1>1, <1>2, <1>4, InitMaps DEF Written, TTypes
  <2>2. Written' = done' - 1
    BY <1>1, <1>3, <1>4 DEF Written
  <2>. QED  BY <1>1, <2>1, <2>2
<1>15. Steady
  BY <1>1, <1>4, <1>13, <1>14 DEF Steady
<1>16. Used(lv, kind, who)'
  BY <1>1, <1>5, <1>12, <1>13, UsedKept DEF After
<1>17. \A d \in Cores : Position(lv, via, d)'
  <2>1. Position(lv, via, c)'
    BY <1>3, NoPosition
  <2>. QED  BY <1>1, <1>5, <2>1, PositionKept DEF After
<1>18. Tree(mem', page_map'.cr3_paddr, lv, via)
  BY <1>1, <1>5 DEF After
<1>19. After(lv, via, kind, who)'
  BY <1>2, <1>5, <1>15, <1>16, <1>17, <1>18, AfterKept
<1>20. Booted'
  BY <1>6 DEF Booted
<1>. QED  BY <1>9, <1>10, <1>19, <1>20 DEF TInv

\* load_context hands the tables to the processor.
LEMMA LoadContextStep ==
  ASSUME WorkingMachine, TInv, LInv', NEW c \in Cores, Stays(c), LoadContext(c)
  PROVE  TInv'
<1>1. /\ pc[c] = "init" /\ done = Len(InitCalls) /\ pc' = [pc EXCEPT ![c] = "idle"]
      /\ loaded' = TRUE
      /\ UNCHANGED <<mem, free, page_map, done, req, ptr, lvl, below, result, tlb, changed,
           held, replaced>>
  BY DEF LoadContext, Goto, seen, owners
<1>2. LInv /\ TTypes /\ LocalsAreFunctions /\ \A d \in Cores : Calling(d)
  BY TInvParts
<1>3. pc'[c] = "idle"
  BY <1>1, <1>2 DEF LocalsAreFunctions
<1>4. Booted /\ ~loaded /\ c = BootCore
  BY <1>1, <1>2, BootedWhenWorking DEF LInv, BootInv, BootStates
<1>5. PICK lv, via, kind, who : After(lv, via, kind, who)
  BY <1>4, TInvParts
<1>6. TTypes'
  BY <1>1, <1>2 DEF TTypes
<1>7. ASSUME NEW d \in Cores
       PROVE  Calling(d)'
  <2>1. pc'[d] = "idle" /\ pc[d] \in {"init", "idle"}
    BY <1>1, <1>2, <1>3, <1>4 DEF LInv, BootInv, Stays
  <2>2. req[d] = None /\ result[d] = None
    BY <1>2, <2>1 DEF Calling
  <2>. QED  BY <1>1, <2>1, <2>2 DEF Calling, Inside, InsideStates
<1>8. SameHold(c) /\ SameAsk(c) /\ SameFree(c)
  <2>1. req[c] = None
    BY <1>1, <1>2 DEF Calling
  <2>. QED  BY <1>1, <1>3, <2>1 DEF SameHold, SameAsk, SameFree, Holding, Freeing, Asking
<1>9. \A d \in Cores : SameHold(d) /\ SameAsk(d) /\ SameFree(d)
  BY <1>8, OthersSame
<1>10. \A a : Stored(a)' = Stored(a)
  BY <1>1, StoredSame
<1>11. Steady
  BY <1>1, <1>4, <1>10 DEF Steady, Written
<1>12. Used(lv, kind, who)'
  BY <1>1, <1>5, <1>9, <1>10, UsedKept DEF After
<1>13. \A d \in Cores : Position(lv, via, d)'
  <2>1. Position(lv, via, c)'
    BY <1>3, NoPosition
  <2>. QED  BY <1>1, <1>5, <2>1, PositionKept DEF After
<1>14. Tree(mem', page_map'.cr3_paddr, lv, via)
  BY <1>1, <1>5 DEF After
<1>15. After(lv, via, kind, who)'
  BY <1>2, <1>5, <1>11, <1>12, <1>13, <1>14, AfterKept
<1>16. Booted'
  BY <1>1, <1>3, <1>4 DEF Booted
<1>. QED  BY <1>6, <1>7, <1>15, <1>16 DEF TInv

-----------------------------------------------------------------------------
(* The beginning of init_mmu *)

\* What an owner may have left in a page has the type of a table.
LEMMA GarbageTypes ==
  /\ ZeroPage \in [Slots -> Entries]
  /\ \A g \in Garbage : g \in [Slots -> Entries]
<1>1. Zero \in Entries
  BY NoneIsNothing
<1>2. Word(Stale, {"present", "write"}) \in Entries
  <2>1. Stale \in Pages /\ {"present", "write"} \in SUBSET Bits
    BY MmuAssumption DEF Pages, Bits
  <2>. QED  BY <2>1, Words
<1>. QED  BY <1>1, <1>2 DEF Garbage, ZeroPage

\* Before there is a root only BootCore moves, and nobody is in a call.
LEMMA Beginning ==
  ASSUME TInv, ~Booted
  PROVE  /\ Before /\ ~loaded
         /\ \A d \in Cores : d # BootCore => pc[d] = "idle"
         /\ \A d \in Cores : pc[d] # "panic" => req[d] = None /\ result[d] = None
<1>1. Before /\ LInv /\ \A d \in Cores : Calling(d)
  BY TInvParts
<1>2. \A d \in Cores : d # BootCore => pc[d] = "idle"
  BY <1>1 DEF Before, LInv, BootInv
<1>3. ASSUME NEW d \in Cores, pc[d] # "panic"
      PROVE  req[d] = None /\ result[d] = None
  BY <1>1, <1>2, <1>3 DEF Calling, Before
<1>. QED  BY <1>1, <1>2, <1>3 DEF Before

\* init_mmu takes the page of the first table, or has none.
LEMMA StartMmuStep ==
  ASSUME WorkingMachine, TInv, LInv', NEW c \in Cores, Stays(c), StartMmu(c)
  PROVE  TInv'
<1>1. /\ pc[c] = "start"
      /\ UNCHANGED <<loaded, done, req, ptr, lvl, below, result, tlb, changed, held, replaced>>
  BY DEF StartMmu, seen, owners
<1>2. LInv /\ TTypes /\ LocalsAreFunctions /\ \A d \in Cores : Calling(d)
  BY TInvParts
<1>3. c = BootCore /\ ~loaded /\ done = 0 /\ ~Booted
  <2>1. c = BootCore /\ ~loaded
    BY <1>1, <1>2 DEF LInv, BootInv, BootStates
  <2>2. done = 0
    BY <1>1, <1>2 DEF Calling
  <2>3. ~(done > 0)
    BY ONLY <2>2
  <2>4. pc[BootCore] # "init"
    BY ONLY <1>1, <2>1
  <2>. QED  BY <2>1, <2>2, <2>3, <2>4, Zenon DEF Booted
<1>4. /\ Before /\ ~loaded
      /\ \A d \in Cores : pc[d] # "panic" => req[d] = None /\ result[d] = None
  BY <1>3, Beginning
<1>5. page_map.cr3_paddr = 0 /\ free = Ram /\ page_map.pml4_address = 0
  BY <1>1, <1>3, <1>4 DEF Before
<1>6. ASSUME NEW w \in {"clear pml4", "panic"}, pc' = [pc EXCEPT ![c] = w]
      PROVE  pc'[BootCore] = w /\ \A d \in Cores : Calling(d)'
  <2>1. pc'[c] = w
    BY <1>2, <1>6 DEF LocalsAreFunctions
  <2>2. ASSUME NEW d \in Cores
        PROVE  Calling(d)'
    <3>1. req'[d] = req[d] /\ result'[d] = result[d] /\ loaded' = loaded /\ done' = done
      BY <1>1
    <3>2. pc'[d] = pc[d] \/ d = c
      BY <2>2 DEF Stays
    <3>3. CASE d = c
      <4>1. req[d] = None /\ result[d] = None
        BY <1>1, <1>4, <3>3
      <4>2. /\ pc'[c] \notin InsideStates /\ pc'[c] # "lock" /\ pc'[c] # "erase" /\ pc'[c] # "flush"
            /\ pc'[c] \notin {"allocate", "zero", "link"} /\ pc'[c] \notin {"flush", "unlock"}
        BY <2>1 DEF InsideStates
      <4>. QED  BY <1>3, <3>1, <3>3, <4>1, <4>2 DEF Calling, Inside
    <3>4. CASE d # c
      <4>1. pc'[d] = pc[d] /\ Calling(d)
        BY <1>2, <3>2, <3>4
      <4>. QED  BY <3>1, <4>1 DEF Calling, Inside
    <3>. QED  BY <3>3, <3>4
  <2>. QED  BY <1>3, <2>1, <2>2
<1>7. CASE pc' = [pc EXCEPT ![c] = "panic"] /\ UNCHANGED <<mem, free, page_map>>
  <2>1. pc'[BootCore] = "panic" /\ \A d \in Cores : Calling(d)'
    BY <1>6, <1>7
  <2>2. TTypes'
    BY <1>1, <1>2, <1>7 DEF TTypes
  <2>3. ~Booted'
    <3>1. (loaded' <=> loaded) /\ done' = done
      BY <1>1
    <3>. QED  BY <1>3, <2>1, <3>1 DEF Booted
  <2>4. Before'
    BY <1>1, <1>3, <1>4, <1>7, <2>1 DEF Before
  <2>. QED  BY <1>1, <1>4, <2>1, <2>2, <2>3, <2>4 DEF TInv
<1>8. CASE /\ free # {} /\ free' = free \ {BestFit} /\ pc' = [pc EXCEPT ![c] = "clear pml4"]
           /\ page_map' = [cr3_paddr |-> BestFit, pml4_address |-> (BestFit + HHDM) % WORD]
           /\ \E g \in Garbage : mem' = [mem EXCEPT ![BestFit - HHDM] = g]
  <2>1. pc'[BootCore] = "clear pml4" /\ \A d \in Cores : Calling(d)'
    BY <1>6, <1>8
  <2>2. PICK b \in Ram : b = BestFit /\ (b + HHDM) % WORD = b /\ b - HHDM = b /\ b \in Pages
    <3>1. BestFit \in Ram
      BY <1>5, <1>8, BestFitIsFree
    <3>2. BestFit - HHDM = BestFit /\ (BestFit + HHDM) % WORD = BestFit /\ BestFit \in Pages
      BY <3>1, Identity, RamPages
    <3>. QED  BY <3>1, <3>2
  <2>3. PICK g \in [Slots -> Entries] : mem' = [mem EXCEPT ![b] = g]
    BY <1>8, <2>2, GarbageTypes
  <2>4. page_map' = [cr3_paddr |-> b, pml4_address |-> b] /\ free' = free \ {b}
    BY <1>8, <2>2
  <2>5. TTypes'
    <3>1. mem' \in [Ram -> [Slots -> Entries]]
      BY <1>2, <2>3 DEF TTypes
    <3>2. page_map' \in [pml4_address : Pages, cr3_paddr : Pages]
      BY <2>2, <2>4
    <3>3. free' \subseteq Ram
      BY <1>5, <2>4
    <3>. QED  BY <1>1, <1>2, <3>1, <3>2, <3>3 DEF TTypes
  <2>6. ~Booted'
    <3>1. (loaded' <=> loaded) /\ done' = done
      BY <1>1
    <3>. QED  BY <1>3, <2>1, <3>1 DEF Booted
  <2>7. Before'
    BY <1>1, <1>3, <1>4, <1>5, <2>1, <2>2, <2>4 DEF Before
  <2>. QED  BY <1>1, <1>4, <2>1, <2>5, <2>6, <2>7 DEF TInv
<1>. QED  BY <1>7, <1>8 DEF StartMmu, Goto

\* init_mmu clears it: the tree begins.
LEMMA ClearPml4Step ==
  ASSUME WorkingMachine, TInv, LInv', NEW c \in Cores, Stays(c), ClearPml4(c)
  PROVE  TInv'
<1>1. pc[c] = "clear pml4"
  BY DEF ClearPml4
<1>2. LInv /\ TTypes /\ LocalsAreFunctions /\ \A d \in Cores : Calling(d)
  BY TInvParts
<1>3. c = BootCore /\ ~loaded /\ done = 0 /\ ~Booted
  <2>1. c = BootCore /\ ~loaded
    BY <1>1, <1>2 DEF LInv, BootInv, BootStates
  <2>2. done = 0
    BY <1>1, <1>2 DEF Calling
  <2>3. ~(done > 0)
    BY ONLY <2>2
  <2>4. pc[BootCore] # "init"
    BY ONLY <1>1, <2>1
  <2>. QED  BY <2>1, <2>2, <2>3, <2>4, Zenon DEF Booted
<1>4. /\ Before /\ ~loaded /\ \A d \in Cores : d # BootCore => pc[d] = "idle"
      /\ \A d \in Cores : pc[d] # "panic" => req[d] = None /\ result[d] = None
  BY <1>3, Beginning
<1>5. PICK root \in Ram : root = page_map.cr3_paddr
  BY <1>1, <1>3, <1>4 DEF Before
<1>6. /\ free = Ram \ {root} /\ page_map.pml4_address = root /\ root # 0
      /\ done = 0 /\ held = {} /\ replaced = {}
  BY <1>1, <1>3, <1>4, <1>5, Identity DEF Before
<1>7. Reach(page_map.pml4_address) = root
  BY <1>6, Reaches
<1>8. /\ mem' = [mem EXCEPT ![root] = ZeroPage] /\ pc' = [pc EXCEPT ![c] = "init"]
      /\ UNCHANGED <<free, page_map, loaded, done, req, ptr, lvl, below, result, tlb, changed,
           held, replaced>>
  BY <1>7 DEF ClearPml4, At, Goto, boot, seen, owners
<1>9. pc'[c] = "init"
  BY <1>2, <1>8 DEF LocalsAreFunctions
<1>10. TTypes'
  <2>1. mem' \in [Ram -> [Slots -> Entries]]
    BY <1>2, <1>8, GarbageTypes DEF TTypes
  <2>. QED  BY <1>2, <1>8, <2>1 DEF TTypes
<1>11. \A d \in Cores : pc'[d] \in {"init", "idle"} /\ req'[d] = None /\ result'[d] = None
  BY <1>1, <1>3, <1>4, <1>8, <1>9 DEF Stays
<1>12. \A d \in Cores : Calling(d)'
  BY <1>11 DEF Calling, Inside, InsideStates
<1>13. Booted'
  BY <1>3, <1>9 DEF Booted
<1>14. mem'[root] = ZeroPage
  BY <1>2, <1>8 DEF TTypes
<1>15. PICK lv, via :
         /\ Tree(mem', root, lv, via)
         /\ \A g \in Ram : lv[g] = IF g = root THEN Depth - 1 ELSE -1
         /\ \A a \in Pages : StoredIn(mem', root, a) = Zero
  BY <1>14, FirstTable
<1>16. \A a \in Pages : Stored(a)' = Zero
  BY <1>5, <1>8, <1>15, StoredThen
<1>17. PICK kind : kind = [f \in Ram |-> IF f = root THEN "table" ELSE "free"]
  OBVIOUS
<1>18. Used(lv, kind, kind)'
  <2>1. kind \in [Ram -> Uses] /\ \A f \in Ram : kind[f] = IF f = root THEN "table" ELSE "free"
    BY <1>17 DEF Uses
  <2>2. \A f \in Ram : lv[f] >= 0 <=> f = root
    BY <1>15, LevelNumbers
  <2>3. ASSUME NEW f \in Ram
        PROVE  Placed(lv, kind, f)'
    <3>1. (f \in free' <=> f # root) /\ f \notin held' /\ f \notin replaced'
      BY <1>6, <1>8
    <3>. QED  BY <2>1, <2>2, <3>1 DEF Placed
  <2>4. Holders' = {} /\ Askers' = {} /\ MappedPages' = {}
    <3>1. \A va \in OwnPages : ~Mapped(va)'
      BY <1>16, CallerPagesTypes DEF Mapped
    <3>. QED  BY <1>11, <3>1 DEF Holders, Askers, MappedPages, Holding, Asking
  <2>5. \A k \in {"below", "asked", "mapped"} : \A P : Match({}, P, k, kind, kind)
    BY <2>1 DEF Match
  <2>6. Match(Holders', below', "below", kind, kind)
    BY <2>4, <2>5
  <2>7. Match(Askers', AskedOf', "asked", kind, kind)
    BY <2>4, <2>5
  <2>8. Match(MappedPages', MappedTo', "mapped", kind, kind)
    BY <2>4, <2>5
  <2>. QED  BY <2>1, <2>3, <2>6, <2>7, <2>8, Zenon DEF Used
<1>19. \A d \in Cores : Position(lv, via, d)'
  BY <1>11, NoPosition
<1>20. BootMapped'
  <2>1. Written' = 0
    BY <1>3, <1>4, <1>6, <1>8, <1>9 DEF Written
  <2>. QED  BY <2>1 DEF BootMapped
<1>21. Untouched'
  BY <1>4, <1>6, <1>8, <1>16, CallerPagesTypes DEF Untouched, Before
<1>22. Tree(mem, page_map.cr3_paddr, lv, via)'
  BY <1>5, <1>8, <1>15
<1>23. After(lv, via, kind, kind)'
  BY <1>4, <1>5, <1>6, <1>8, <1>18, <1>19, <1>20, <1>21, <1>22 DEF After
<1>. QED  BY <1>10, <1>12, <1>13, <1>23 DEF TInv

-----------------------------------------------------------------------------
(* Steps that give a page another use *)

\* Page b, of kind k before, is of kind j now, and w's.
Moves(b, k, j, w, kind, who, kind2, who2) ==
  /\ b \in Ram /\ kind[b] = k /\ kind2[b] = j /\ who2[b] = w
  /\ kind2 \in [Ram -> Uses]
  /\ \A f \in Ram : f # b => kind2[f] = kind[f] /\ who2[f] = who[f]

\* It can be said for any page and kind.
LEMMA MovesExists ==
  ASSUME NEW b \in Ram, NEW kind \in [Ram -> Uses], NEW who, NEW k, kind[b] = k, NEW j \in Uses,
         NEW w
  PROVE  \E kind2, who2 : Moves(b, k, j, w, kind, who, kind2, who2)
<1>1. PICK kind2 : kind2 = [kind EXCEPT ![b] = j]
  OBVIOUS
<1>2. PICK who2 : who2 = [f \in Ram |-> IF f = b THEN w ELSE who[f]]
  OBVIOUS
<1>3. /\ kind2 \in [Ram -> Uses] /\ kind2[b] = j
      /\ \A f \in Ram : f # b => kind2[f] = kind[f]
  BY <1>1
<1>4. who2[b] = w /\ \A f \in Ram : f # b => who2[f] = who[f]
  BY <1>2
<1>5. Moves(b, k, j, w, kind, who, kind2, who2)
  BY <1>3, <1>4 DEF Moves
<1>. QED  BY <1>5

\* No page of another kind is concerned.
LEMMA MovesAlike ==
  ASSUME NEW b, NEW k, NEW j, NEW w, NEW kind, NEW who, NEW kind2, NEW who2,
         Moves(b, k, j, w, kind, who, kind2, who2)
  PROVE  /\ \A i, f : f \in Ram /\ f # b => Alike(i, kind, who, kind2, who2, f)
         /\ \A i : i # k /\ i # j => \A f \in Ram : Alike(i, kind, who, kind2, who2, f)
BY DEF Moves, Alike

\* A page that has a use has no other.
LEMMA UsesDiffer ==
  ASSUME NEW lv, NEW kind, NEW who, Used(lv, kind, who)
  PROVE  /\ \A f \in free : f \in Ram => kind[f] = "free"
         /\ \A c \in Holders : below[c] \in Ram /\ kind[below[c]] = "below" /\ who[below[c]] = c
         /\ \A c \in Askers : req[c].pa \in Ram /\ kind[req[c].pa] = "asked" /\ who[req[c].pa] = c
         /\ \A va \in MappedPages :
              Stored(va).pa \in Ram /\ kind[Stored(va).pa] = "mapped" /\ who[Stored(va).pa] = va
         /\ \A f \in Ram : lv[f] >= 0 <=> kind[f] = "table"
<1>1. \A c \in Askers : AskedOf[c] = req[c].pa
  BY DEF Askers, AskedOf
<1>2. \A va \in MappedPages : MappedTo[va] = Stored(va).pa
  BY DEF MappedPages, MappedTo
<1>3. \A f \in Ram : Placed(lv, kind, f)
  BY DEF Used
<1>4. \A c \in Holders : below[c] \in Ram /\ kind[below[c]] = "below" /\ who[below[c]] = c
  BY DEF Used, Match
<1>5. \A c \in Askers : AskedOf[c] \in Ram /\ kind[AskedOf[c]] = "asked" /\ who[AskedOf[c]] = c
  BY DEF Used, Match
<1>6. \A va \in MappedPages :
        MappedTo[va] \in Ram /\ kind[MappedTo[va]] = "mapped" /\ who[MappedTo[va]] = va
  BY DEF Used, Match
<1>. QED  BY <1>1, <1>2, <1>3, <1>4, <1>5, <1>6 DEF Placed

\* AllocTable: a free page is held by the core.
LEMMA AllocTableStep ==
  ASSUME WorkingMachine, TInv, LInv', NEW c \in Cores, Stays(c), AllocTable(c)
  PROVE  TInv' /\ \A a \in Pages : Stored(a)' = Stored(a)
<1>1. /\ pc[c] = "allocate" /\ free # {} /\ below' = [below EXCEPT ![c] = BestFit]
      /\ free' = free \ {BestFit} /\ pc' = [pc EXCEPT ![c] = "zero"]
      /\ \E g \in Garbage : mem' = [mem EXCEPT ![BestFit - HHDM] = g]
      /\ UNCHANGED <<page_map, loaded, done, req, ptr, lvl, result, tlb, changed, held, replaced>>
  BY DEF AllocTable, Goto, boot, seen, owners
<1>2. LInv /\ TTypes /\ LocalsAreFunctions /\ Calling(c)
  BY TInvParts
<1>3. /\ Booted /\ Inside(c) /\ ptr[c] \in Ram /\ lvl[c] \in Levels /\ req[c].va \in Pages
      /\ Slot(req[c].va, lvl[c]) \in Slots
  BY <1>1, AtWork DEF AtTable
<1>4. PICK lv, via, kind, who : After(lv, via, kind, who)
  BY <1>3, TInvParts
<1>5. Used(lv, kind, who) /\ Tree(mem, page_map.cr3_paddr, lv, via) /\ Position(lv, via, c)
  BY <1>4 DEF After
<1>6. PICK b \in Ram : b = BestFit /\ b \in free /\ b - HHDM = b /\ b \in Pages
  <2>1. BestFit \in free /\ BestFit \in Ram
    BY <1>1, <1>2, BestFitIsFree DEF TTypes
  <2>2. BestFit - HHDM = BestFit /\ BestFit \in Pages
    BY <2>1, Identity, RamPages
  <2>. QED  BY <2>1, <2>2
<1>7. kind[b] = "free" /\ lv[b] = -1
  <2>1. kind[b] = "free" /\ ~(lv[b] >= 0)
    BY <1>5, <1>6, UsesDiffer
  <2>. QED  BY <1>5, <2>1 DEF Tree, Tops
<1>8. PICK g \in [Slots -> Entries] : mem' = [mem EXCEPT ![b] = g]
  BY <1>1, <1>6, GarbageTypes
<1>9. /\ below' = [below EXCEPT ![c] = b] /\ free' = free \ {b}
      /\ pc'[c] = "zero" /\ below'[c] = b
      /\ req'[c] = req[c] /\ ptr'[c] = ptr[c] /\ lvl'[c] = lvl[c] /\ result'[c] = result[c]
  BY <1>1, <1>2, <1>6 DEF LocalsAreFunctions
<1>10. mem' \in [Ram -> [Slots -> Entries]] /\ \A f \in Ram : f # b => mem'[f] = mem[f]
  BY <1>2, <1>8 DEF TTypes
<1>11. TTypes'
  <2>1. below' \in [Cores -> Pages] /\ free' \subseteq Ram
    BY <1>2, <1>6, <1>9 DEF TTypes
  <2>. QED  BY <1>1, <1>2, <1>10, <2>1 DEF TTypes
<1>12. /\ Tree(mem', page_map'.cr3_paddr, lv, via)
       /\ \A a \in Pages : Stored(a)' = Stored(a)
  <2>1. /\ Tree(mem', page_map.cr3_paddr, lv, via)
        /\ \A a \in Pages : StoredIn(mem', page_map.cr3_paddr, a)
                              = StoredIn(mem, page_map.cr3_paddr, a)
    BY <1>5, <1>7, <1>10, ElsewhereWritten
  <2>2. page_map' = page_map
    BY <1>1
  <2>. QED  BY <2>1, <2>2, StoredNow, StoredThen
<1>13. Calling(c)'
  BY <1>1, <1>2, <1>9 DEF Calling, Inside, InsideStates
<1>14. PICK kind2, who2 : Moves(b, "free", "below", c, kind, who, kind2, who2)
  BY <1>5, <1>7, MovesExists DEF Used, Uses
<1>15. Used(lv, kind2, who2)'
  <2>1. kind2 \in [Ram -> Uses] /\ kind2[b] = "below" /\ who2[b] = c
    BY <1>14 DEF Moves
  <2>2. ASSUME NEW f \in Ram
        PROVE  Placed(lv, kind2, f)'
    <3>1. Placed(lv, kind, f)
      BY <1>5 DEF Used
    <3>2. UNCHANGED <<held, replaced>> /\ (f \in free' <=> f \in free /\ f # b)
      BY <1>1, <1>9
    <3>3. CASE f = b
      BY <1>6, <1>7, <2>1, <3>1, <3>2, <3>3 DEF Placed
    <3>4. CASE f # b
      <4>1. kind2[f] = kind[f]
        BY <1>14, <3>4 DEF Moves
      <4>. QED  BY <3>1, <3>2, <3>4, <4>1 DEF Placed
    <3>. QED  BY <3>3, <3>4
  <2>3. Match(Holders', below', "below", kind2, who2)
    <3>1. \A y : y \in Holders' <=> y \in Holders \/ y = c
      BY <1>1, <1>9 DEF Holders, Holding, Stays
    <3>2. c \notin Holders /\ \A y \in Holders : below'[y] = below[y]
      BY <1>1 DEF Holders, Holding, Stays
    <3>3. Match(Holders, below, "below", kind, who)
      BY <1>5 DEF Used
    <3>4. \A f \in Ram : f # b => Alike("below", kind, who, kind2, who2, f)
      BY <1>14, MovesAlike
    <3>5. kind[b] # "below" /\ kind2[b] = "below" /\ who2[b] = c /\ below'[c] = b
      BY <1>7, <1>9, <2>1
    <3>. QED  BY <3>1, <3>2, <3>3, <3>4, <3>5, MatchMore
  <2>4. SameAsk(c) /\ SameFree(c)
    BY <1>1, <1>9 DEF SameAsk, SameFree, Asking, Freeing
  <2>5. \A d \in Cores : SameAsk(d) /\ SameFree(d)
    BY <2>4, OthersSame
  <2>6. Match(Askers', AskedOf', "asked", kind2, who2)
    <3>1. Match(Askers, AskedOf, "asked", kind, who)
      BY <1>5 DEF Used
    <3>2. \A f \in Ram : Alike("asked", kind, who, kind2, who2, f)
      BY <1>14, MovesAlike
    <3>. QED  BY <2>5, <3>1, <3>2, AskersKept
  <2>7. Match(MappedPages', MappedTo', "mapped", kind2, who2)
    <3>1. Match(MappedPages, MappedTo, "mapped", kind, who)
      BY <1>5 DEF Used
    <3>2. \A f \in Ram : Alike("mapped", kind, who, kind2, who2, f)
      BY <1>14, MovesAlike
    <3>. QED  BY <1>12, <2>5, <3>1, <3>2, MappedKept, CallerPagesTypes
  <2>. QED  BY <2>1, <2>2, <2>3, <2>6, <2>7 DEF Used
<1>16. Position(lv, via, c)'
  <2>1. /\ lvl[c] > 0 /\ ~Present(mem[ptr[c]][Slot(req[c].va, lvl[c])])
        /\ On(lv, via, ptr[c], lvl[c], req[c].va)
    BY <1>1, <1>5 DEF Position, AtTable
  <2>2. ptr[c] # b
    BY <1>7, <2>1 DEF On
  <2>3. mem'[ptr[c]] = mem[ptr[c]]
    BY <1>3, <1>10, <2>2
  <2>. QED  BY <1>3, <1>9, <2>1, <2>3 DEF Position, AtTable
<1>17. \A d \in Cores : Position(lv, via, d)'
  BY <1>2, <1>3, <1>16, OthersNowhere
<1>18. Steady
  <2>1. pc'[BootCore] \in {"init", "flush", "unlock"}
          <=> pc[BootCore] \in {"init", "flush", "unlock"}
    BY <1>1, <1>9, MmuAssumption DEF Stays
  <2>. QED  BY <1>1, <1>4, <1>12, <2>1 DEF Steady, Written, After
<1>19. After(lv, via, kind2, who2)'
  BY <1>2, <1>4, <1>12, <1>15, <1>17, <1>18, AfterKept
<1>20. TInv'
  BY <1>1, <1>3, <1>9, <1>11, <1>13, <1>19, StepDone
<1>. QED  BY <1>20, <1>12

\* ZeroTable: the page is cleared and stays the core's.
LEMMA ZeroTableStep ==
  ASSUME WorkingMachine, TInv, LInv', NEW c \in Cores, Stays(c), ZeroTable(c)
  PROVE  TInv' /\ \A a \in Pages : Stored(a)' = Stored(a)
<1>1. pc[c] = "zero"
  BY DEF ZeroTable
<1>2. LInv /\ TTypes /\ LocalsAreFunctions /\ Calling(c)
  BY TInvParts
<1>3. /\ Booted /\ Inside(c) /\ ptr[c] \in Ram /\ lvl[c] \in Levels /\ req[c].va \in Pages
      /\ Slot(req[c].va, lvl[c]) \in Slots
  BY <1>1, AtWork DEF AtTable
<1>4. PICK lv, via, kind, who : After(lv, via, kind, who)
  BY <1>3, TInvParts
<1>5. Used(lv, kind, who) /\ Tree(mem, page_map.cr3_paddr, lv, via) /\ Position(lv, via, c)
  BY <1>4 DEF After
<1>6. PICK b \in Ram : b = below[c] /\ kind[b] = "below" /\ lv[b] = -1 /\ (b + HHDM) % WORD = b
  <2>1. c \in Holders
    BY <1>1 DEF Holders, Holding
  <2>2. below[c] \in Ram /\ kind[below[c]] = "below"
    BY <1>5, <2>1, UsesDiffer
  <2>3. ~(lv[below[c]] >= 0)
    BY <1>5, <2>2, UsesDiffer
  <2>4. lv[below[c]] = -1
    BY <1>5, <2>2, <2>3 DEF Tree, Tops
  <2>. QED  BY <2>2, <2>4, Identity
<1>7. Reach((below[c] + HHDM) % WORD) = b
  BY <1>6, Reaches
<1>8. /\ mem' = [mem EXCEPT ![b] = ZeroPage] /\ pc' = [pc EXCEPT ![c] = "link"]
      /\ UNCHANGED <<free, page_map, loaded, done, req, ptr, lvl, below, result, tlb, changed,
           held, replaced>>
  BY <1>7 DEF ZeroTable, At, Goto, boot, seen, owners
<1>9. pc'[c] = "link"
  BY <1>2, <1>8 DEF LocalsAreFunctions
<1>10. /\ mem' \in [Ram -> [Slots -> Entries]] /\ mem'[b] = ZeroPage
       /\ \A f \in Ram : f # b => mem'[f] = mem[f]
  BY <1>2, <1>8, GarbageTypes DEF TTypes
<1>11. TTypes'
  BY <1>2, <1>8, <1>10 DEF TTypes
<1>12. /\ Tree(mem', page_map'.cr3_paddr, lv, via)
       /\ \A a \in Pages : Stored(a)' = Stored(a)
  <2>1. lv[b] = -1 /\ \A f \in Ram : f # b => mem'[f] = mem[f]
    BY <1>6, <1>10
  <2>2. /\ Tree(mem', page_map.cr3_paddr, lv, via)
        /\ \A a \in Pages : StoredIn(mem', page_map.cr3_paddr, a)
                              = StoredIn(mem, page_map.cr3_paddr, a)
    BY <1>5, <2>1, ElsewhereWritten
  <2>3. page_map' = page_map
    BY <1>8
  <2>. QED  BY <2>2, <2>3, StoredNow, StoredThen
<1>13. Calling(c)'
  BY <1>1, <1>2, <1>8, <1>9 DEF Calling, Inside, InsideStates
<1>14. SameHold(c) /\ SameAsk(c) /\ SameFree(c)
  BY <1>1, <1>8, <1>9 DEF SameHold, SameAsk, SameFree, Holding, Asking, Freeing
<1>15. \A d \in Cores : SameHold(d) /\ SameAsk(d) /\ SameFree(d)
  BY <1>14, OthersSame
<1>16. Used(lv, kind, who)'
  BY <1>5, <1>8, <1>12, <1>15, UsedKept, CallerPagesTypes
<1>17. Position(lv, via, c)'
  <2>1. /\ lvl[c] > 0 /\ ~Present(mem[ptr[c]][Slot(req[c].va, lvl[c])])
        /\ On(lv, via, ptr[c], lvl[c], req[c].va)
    BY <1>1, <1>5 DEF Position, AtTable
  <2>2. ptr[c] # b
    BY <1>6, <2>1 DEF On
  <2>3. mem'[ptr[c]] = mem[ptr[c]]
    BY <1>3, <1>10, <2>2
  <2>4. mem'[below[c]] = ZeroPage
    BY <1>6, <1>10
  <2>. QED  BY <1>3, <1>8, <1>9, <2>1, <2>3, <2>4 DEF Position, AtTable
<1>18. \A d \in Cores : Position(lv, via, d)'
  BY <1>2, <1>3, <1>17, OthersNowhere
<1>19. Steady
  <2>1. pc'[BootCore] \in {"init", "flush", "unlock"}
          <=> pc[BootCore] \in {"init", "flush", "unlock"}
    BY <1>1, <1>9, MmuAssumption DEF Stays
  <2>. QED  BY <1>4, <1>8, <1>12, <2>1 DEF Steady, Written, After
<1>20. After(lv, via, kind, who)'
  BY <1>2, <1>4, <1>12, <1>16, <1>18, <1>19, AfterKept
<1>21. TInv'
  BY <1>1, <1>3, <1>8, <1>9, <1>11, <1>13, <1>20, StepDone
<1>. QED  BY <1>21, <1>12

\* What an assignment to one entry does.
LEMMA StorePut ==
  ASSUME TTypes, NEW f \in Ram, NEW s \in Slots, NEW e \in Entries,
         mem' = [mem EXCEPT ![f] = [mem[f] EXCEPT ![s] = e]]
  PROVE  Put(mem, f, s, e, mem') /\ mem' \in [Ram -> [Slots -> Entries]]
<1>1. mem \in [Ram -> [Slots -> Entries]]
  BY DEF TTypes
<1>2. [mem[f] EXCEPT ![s] = e] \in [Slots -> Entries]
  BY <1>1
<1>3. mem' \in [Ram -> [Slots -> Entries]]
  BY <1>1, <1>2
<1>4. ASSUME NEW g \in Ram, NEW k \in Slots
      PROVE  mem'[g][k] = IF g = f /\ k = s THEN e ELSE mem[g][k]
  BY <1>1
<1>. QED  BY <1>3, <1>4 DEF Put

\* LinkTable: the page is a table, the one the core goes on from.
LEMMA LinkTableStep ==
  ASSUME WorkingMachine, TInv, LInv', NEW c \in Cores, Stays(c), LinkTable(c)
  PROVE  TInv' /\ \A a \in Pages : Stored(a)' = Stored(a)
<1>1. pc[c] = "link"
  BY DEF LinkTable
<1>2. LInv /\ TTypes /\ LocalsAreFunctions /\ Calling(c)
  BY TInvParts
<1>3. /\ Booted /\ Inside(c) /\ ptr[c] \in Ram /\ Reach(ptr[c]) = ptr[c] /\ lvl[c] \in Levels
      /\ req[c].va \in Pages /\ Slot(req[c].va, lvl[c]) \in Slots
      /\ IndexOf(req[c].va, lvl[c]) = Slot(req[c].va, lvl[c])
  BY <1>1, AtWork DEF AtTable
<1>4. PICK lv, via, kind, who : After(lv, via, kind, who)
  BY <1>3, TInvParts
<1>5. Used(lv, kind, who) /\ Tree(mem, page_map.cr3_paddr, lv, via) /\ Position(lv, via, c)
  BY <1>4 DEF After
<1>6. PICK b \in Ram : /\ b = below[c] /\ kind[b] = "below" /\ lv[b] = -1
                       /\ (b + HHDM) % WORD = b /\ b % MASK = b
  <2>1. c \in Holders
    BY <1>1 DEF Holders, Holding
  <2>2. below[c] \in Ram /\ kind[below[c]] = "below"
    BY <1>5, <2>1, UsesDiffer
  <2>3. ~(lv[below[c]] >= 0)
    BY <1>5, <2>2, UsesDiffer
  <2>4. lv[below[c]] = -1
    BY <1>5, <2>2, <2>3 DEF Tree, Tops
  <2>. QED  BY <2>2, <2>4, Identity
<1>7. /\ lvl[c] > 0 /\ ~Present(mem[ptr[c]][Slot(req[c].va, lvl[c])]) /\ mem[b] = ZeroPage
      /\ On(lv, via, ptr[c], lvl[c], req[c].va)
  BY <1>1, <1>5, <1>6 DEF Position, AtTable
<1>8. PICK e \in Entries : e = Word(b, {"present", "write", "all"}) /\ Present(e) /\ e.pa = b
  <2>1. b \in Pages /\ {"present", "write", "all"} \in SUBSET Bits
    BY RamPages DEF Bits
  <2>. QED  BY <2>1, Words
<1>9. Present(e) /\ e.pa % MASK = b
  BY <1>6, <1>8
<1>10. PICK s \in Slots : s = Slot(req[c].va, lvl[c])
  BY <1>3
<1>11. /\ mem' = [mem EXCEPT ![ptr[c]] = [mem[ptr[c]] EXCEPT ![s] = e]]
       /\ ptr' = [ptr EXCEPT ![c] = b] /\ lvl' = [lvl EXCEPT ![c] = lvl[c] - 1]
       /\ below' = [below EXCEPT ![c] = 0] /\ pc' = [pc EXCEPT ![c] = "walk"]
       /\ UNCHANGED <<free, page_map, loaded, done, req, result, tlb, changed, held, replaced>>
  BY <1>3, <1>6, <1>8, <1>10 DEF LinkTable, Store, Enter, Goto, boot, seen, owners
<1>12. /\ pc'[c] = "walk" /\ ptr'[c] = b /\ lvl'[c] = lvl[c] - 1 /\ req'[c] = req[c]
       /\ lvl[c] - 1 \in Levels
  BY <1>2, <1>3, <1>7, <1>11, LevelNumbers DEF LocalsAreFunctions
<1>13. Put(mem, ptr[c], s, e, mem') /\ mem' \in [Ram -> [Slots -> Entries]]
  BY <1>2, <1>3, <1>11, StorePut
<1>14. PICK lw, vw :
         /\ \A g \in Ram : lw[g] = IF g = b THEN lvl[c] - 1 ELSE lv[g]
         /\ Tree(mem', page_map.cr3_paddr, lw, vw) /\ On(lw, vw, b, lvl[c] - 1, req[c].va)
         /\ \A a \in Pages : StoredIn(mem', page_map.cr3_paddr, a)
                               = StoredIn(mem, page_map.cr3_paddr, a)
  BY <1>3, <1>5, <1>6, <1>7, <1>9, <1>10, <1>13, TableLinked
<1>15. /\ Tree(mem', page_map'.cr3_paddr, lw, vw)
       /\ \A a \in Pages : Stored(a)' = Stored(a)
  <2>1. page_map' = page_map
    BY <1>11
  <2>. QED  BY <1>14, <2>1, StoredNow, StoredThen
<1>16. TTypes'
  <2>1. ptr' \in [Cores -> Pages] /\ lvl' \in [Cores -> Levels] /\ below' \in [Cores -> Pages]
    BY <1>2, <1>6, <1>11, <1>12, RamPages DEF TTypes, Pages
  <2>. QED  BY <1>2, <1>11, <1>13, <2>1 DEF TTypes
<1>17. Calling(c)'
  BY <1>1, <1>2, <1>11, <1>12 DEF Calling, Inside, InsideStates
<1>18. PICK kind2, who2 : Moves(b, "below", "table", c, kind, who, kind2, who2)
  BY <1>5, <1>6, MovesExists DEF Used, Uses
<1>19. Used(lw, kind2, who2)'
  <2>1. kind2 \in [Ram -> Uses] /\ kind2[b] = "table"
    BY <1>18 DEF Moves
  <2>2. ASSUME NEW f \in Ram
        PROVE  Placed(lw, kind2, f)'
    <3>1. Placed(lv, kind, f)
      BY <1>5 DEF Used
    <3>2. UNCHANGED <<free, held, replaced>>
      BY <1>11
    <3>3. CASE f = b
      <4>1. lw[f] >= 0
        BY <1>12, <1>14, <3>3, LevelNumbers
      <4>. QED  BY <1>6, <2>1, <3>1, <3>2, <3>3, <4>1 DEF Placed
    <3>4. CASE f # b
      <4>1. kind2[f] = kind[f] /\ lw[f] = lv[f]
        BY <1>14, <1>18, <3>4 DEF Moves
      <4>. QED  BY <3>1, <3>2, <3>4, <4>1 DEF Placed
    <3>. QED  BY <3>3, <3>4
  <2>3. Match(Holders', below', "below", kind2, who2)
    <3>1. \A y : y \in Holders' <=> y \in Holders /\ y # c
      BY <1>1, <1>12 DEF Holders, Holding, Stays
    <3>2. c \in Holders /\ \A y \in Holders' : below'[y] = below[y]
      BY <1>1, <1>12 DEF Holders, Holding, Stays
    <3>3. Match(Holders, below, "below", kind, who)
      BY <1>5 DEF Used
    <3>4. \A f \in Ram : f # b => Alike("below", kind, who, kind2, who2, f)
      BY <1>18, MovesAlike
    <3>5. kind2[b] # "below" /\ below[c] = b
      BY <1>6, <2>1
    <3>. QED  BY <3>1, <3>2, <3>3, <3>4, <3>5, MatchLess
  <2>4. SameAsk(c) /\ SameFree(c)
    BY <1>1, <1>11, <1>12 DEF SameAsk, SameFree, Asking, Freeing
  <2>5. \A d \in Cores : SameAsk(d) /\ SameFree(d)
    BY <2>4, OthersSame
  <2>6. Match(Askers', AskedOf', "asked", kind2, who2)
    <3>1. Match(Askers, AskedOf, "asked", kind, who)
      BY <1>5 DEF Used
    <3>2. \A f \in Ram : Alike("asked", kind, who, kind2, who2, f)
      BY <1>18, MovesAlike
    <3>. QED  BY <2>5, <3>1, <3>2, AskersKept
  <2>7. Match(MappedPages', MappedTo', "mapped", kind2, who2)
    <3>1. Match(MappedPages, MappedTo, "mapped", kind, who)
      BY <1>5 DEF Used
    <3>2. \A f \in Ram : Alike("mapped", kind, who, kind2, who2, f)
      BY <1>18, MovesAlike
    <3>. QED  BY <1>15, <2>5, <3>1, <3>2, MappedKept, CallerPagesTypes
  <2>. QED  BY <2>1, <2>2, <2>3, <2>6, <2>7 DEF Used
<1>20. Position(lw, vw, c)'
  BY <1>12, <1>14 DEF Position, AtTable
<1>21. \A d \in Cores : Position(lw, vw, d)'
  BY <1>2, <1>3, <1>20, OthersNowhere
<1>22. Steady
  <2>1. pc'[BootCore] \in {"init", "flush", "unlock"}
          <=> pc[BootCore] \in {"init", "flush", "unlock"}
    BY <1>1, <1>12, MmuAssumption DEF Stays
  <2>. QED  BY <1>4, <1>11, <1>15, <2>1 DEF Steady, Written, After
<1>23. After(lw, vw, kind2, who2)'
  BY <1>2, <1>4, <1>15, <1>19, <1>21, <1>22, AfterKept
<1>24. TInv'
  BY <1>1, <1>3, <1>11, <1>12, <1>16, <1>17, <1>23, StepDone
<1>. QED  BY <1>24, <1>15

-----------------------------------------------------------------------------
(* Steps that write an entry of a page table *)

\* What is stored for the page of the call is e then, and for others what was.
LEMMA Overwrites ==
  ASSUME WorkingMachine, TInv, NEW c \in Cores, AtTable(c), lvl[c] = 0,
         NEW e \in Entries, Store(c, e), page_map' = page_map, req' = req,
         NEW lv, NEW via, NEW kind, NEW who, After(lv, via, kind, who)
  PROVE  /\ Tree(mem', page_map'.cr3_paddr, lv, via) /\ mem' \in [Ram -> [Slots -> Entries]]
         /\ Stored(req[c].va) = Entry(c) /\ Stored(req[c].va)' = e
         /\ \A a \in Told : a # req[c].va => Stored(a)' = Stored(a)
<1>1. /\ ptr[c] \in Ram /\ Reach(ptr[c]) = ptr[c]
      /\ req[c].va \in Pages /\ req[c].va \in Told
      /\ IndexOf(req[c].va, lvl[c]) = Slot(req[c].va, lvl[c])
      /\ Entry(c) = mem[ptr[c]][Slot(req[c].va, lvl[c])]
  BY AtWork
<1>2. PICK va \in Pages : va = req[c].va /\ va \in Told
  BY <1>1
<1>3. PICK s \in Slots : s = Slot(va, 0)
  BY SlotType, LevelNumbers
<1>4. mem' = [mem EXCEPT ![ptr[c]] = [mem[ptr[c]] EXCEPT ![s] = e]]
  BY <1>1, <1>2, <1>3 DEF Store
<1>5. TTypes
  BY TInvParts
<1>6. Put(mem, ptr[c], s, e, mem') /\ mem' \in [Ram -> [Slots -> Entries]]
  BY <1>1, <1>4, <1>5, StorePut
<1>7. On(lv, via, ptr[c], 0, va) /\ Tree(mem, page_map.cr3_paddr, lv, via)
  BY <1>2 DEF After, Position
<1>8. /\ Tree(mem', page_map.cr3_paddr, lv, via)
      /\ StoredIn(mem, page_map.cr3_paddr, va) = mem[ptr[c]][Slot(va, 0)]
      /\ StoredIn(mem', page_map.cr3_paddr, va) = e
      /\ \A a \in Pages : (\E l \in Levels : Slot(a, l) # Slot(va, l))
            => StoredIn(mem', page_map.cr3_paddr, a) = StoredIn(mem, page_map.cr3_paddr, a)
  BY <1>3, <1>6, <1>7, EntryWritten
<1>9. \A a \in Told : a # va =>
        StoredIn(mem', page_map.cr3_paddr, a) = StoredIn(mem, page_map.cr3_paddr, a)
  BY <1>2, <1>8, ToldApart
<1>10. Stored(va) = Entry(c) /\ Stored(va)' = e
  BY <1>1, <1>2, <1>8, StoredNow, StoredThen
<1>11. ASSUME NEW a \in Told, a # va
       PROVE  Stored(a)' = Stored(a)
  <2>1. StoredIn(mem', page_map.cr3_paddr, a) = StoredIn(mem, page_map.cr3_paddr, a)
    BY <1>9, <1>11
  <2>2. Stored(a) = StoredIn(mem, page_map.cr3_paddr, a)
    BY StoredNow
  <2>3. Stored(a)' = StoredIn(mem', page_map.cr3_paddr, a)
    BY StoredThen
  <2>. QED  BY <2>1, <2>2, <2>3
<1>. QED  BY <1>2, <1>6, <1>8, <1>10, <1>11

\* What init_mmu maps is mapped, and what callers map not before load_context.
LEMMA OverwrittenRest ==
  ASSUME WorkingMachine, TInv, NEW c \in Cores, req[c] # None,
         NEW lv, NEW via, NEW kind, NEW who, After(lv, via, kind, who),
         loaded' = loaded, done' = done, req' = req,
         \A a \in Told : a # req[c].va => Stored(a)' = Stored(a),
         loaded => Written' = Written,
         ~loaded => /\ Stored(req[c].va)' = Word(req[c].pa, req[c].flags)
                    /\ Written = done - 1 /\ Written' = done
                    /\ held' = held /\ replaced' = replaced /\ tlb' = tlb
  PROVE  BootMapped' /\ Untouched'
<1>1. BootMapped /\ Untouched /\ TTypes /\ Calling(c)
  BY TInvParts DEF After
<1>2. \A n \in 1 .. Len(InitCalls) : InitCalls[n].va \in Told /\ InitCalls[n].va \notin CallerPages
  BY BootCallTypes DEF Told
<1>3. CASE loaded
  <2>1. req[c].va \in CallerPages
    BY <1>1, <1>3, RequestTypes DEF Calling
  <2>2. Written \in Int /\ Written <= Len(InitCalls) /\ Written' = Written
    BY <1>1, <1>3, InitMaps DEF TTypes, Written
  <2>3. \A n \in 1 .. Len(InitCalls) : Stored(InitCalls[n].va)' = Stored(InitCalls[n].va)
    BY <1>2, <2>1
  <2>4. \A n \in 1 .. Written : n \in 1 .. Len(InitCalls)
    BY <2>2, InitMaps
  <2>5. \A n \in 1 .. Written : \E m \in n .. Written :
          /\ InitCalls[m].va = InitCalls[n].va
          /\ Stored(InitCalls[n].va) = Word(InitCalls[m].pa, InitCalls[m].flags)
    BY <1>1 DEF BootMapped
  <2>6. \A n \in 1 .. Written : \E m \in n .. Written :
          /\ InitCalls[m].va = InitCalls[n].va
          /\ Stored(InitCalls[n].va)' = Word(InitCalls[m].pa, InitCalls[m].flags)
    BY <2>3, <2>4, <2>5
  <2>7. BootMapped'
    BY <2>2, <2>6 DEF BootMapped
  <2>8. Untouched'
    BY <1>3 DEF Untouched
  <2>. QED  BY <2>7, <2>8
<1>4. CASE ~loaded
  <2>1. done \in 1 .. Len(InitCalls) /\ req[c] = InitCalls[done] /\ req[c].va \in BootPages
    BY <1>4, BootCallsOnly
  <2>2. Written = done - 1 /\ Written' = done /\ Len(InitCalls) \in Nat
    BY <1>4, InitMaps
  <2>3. ASSUME NEW n \in 1 .. done
        PROVE  \E m \in n .. done :
                 /\ InitCalls[m].va = InitCalls[n].va
                 /\ Stored(InitCalls[n].va)'
                       = Word(InitCalls[m].pa, InitCalls[m].flags)
    <3>1. CASE InitCalls[n].va = req[c].va
      <4>1. done \in n .. done
        BY <2>1
      <4>2. InitCalls[done].va = InitCalls[n].va
        BY <2>1, <3>1
      <4>3. Stored(req[c].va)' = Word(InitCalls[done].pa, InitCalls[done].flags)
        BY <1>4, <2>1
      <4>4. Stored(InitCalls[n].va)' = Word(InitCalls[done].pa, InitCalls[done].flags)
        BY <3>1, <4>3
      <4>. QED  BY <4>1, <4>2, <4>4
    <3>2. CASE InitCalls[n].va # req[c].va
      <4>1. n # done /\ n \in 1 .. Written /\ n \in 1 .. Len(InitCalls)
        BY <2>1, <2>2, <3>2
      <4>2. PICK m \in n .. Written :
              /\ InitCalls[m].va = InitCalls[n].va
              /\ Stored(InitCalls[n].va) = Word(InitCalls[m].pa, InitCalls[m].flags)
        BY <1>1, <4>1 DEF BootMapped
      <4>3. Stored(InitCalls[n].va)' = Stored(InitCalls[n].va)
        BY <1>2, <3>2, <4>1
      <4>4. m \in n .. done
        BY <2>1, <2>2, <4>2
      <4>. QED  BY <4>2, <4>3, <4>4
    <3>. QED  BY <3>1, <3>2
  <2>4. BootMapped'
    BY <2>2, <2>3 DEF BootMapped
  <2>5. req[c].va \notin CallerPages
    BY <2>1, ToldApart
  <2>6. \A va \in CallerPages : Stored(va)' = Stored(va)
    BY <2>5 DEF Told
  <2>7. Untouched'
    BY <1>1, <1>4, <2>6 DEF Untouched
  <2>. QED  BY <2>4, <2>7
<1>. QED  BY <1>3, <1>4

\* The page that was mapped at va, if any, is replaced.
Replaces(va, kind, who, kind1, who1) ==
  /\ kind1 \in [Ram -> Uses]
  /\ Match(MappedPages \ {va}, MappedTo, "mapped", kind1, who1)
  /\ \A f \in Ram : kind1[f] = "replaced" <=> f \in replaced \/ f = Stored(va).pa
  /\ \A k : k # "mapped" /\ k # "replaced" =>
       \A f \in Ram : Alike(k, kind, who, kind1, who1, f)

\* That can be said of every page of a caller.
LEMMA OldMapping ==
  ASSUME NEW lv, NEW kind, NEW who, Used(lv, kind, who), NEW va \in OwnPages,
         Stored(va) # Zero => va \in MappedPages
  PROVE  \E kind1, who1 : Replaces(va, kind, who, kind1, who1)
<1>. PICK old : old = Stored(va).pa
  OBVIOUS
<1>1. /\ kind \in [Ram -> Uses] /\ Match(MappedPages, MappedTo, "mapped", kind, who)
      /\ \A f \in Ram : f \in replaced <=> kind[f] = "replaced"
  BY DEF Used, Placed
<1>2. CASE Stored(va) = Zero
  <2>1. old \notin Ram
    BY <1>2, Identity, RamPages DEF Zero
  <2>2. va \notin MappedPages
    BY <1>2 DEF MappedPages, Mapped
  <2>3. \A x : x \in MappedPages \ {va} <=> x \in MappedPages
    BY <2>2
  <2>4. \A k : \A f \in Ram : Alike(k, kind, who, kind, who, f)
    BY DEF Alike
  <2>5. Match(MappedPages \ {va}, MappedTo, "mapped", kind, who)
    BY <1>1, <2>3, <2>4, MatchKept
  <2>6. Replaces(va, kind, who, kind, who)
    BY <1>1, <2>1, <2>4, <2>5 DEF Replaces
  <2>. QED  BY <2>6
<1>3. CASE Stored(va) # Zero
  <2>1. va \in MappedPages /\ old \in Ram /\ kind[old] = "mapped"
    BY <1>3, UsesDiffer
  <2>2. PICK kind1, who1 : Moves(old, "mapped", "replaced", va, kind, who, kind1, who1)
    BY <1>1, <2>1, MovesExists DEF Uses
  <2>3. /\ \A f \in Ram : f # old => Alike("mapped", kind, who, kind1, who1, f)
        /\ \A k : k # "mapped" /\ k # "replaced" =>
             \A f \in Ram : Alike(k, kind, who, kind1, who1, f)
    BY <2>2, MovesAlike
  <2>4. kind1 \in [Ram -> Uses] /\ kind1[old] = "replaced"
    BY <2>2 DEF Moves
  <2>5. Match(MappedPages \ {va}, MappedTo, "mapped", kind1, who1)
    <3>1. MappedTo[va] = old /\ kind1[old] # "mapped"
      BY <2>4 DEF MappedTo
    <3>2. \A y : y \in MappedPages \ {va} <=> y \in MappedPages /\ y # va
      OBVIOUS
    <3>3. \A y \in MappedPages \ {va} : MappedTo[y] = MappedTo[y]
      OBVIOUS
    <3>. QED  BY <1>1, <2>1, <2>3, <3>1, <3>2, <3>3, MatchLess
  <2>6. \A f \in Ram : kind1[f] = "replaced" <=> f \in replaced \/ f = old
    BY <1>1, <2>2, <2>4 DEF Moves
  <2>7. Replaces(va, kind, who, kind1, who1)
    BY <2>3, <2>4, <2>5, <2>6 DEF Replaces
  <2>. QED  BY <2>7
<1>. QED  BY <1>2, <1>3

\* What is left to show of such a step is who uses what.
LEMMA WriteDone ==
  ASSUME WorkingMachine, TInv, LInv', NEW c \in Cores, Stays(c), AtTable(c), lvl[c] = 0,
         NEW e \in Entries, Store(c, e), pc'[c] = "flush", TTypes', Calling(c)',
         page_map' = page_map, req' = req, loaded' = loaded, done' = done,
         ~loaded => /\ e = Word(req[c].pa, req[c].flags)
                    /\ held' = held /\ replaced' = replaced /\ tlb' = tlb,
         NEW lv, NEW via, NEW kind, NEW who, After(lv, via, kind, who),
         NEW kind2, NEW who2, Used(lv, kind2, who2)'
  PROVE  TInv'
<1>1. LInv /\ TTypes /\ Booted /\ Inside(c) /\ req[c] # None
  BY AtWork, TInvParts
<1>2. /\ Tree(mem', page_map'.cr3_paddr, lv, via)
      /\ Stored(req[c].va)' = e
      /\ \A a \in Told : a # req[c].va => Stored(a)' = Stored(a)
  BY Overwrites
<1>3. Position(lv, via, c)'
  BY NoPosition
<1>4. \A d \in Cores : Position(lv, via, d)'
  BY <1>1, <1>3, OthersNowhere
<1>5. loaded => Written' = Written
  BY DEF Written
<1>6. ~loaded => Written = done - 1 /\ Written' = done
  <2>1. SUFFICES ASSUME ~loaded
                 PROVE  Written = done - 1 /\ Written' = done
    OBVIOUS
  <2>2. c = BootCore
    BY <1>1, <2>1, BootCallsOnly
  <2>. QED  BY <2>1, <2>2 DEF Written, AtTable
<1>7. BootMapped' /\ Untouched'
  <2>1. ~loaded => /\ Stored(req[c].va)' = Word(req[c].pa, req[c].flags)
                   /\ Written = done - 1 /\ Written' = done
                   /\ held' = held /\ replaced' = replaced /\ tlb' = tlb
    BY <1>2, <1>6
  <2>. QED  BY <1>1, <1>2, <1>5, <2>1, OverwrittenRest
<1>8. After(lv, via, kind2, who2)'
  <2>1. page_map'.pml4_address = page_map'.cr3_paddr /\ (loaded' => done' = Len(InitCalls))
    BY DEF After
  <2>. QED  BY <1>2, <1>4, <1>7, <2>1 DEF After
<1>9. pc[c] # "init"
  BY DEF AtTable
<1>. QED  BY <1>1, <1>8, <1>9, StepDone

\* Two changes that leave a kind alone leave it alone together.
LEMMA AlikeTwice ==
  ASSUME NEW k, NEW kind, NEW who, NEW kind1, NEW who1, NEW kind2, NEW who2, NEW f,
         Alike(k, kind, who, kind1, who1, f), Alike(k, kind1, who1, kind2, who2, f)
  PROVE  Alike(k, kind, who, kind2, who2, f)
BY DEF Alike

\* Whose pages are freed and still mapped: at most the one of the core inside.
LEMMA OneFreeing ==
  ASSUME LInv, NEW c \in Cores, Inside(c), Stays(c)
  PROVE  \A d \in Cores : d # c => ~Freeing(d) /\ ~Freeing(d)'
<1>1. ASSUME NEW d \in Cores, d # c
      PROVE  pc[d] # "erase" /\ pc'[d] = pc[d]
  BY <1>1, OthersNowhere DEF Inside, InsideStates, Stays
<1>. QED  BY <1>1 DEF Freeing

\* WriteEntry: the caller's page becomes the mapping's, and the mapping that
\* was there is replaced.
LEMMA WriteUse ==
  ASSUME WorkingMachine, TInv, NEW c \in Cores, Stays(c), pc[c] = "walk", lvl[c] = 0,
         pc'[c] = "flush", req[c].op = "map", req' = req, below' = below, free' = free,
           held' = held,
         page_map' = page_map, NEW e, e = Word(req[c].pa, req[c].flags), Store(c, e),
         replaced' = replaced \cup (IF req[c].va \in OwnPages THEN {Entry(c).pa} \cap Ram ELSE {}),
         NEW lv, NEW via, NEW kind, NEW who, After(lv, via, kind, who)
  PROVE  \E kind2, who2 : Used(lv, kind2, who2)'
<1>1. /\ LInv /\ Inside(c) /\ req[c] # None /\ req[c] \in AnyCall /\ AtTable(c)
      /\ Used(lv, kind, who)
  BY AtWork, TInvParts DEF After, AtTable
<1>2. e \in Entries /\ e.pa = req[c].pa
  BY <1>1, Words DEF AnyCall
<1>3. /\ Stored(req[c].va) = Entry(c) /\ Stored(req[c].va)' = e
      /\ \A a \in Told : a # req[c].va => Stored(a)' = Stored(a)
  BY <1>1, <1>2, Overwrites
<1>4. \A d \in Cores : ~Freeing(d) /\ ~Freeing(d)'
  BY <1>1, OneFreeing DEF Freeing
<1>5. SameHold(c)
  BY DEF SameHold, Holding
<1>6. \A d \in Cores : SameHold(d) /\ SameFree(d) /\ (d # c => SameAsk(d))
  BY <1>4, <1>5, OthersSame DEF SameFree
<1>7. CASE req[c].va \notin OwnPages
  <2>1. SameAsk(c)
    BY <1>7 DEF SameAsk, Asking
  <2>2. \A va \in OwnPages : Stored(va)' = Stored(va)
    BY <1>3, <1>7, CallerPagesTypes DEF Told
  <2>3. replaced' = replaced
    BY <1>7
  <2>. QED  BY <1>1, <1>6, <2>1, <2>2, <2>3, UsedKept
<1>8. CASE req[c].va \in OwnPages
  <2>1. PICK va \in OwnPages : va = req[c].va
    BY <1>8
  <2>2. PICK p : p = req[c].pa
    OBVIOUS
  <2>3. c \in Askers
    BY <1>1, <1>8 DEF Askers, Asking
  <2>4. p \in Ram /\ kind[p] = "asked"
    BY <1>1, <2>2, <2>3, UsesDiffer
  <2>5. PICK old : old = Stored(va).pa
    OBVIOUS
  <2>6. old = Entry(c).pa
    BY <1>3, <2>1, <2>5
  <2>7. Stored(va) # Zero => va \in MappedPages
    BY <1>4 DEF MappedPages, Mapped
  <2>18. PICK kind1, who1 : Replaces(va, kind, who, kind1, who1)
    BY <1>1, <2>7, OldMapping
  <2>8. /\ kind1 \in [Ram -> Uses]
        /\ Match(MappedPages \ {va}, MappedTo, "mapped", kind1, who1)
        /\ \A f \in Ram : kind1[f] = "replaced" <=> f \in replaced \/ f = old
        /\ \A k : k # "mapped" /\ k # "replaced" =>
             \A f \in Ram : Alike(k, kind, who, kind1, who1, f)
    BY <2>5, <2>18 DEF Replaces
  <2>9. kind1[p] = "asked"
    BY <2>4, <2>8 DEF Alike
  <2>10. PICK kind2, who2 : Moves(p, "asked", "mapped", va, kind1, who1, kind2, who2)
    BY <2>4, <2>8, <2>9, MovesExists DEF Uses
  <2>11. /\ kind2 \in [Ram -> Uses] /\ kind2[p] = "mapped" /\ who2[p] = va
         /\ \A f \in Ram : f # p => kind2[f] = kind1[f]
    BY <2>10 DEF Moves
  <2>12. /\ \A k, f : f \in Ram /\ f # p => Alike(k, kind1, who1, kind2, who2, f)
         /\ \A k : k # "asked" /\ k # "mapped"
                    => \A f \in Ram : Alike(k, kind1, who1, kind2, who2, f)
    BY <2>10, MovesAlike
  <2>13. ASSUME NEW f \in Ram
         PROVE  Placed(lv, kind2, f)'
    <3>1. Placed(lv, kind, f)
      BY <1>1 DEF Used
    <3>2. /\ f \in free' <=> f \in free
          /\ f \in held' <=> f \in held
          /\ f \in replaced' <=> f \in replaced \/ f = old
      BY <2>1, <2>6
    <3>3. CASE f = p
      <4>1. kind[f] = "asked" /\ kind1[f] = "asked" /\ kind2[f] = "mapped"
        BY <2>4, <2>9, <2>11, <3>3
      <4>2. ~(f \in replaced \/ f = old)
        BY <2>8, <4>1
      <4>. QED  BY <3>1, <3>2, <4>1, <4>2 DEF Placed
    <3>4. CASE f # p
      <4>1. kind2[f] = kind1[f]
        BY <2>11, <3>4
      <4>2. /\ Alike("free", kind, who, kind1, who1, f)
            /\ Alike("held", kind, who, kind1, who1, f)
            /\ Alike("table", kind, who, kind1, who1, f)
        BY <2>8
      <4>3. /\ kind1[f] = "free" <=> kind[f] = "free"
            /\ kind1[f] = "held" <=> kind[f] = "held"
            /\ kind1[f] = "table" <=> kind[f] = "table"
        BY <4>2 DEF Alike
      <4>4. kind1[f] = "replaced" <=> f \in replaced \/ f = old
        BY <2>8
      <4>. QED  BY <3>1, <3>2, <4>1, <4>3, <4>4 DEF Placed
    <3>. QED  BY <3>3, <3>4
  <2>14. Match(Holders', below', "below", kind2, who2)
    <3>1. \A f \in Ram : Alike("below", kind, who, kind2, who2, f)
      BY <2>8, <2>12, AlikeTwice
    <3>2. Match(Holders, below, "below", kind, who)
      BY <1>1 DEF Used
    <3>. QED  BY <1>6, <3>1, <3>2, HoldersKept
  <2>15. Match(Askers', AskedOf', "asked", kind2, who2)
    <3>1. \A y : y \in Askers' <=> y \in Askers /\ y # c
      BY <1>6 DEF Askers, Asking, SameAsk
    <3>2. \A y \in Askers' : AskedOf'[y] = AskedOf[y]
      BY DEF AskedOf, Askers
    <3>3. Match(Askers, AskedOf, "asked", kind, who)
      BY <1>1 DEF Used
    <3>4. AskedOf[c] = p /\ kind2[p] # "asked"
      BY <2>2, <2>11 DEF AskedOf
    <3>5. \A f \in Ram : f # p => Alike("asked", kind, who, kind2, who2, f)
      BY <2>8, <2>12, AlikeTwice
    <3>. QED  BY <2>3, <3>1, <3>2, <3>3, <3>4, <3>5, MatchLess
  <2>16. Match(MappedPages', MappedTo', "mapped", kind2, who2)
    <3>1. \A y \in OwnPages : y # va => Stored(y)' = Stored(y)
      BY <1>3, <2>1, CallerPagesTypes DEF Told
    <3>2. Stored(va)' = e
      BY <1>3, <2>1
    <3>3. e # Zero /\ e.pa = p
      BY <1>2, <2>2, <2>4, Identity DEF Zero
    <3>4. \A y \in OwnPages : (Mapped(y)' <=> Stored(y)' # Zero) /\ (Mapped(y) <=> Stored(y) # Zero)
      BY <1>4 DEF Mapped
    <3>5. \A y : y \in MappedPages' <=> y \in MappedPages \ {va} \/ y = va
      BY <3>1, <3>2, <3>3, <3>4 DEF MappedPages
    <3>6. \A y \in MappedPages \ {va} : MappedTo'[y] = MappedTo[y]
      BY <3>1 DEF MappedTo, MappedPages
    <3>7. MappedTo'[va] = p
      BY <3>2, <3>3 DEF MappedTo
    <3>8. kind1[p] # "mapped" /\ kind2[p] = "mapped" /\ who2[p] = va
      BY <2>9, <2>11
    <3>9. \A f \in Ram : f # p => Alike("mapped", kind1, who1, kind2, who2, f)
      BY <2>12
    <3>10. va \notin MappedPages \ {va}
      OBVIOUS
    <3>. QED  BY <2>4, <2>8, <3>5, <3>6, <3>7, <3>8, <3>9, <3>10, MatchMore
  <2>17. Used(lv, kind2, who2)'
    BY <2>11, <2>13, <2>14, <2>15, <2>16 DEF Used
  <2>. QED  BY <2>17
<1>. QED  BY <1>7, <1>8

\* The types of what callers' entries change.
LEMMA ChangedTypes ==
  ASSUME TTypes, NEW c \in Cores, Changed(c)
  PROVE  changed' \in [Cores -> SUBSET CallerPages]
<1>1. \A d \in Cores : changed[d] \subseteq CallerPages
  BY DEF TTypes
<1>2. ASSUME NEW d \in Cores
      PROVE  (IF req[c].va \in CallerPages /\ d # c /\ tlb[d][req[c].va] # None
              THEN changed[d] \cup {req[c].va} ELSE changed[d]) \in SUBSET CallerPages
  BY <1>1
<1>. QED  BY <1>2, Zenon DEF Changed

\* WriteEntry maps the page.
LEMMA WriteEntryStep ==
  ASSUME WorkingMachine, TInv, LInv', NEW c \in Cores, Stays(c), WriteEntry(c)
  PROVE  TInv'
<1>1. pc[c] = "walk" /\ ~Inner(c) /\ req[c].op = "map"
  BY DEF WriteEntry
<1>2. LInv /\ TTypes /\ LocalsAreFunctions /\ Calling(c)
  BY TInvParts
<1>3. /\ AtTable(c) /\ Booted /\ Inside(c) /\ ptr[c] \in Ram /\ Reach(ptr[c]) = ptr[c]
      /\ req[c] \in AnyCall /\ req[c] # None /\ lvl[c] \in Levels /\ Entry(c) \in Entries
  BY <1>1, AtWork DEF AtTable
<1>4. lvl[c] = 0
  BY <1>1, <1>3, LevelNumbers DEF Inner
<1>5. PICK e : e = Word(req[c].pa, req[c].flags)
  OBVIOUS
<1>6. /\ Store(c, e) /\ result' = [result EXCEPT ![c] = "true"]
      /\ replaced' = replaced \cup (IF req[c].va \in OwnPages THEN {Entry(c).pa} \cap Ram ELSE {})
      /\ Changed(c) /\ pc' = [pc EXCEPT ![c] = "flush"]
      /\ UNCHANGED <<free, page_map, loaded, done, req, ptr, lvl, below, tlb, held>>
  BY <1>3, <1>5 DEF WriteEntry, At, Goto, boot
<1>7. e \in Entries
  BY <1>3, <1>5, Words DEF AnyCall
<1>8. PICK lv, via, kind, who : After(lv, via, kind, who)
  BY <1>3, TInvParts
<1>9. pc'[c] = "flush" /\ result'[c] = "true" /\ req'[c] = req[c]
  BY <1>2, <1>6 DEF LocalsAreFunctions
<1>10. TTypes'
  <2>1. mem' \in [Ram -> [Slots -> Entries]]
    BY <1>3, <1>4, <1>6, <1>7, <1>8, Overwrites
  <2>2. changed' \in [Cores -> SUBSET CallerPages]
    BY <1>2, <1>6, ChangedTypes
  <2>3. result' \in [Cores -> {None, "true", "false"}] /\ replaced' \subseteq Ram
    BY <1>2, <1>6 DEF TTypes
  <2>. QED  BY <1>2, <1>6, <2>1, <2>2, <2>3 DEF TTypes
<1>11. Calling(c)'
  BY <1>2, <1>3, <1>6, <1>9, NoneIsNothing DEF Calling, Inside, InsideStates
<1>12. PICK kind2, who2 : Used(lv, kind2, who2)'
  BY <1>1, <1>4, <1>5, <1>6, <1>8, <1>9, WriteUse
<1>13. ~loaded => /\ e = Word(req[c].pa, req[c].flags)
                  /\ held' = held /\ replaced' = replaced /\ tlb' = tlb
  <2>1. SUFFICES ASSUME ~loaded
                 PROVE  replaced' = replaced
    BY <1>5, <1>6
  <2>2. req[c].va \notin OwnPages
    BY <1>3, <2>1, BootCallsOnly, ToldApart, CallerPagesTypes
  <2>. QED  BY <1>6, <2>2
<1>. QED  BY <1>3, <1>4, <1>6, <1>7, <1>8, <1>9, <1>10, <1>11, <1>12, <1>13, WriteDone

\* EraseEntry ends the mapping whose page has gone back.
LEMMA EraseEntryStep ==
  ASSUME WorkingMachine, TInv, LInv', NEW c \in Cores, Stays(c), EraseEntry(c)
  PROVE  TInv'
<1>1. /\ pc[c] = "erase" /\ Store(c, Zero) /\ result' = [result EXCEPT ![c] = "true"]
      /\ Changed(c) /\ pc' = [pc EXCEPT ![c] = "flush"]
      /\ UNCHANGED <<free, page_map, loaded, done, req, ptr, lvl, below, tlb, held, replaced>>
  BY DEF EraseEntry, Goto, boot, owners
<1>2. LInv /\ TTypes /\ LocalsAreFunctions /\ Calling(c)
  BY TInvParts
<1>3. /\ AtTable(c) /\ Booted /\ Inside(c) /\ req[c] \in AnyCall /\ req[c] # None
      /\ req[c].op = "unmap"
  BY <1>1, <1>2, AtWork DEF AtTable, Calling
<1>4. loaded /\ req[c] \in Requests
  BY <1>2, <1>3, BootCallsOnly DEF Calling
<1>5. PICK lv, via, kind, who : After(lv, via, kind, who)
  BY <1>3, TInvParts
<1>6. lvl[c] = 0 /\ Used(lv, kind, who)
  BY <1>1, <1>5 DEF After, Position
<1>7. pc'[c] = "flush" /\ result'[c] = "true" /\ req'[c] = req[c]
  BY <1>1, <1>2 DEF LocalsAreFunctions
<1>8. /\ mem' \in [Ram -> [Slots -> Entries]] /\ Stored(req[c].va)' = Zero
      /\ \A a \in Told : a # req[c].va => Stored(a)' = Stored(a)
  BY <1>1, <1>3, <1>5, <1>6, NoneIsNothing, Overwrites
<1>9. TTypes'
  <2>1. changed' \in [Cores -> SUBSET CallerPages]
    BY <1>1, <1>2, ChangedTypes
  <2>2. result' \in [Cores -> {None, "true", "false"}]
    BY <1>1, <1>2 DEF TTypes
  <2>. QED  BY <1>1, <1>2, <1>8, <2>1, <2>2 DEF TTypes
<1>10. Calling(c)'
  BY <1>1, <1>2, <1>3, <1>7, NoneIsNothing DEF Calling, Inside, InsideStates
<1>11. Used(lv, kind, who)'
  <2>1. SameHold(c) /\ SameAsk(c)
    BY <1>1, <1>3, <1>7 DEF SameHold, SameAsk, Holding, Asking
  <2>2. \A d \in Cores : SameHold(d) /\ SameAsk(d)
    BY <2>1, OthersSame
  <2>3. \A f \in Ram, k \in Uses : Alike(k, kind, who, kind, who, f)
    BY DEF Alike
  <2>4. Match(Holders', below', "below", kind, who)
    BY <1>6, <2>2, <2>3, HoldersKept DEF Used, Uses
  <2>5. Match(Askers', AskedOf', "asked", kind, who)
    BY <1>6, <2>2, <2>3, AskersKept DEF Used, Uses
  <2>6. Match(MappedPages', MappedTo', "mapped", kind, who)
    <3>1. ~Freeing(c)' /\ \A d \in Cores : d # c => ~Freeing(d) /\ ~Freeing(d)'
      BY <1>2, <1>3, <1>7, OneFreeing DEF Freeing
    <3>2. ASSUME NEW va \in OwnPages
          PROVE  (Mapped(va)' <=> Mapped(va)) /\ (Mapped(va) => Stored(va)' = Stored(va))
      <4>1. CASE va = req[c].va
        <5>1. Freeing(c)
          BY <1>1, <1>3, <1>4, <4>1, RequestTypes DEF Freeing
        <5>2. ~Mapped(va)
          BY <4>1, <5>1 DEF Mapped
        <5>3. Stored(va)' = Zero
          BY <1>1, <1>8, <4>1
        <5>. QED  BY <5>2, <5>3 DEF Mapped
      <4>2. CASE va # req[c].va
        <5>1. Stored(va)' = Stored(va)
          BY <1>8, <4>2, CallerPagesTypes DEF Told
        <5>2. ~\E d \in Cores : Freeing(d) /\ req[d].va = va
          BY <3>1, <4>2
        <5>3. ~\E d \in Cores : Freeing(d)' /\ req'[d].va = va
          BY <3>1
        <5>. QED  BY <5>1, <5>2, <5>3 DEF Mapped
      <4>. QED  BY <4>1, <4>2
    <3>3. \A x : x \in MappedPages' <=> x \in MappedPages
      BY <3>2 DEF MappedPages
    <3>4. \A x \in MappedPages : MappedTo'[x] = MappedTo[x]
      BY <3>2 DEF MappedPages, MappedTo
    <3>5. Match(MappedPages, MappedTo, "mapped", kind, who)
      BY <1>6 DEF Used
    <3>6. \A f \in Ram : Alike("mapped", kind, who, kind, who, f)
      BY DEF Alike
    <3>. QED  BY <3>3, <3>4, <3>5, <3>6, MatchKept
  <2>7. \A f \in Ram : Placed(lv, kind, f)'
    BY <1>1, <1>6 DEF Used, Placed
  <2>. QED  BY <1>6, <2>4, <2>5, <2>6, <2>7 DEF Used
<1>12. Zero \in Entries
  BY NoneIsNothing
<1>. QED  BY <1>1, <1>3, <1>4, <1>5, <1>6, <1>7, <1>9, <1>10, <1>11, <1>12, WriteDone

-----------------------------------------------------------------------------
(* Steps that give pages back, or take them *)

\* FreePage: the page at va is free, and still mapped.
LEMMA FreeUse ==
  ASSUME WorkingMachine, TInv, NEW c \in Cores, Stays(c), pc[c] = "walk", pc'[c] = "erase",
         req[c].va \in OwnPages, req[c].op = "unmap", req[c].free_pa, req' = req, below' = below,
         mem' = mem, page_map' = page_map, UNCHANGED <<held, replaced>>,
         NEW a \in Ram, a = Stored(req[c].va).pa, free' = free \cup {a},
         Stored(req[c].va) # Zero,
         NEW lv, NEW via, NEW kind, NEW who, After(lv, via, kind, who)
  PROVE  \E kind2, who2 : Used(lv, kind2, who2)'
<1>1. /\ LInv /\ Inside(c) /\ Used(lv, kind, who)
  BY TInvParts DEF After, Inside, InsideStates
<1>2. PICK va \in OwnPages : va = req[c].va
  OBVIOUS
<1>3. \A d \in Cores : ~Freeing(d) /\ (d # c => ~Freeing(d)')
  BY <1>1, OneFreeing DEF Freeing
<1>4. Freeing(c)'
  BY DEF Freeing
<1>5. va \in MappedPages
  BY <1>2, <1>3 DEF MappedPages, Mapped
<1>6. kind[a] = "mapped" /\ MappedTo[va] = a
  BY <1>1, <1>2, <1>5, UsesDiffer DEF MappedTo
<1>7. PICK kind2, who2 : Moves(a, "mapped", "free", va, kind, who, kind2, who2)
  BY <1>1, <1>6, MovesExists DEF Used, Uses
<1>8. kind2 \in [Ram -> Uses] /\ kind2[a] = "free"
  BY <1>7 DEF Moves
<1>9. ASSUME NEW f \in Ram
      PROVE  Placed(lv, kind2, f)'
  <2>1. Placed(lv, kind, f)
    BY <1>1 DEF Used
  <2>2. CASE f = a
    BY <1>6, <1>8, <2>1, <2>2 DEF Placed
  <2>3. CASE f # a
    <3>1. kind2[f] = kind[f]
      BY <1>7, <2>3 DEF Moves
    <3>. QED  BY <2>1, <2>3, <3>1 DEF Placed
  <2>. QED  BY <2>2, <2>3
<1>10. /\ \A f \in Ram : f # a => Alike("mapped", kind, who, kind2, who2, f)
       /\ \A f \in Ram : Alike("below", kind, who, kind2, who2, f)
       /\ \A f \in Ram : Alike("asked", kind, who, kind2, who2, f)
  BY <1>7, MovesAlike
<1>11. SameHold(c) /\ SameAsk(c)
  BY DEF SameHold, Holding, SameAsk, Asking
<1>12. \A d \in Cores : SameHold(d) /\ SameAsk(d)
  BY <1>11, OthersSame
<1>13. Match(Holders', below', "below", kind2, who2)
  BY <1>1, <1>10, <1>12, HoldersKept DEF Used
<1>14. Match(Askers', AskedOf', "asked", kind2, who2)
  BY <1>1, <1>10, <1>12, AskersKept DEF Used
<1>15. Match(MappedPages', MappedTo', "mapped", kind2, who2)
  <2>1. \A y : Stored(y)' = Stored(y)
    BY StoredSame
  <2>2. ASSUME NEW y \in OwnPages
        PROVE  Mapped(y)' <=> Mapped(y) /\ y # va
    <3>1. (\E d \in Cores : Freeing(d)' /\ req'[d].va = y) <=> y = va
      BY <1>2, <1>3, <1>4
    <3>2. ~\E d \in Cores : Freeing(d) /\ req[d].va = y
      BY <1>3
    <3>. QED  BY <2>1, <3>1, <3>2 DEF Mapped
  <2>3. \A y : y \in MappedPages' <=> y \in MappedPages /\ y # va
    BY <2>2 DEF MappedPages
  <2>4. \A y \in MappedPages' : MappedTo'[y] = MappedTo[y]
    BY <2>1 DEF MappedTo, MappedPages
  <2>5. Match(MappedPages, MappedTo, "mapped", kind, who)
    BY <1>1 DEF Used
  <2>6. kind2[a] # "mapped"
    BY <1>8
  <2>. QED  BY <1>5, <1>6, <1>10, <2>3, <2>4, <2>5, <2>6, MatchLess
<1>16. Used(lv, kind2, who2)'
  BY <1>8, <1>9, <1>13, <1>14, <1>15 DEF Used
<1>. QED  BY <1>16

\* FreePage keeps the invariant, also when pmm_free_pages panics.
LEMMA FreePageStep ==
  ASSUME WorkingMachine, TInv, LInv', NEW c \in Cores, Stays(c), FreePage(c)
  PROVE  TInv'
<1>1. pc[c] = "walk" /\ ~Inner(c) /\ req[c].op = "unmap"
  BY DEF FreePage
<1>2. LInv /\ TTypes /\ LocalsAreFunctions /\ Calling(c)
  BY TInvParts
<1>3. /\ AtTable(c) /\ Booted /\ Inside(c) /\ ptr[c] \in Ram /\ Reach(ptr[c]) = ptr[c]
      /\ req[c] \in AnyCall /\ req[c] # None /\ lvl[c] \in Levels /\ Entry(c) \in Entries
      /\ req[c].va \in Pages /\ Entry(c) = mem[ptr[c]][Slot(req[c].va, lvl[c])]
  BY <1>1, AtWork DEF AtTable
<1>4. lvl[c] = 0
  BY <1>1, <1>3, LevelNumbers DEF Inner
<1>5. loaded /\ req[c] \in Requests /\ (req[c].free_pa <=> req[c].va \in OwnPages)
  <2>1. loaded
    BY <1>1, <1>3, BootCallsOnly
  <2>2. req[c] \in Requests
    BY <1>2, <1>3, <2>1 DEF Calling
  <2>. QED  BY <1>1, <2>1, <2>2, RequestTypes
<1>6. PICK a : a = Entry(c).pa % MASK
  OBVIOUS
<1>8. /\ \/ /\ req[c].free_pa /\ (Invalid(a) \/ Reach(a) = None)
            /\ pc' = [pc EXCEPT ![c] = "panic"] /\ free' = free
         \/ /\ ~(req[c].free_pa /\ (Invalid(a) \/ Reach(a) = None))
            /\ pc' = [pc EXCEPT ![c] = "erase"] /\ free' = IF req[c].free_pa THEN free \cup {a} ELSE free
      /\ UNCHANGED <<mem, page_map, loaded, done, req, ptr, lvl, below, result, tlb, changed,
           held, replaced>>
  BY <1>3, <1>6 DEF FreePage, At, Goto, boot, seen, owners
<1>9. PICK lv, via, kind, who : After(lv, via, kind, who)
  BY <1>3, TInvParts
<1>10. /\ Used(lv, kind, who) /\ Tree(mem, page_map.cr3_paddr, lv, via)
       /\ On(lv, via, ptr[c], 0, req[c].va)
  BY <1>3, <1>4, <1>9 DEF After, Position
<1>11. Stored(req[c].va) = Entry(c)
  BY <1>3, <1>4, <1>10, StoredNow, StoredEntry
<1>7. req[c].free_pa => a = Entry(c).pa /\ (Entry(c) # Zero => a \in Ram) /\ a \in Nat
  <2>1. SUFFICES ASSUME req[c].free_pa
                 PROVE  a = Entry(c).pa /\ (Entry(c) # Zero => a \in Ram) /\ a \in Nat
    OBVIOUS
  <2>2. CASE Entry(c) = Zero
    <3>1. Entry(c).pa = 0 /\ 0 % MASK = 0
      BY <2>2, RamPages DEF Zero
    <3>. QED  BY <1>6, <2>2, <3>1
  <2>3. CASE Entry(c) # Zero
    <3>1. req[c].va \in MappedPages
      BY <1>1, <1>2, <1>3, <1>5, <1>11, <2>1, <2>3, OneFreeing DEF MappedPages, Mapped, Freeing
    <3>2. Entry(c).pa \in Ram
      BY <1>10, <1>11, <3>1, UsesDiffer
    <3>. QED  BY <1>6, <3>2, RamPages, Identity
  <2>. QED  BY <2>2, <2>3
<1>12. CASE pc' = [pc EXCEPT ![c] = "panic"] /\ free' = free
  <2>1. pc'[c] = "panic" /\ req'[c] = req[c] /\ result'[c] = result[c]
    BY <1>2, <1>8, <1>12 DEF LocalsAreFunctions
  <2>2. Position(lv, via, c)'
    BY <2>1, NoPosition
  <2>3. TTypes'
    BY <1>2, <1>8, <1>12 DEF TTypes
  <2>4. Calling(c)'
    BY <1>1, <1>2, <1>8, <2>1 DEF Calling, Inside, InsideStates
  <2>5. SameHold(c) /\ SameAsk(c) /\ SameFree(c)
    BY <1>1, <1>8, <2>1 DEF SameHold, SameAsk, SameFree, Holding, Asking, Freeing
  <2>. QED  BY <1>3, <1>5, <1>8, <1>9, <1>12, <2>1, <2>2, <2>3, <2>4, <2>5, QuietStepDone
<1>13. CASE /\ ~(req[c].free_pa /\ (Invalid(a) \/ Reach(a) = None))
            /\ pc' = [pc EXCEPT ![c] = "erase"] /\ free' = IF req[c].free_pa THEN free \cup {a} ELSE free
  <2>1. pc'[c] = "erase" /\ req'[c] = req[c] /\ result'[c] = result[c] /\ lvl'[c] = lvl[c]
        /\ ptr'[c] = ptr[c]
    BY <1>2, <1>8, <1>13 DEF LocalsAreFunctions
  <2>2. Position(lv, via, c)'
    BY <1>3, <1>4, <1>10, <2>1 DEF Position, AtTable
  <2>3. Calling(c)'
    BY <1>1, <1>2, <1>3, <1>8, <2>1 DEF Calling, Inside, InsideStates
  <2>4. pc'[c] \notin {"start", "clear pml4"}
    BY <2>1
  <2>5. CASE ~req[c].free_pa
    <3>1. free' = free
      BY <1>13, <2>5
    <3>2. TTypes'
      BY <1>2, <1>8, <1>13, <3>1 DEF TTypes
    <3>3. SameHold(c) /\ SameAsk(c) /\ SameFree(c)
      BY <1>1, <1>8, <2>1, <2>5 DEF SameHold, SameAsk, SameFree, Holding, Asking, Freeing
    <3>. QED  BY <1>3, <1>5, <1>8, <1>9, <2>2, <2>3, <2>4, <3>1, <3>2, <3>3, QuietStepDone
  <2>6. CASE req[c].free_pa
    <3>1. free' = free \cup {a} /\ req[c].va \in OwnPages
      BY <1>5, <1>13, <2>6
    <3>2. a >= 1
      <4>1. PICK b \in free : ~(a < b)
        BY <1>13, <2>6 DEF Invalid
      <4>2. b \in 1 .. MASK - 1
        BY <1>2, <4>1, RamPages DEF TTypes
      <4>. QED  BY <1>7, <2>6, <4>1, <4>2, RamPages
    <3>3. Stored(req[c].va) # Zero
      BY <1>7, <1>11, <2>6, <3>2 DEF Zero
    <3>4. a \in Ram
      BY <1>7, <1>11, <2>6, <3>3
    <3>5. TTypes'
      <4>1. free' \subseteq Ram
        BY <1>2, <3>1, <3>4 DEF TTypes
      <4>. QED  BY <1>2, <1>8, <1>13, <4>1 DEF TTypes
    <3>6. a = Stored(req[c].va).pa
      BY <1>7, <1>11, <2>6
    <3>7. PICK kind2, who2 : Used(lv, kind2, who2)'
      <4>1. UNCHANGED <<held, replaced, req, below, mem, page_map>>
        BY <1>8
      <4>. QED  BY <1>1, <1>9, <2>1, <2>6, <3>1, <3>3, <3>4, <3>6, <4>1, FreeUse
    <3>8. \A d \in Cores : Position(lv, via, d)'
      BY <1>2, <1>3, <2>2, OthersNowhere
    <3>9. \A x : Stored(x)' = Stored(x)
      BY <1>8, StoredSame
    <3>10. Steady
      BY <1>5, <1>8, <1>9, <3>9 DEF Steady, Written, After
    <3>11. Tree(mem', page_map'.cr3_paddr, lv, via)
      BY <1>8, <1>10
    <3>12. After(lv, via, kind2, who2)'
      BY <1>2, <1>9, <3>7, <3>8, <3>10, <3>11, AfterKept
    <3>. QED  BY <1>1, <1>3, <1>8, <2>3, <2>4, <3>5, <3>12, StepDone
  <2>. QED  BY <2>5, <2>6
<1>. QED  BY <1>8, <1>12, <1>13

\* GetPage: a free page is a caller's.
LEMMA GetPageStep ==
  ASSUME WorkingMachine, TInv, LInv', GetPage
  PROVE  TInv'
<1>1. /\ loaded /\ free # {} /\ free' = free \ {BestFit} /\ held' = held \cup {BestFit - HHDM}
      /\ UNCHANGED <<mem, page_map, loaded, done, pc, req, ptr, lvl, below, result, tlb,
           changed, replaced>>
  BY DEF GetPage, boot, locals, seen
<1>2. LInv /\ TTypes /\ LocalsAreFunctions /\ \A d \in Cores : Calling(d)
  BY TInvParts
<1>3. Booted
  BY <1>1, TInvParts
<1>4. PICK lv, via, kind, who : After(lv, via, kind, who)
  BY <1>3, TInvParts
<1>5. Used(lv, kind, who) /\ Tree(mem, page_map.cr3_paddr, lv, via)
  BY <1>4 DEF After
<1>6. PICK b \in Ram : b = BestFit /\ b \in free /\ b - HHDM = b
  <2>1. BestFit \in free /\ BestFit \in Ram
    BY <1>1, <1>2, BestFitIsFree DEF TTypes
  <2>. QED  BY <2>1, Identity, RamPages
<1>7. free' = free \ {b} /\ held' = held \cup {b}
  BY <1>1, <1>6
<1>8. kind[b] = "free"
  BY <1>5, <1>6, UsesDiffer
<1>9. PICK kind2, who2 : Moves(b, "free", "held", 0, kind, who, kind2, who2)
  BY <1>5, <1>8, MovesExists DEF Used, Uses
<1>10. kind2 \in [Ram -> Uses] /\ kind2[b] = "held"
  BY <1>9 DEF Moves
<1>11. \A d \in Cores : SameHold(d) /\ SameAsk(d) /\ SameFree(d)
  BY <1>1 DEF SameHold, SameAsk, SameFree, Holding, Asking, Freeing
<1>12. \A a : Stored(a)' = Stored(a)
  BY <1>1, StoredSame
<1>13. Used(lv, kind2, who2)'
  <2>1. ASSUME NEW f \in Ram
        PROVE  Placed(lv, kind2, f)'
    <3>1. Placed(lv, kind, f)
      BY <1>5 DEF Used
    <3>2. CASE f = b
      BY <1>1, <1>7, <1>8, <1>10, <3>1, <3>2 DEF Placed
    <3>3. CASE f # b
      <4>1. kind2[f] = kind[f]
        BY <1>9, <3>3 DEF Moves
      <4>. QED  BY <1>1, <1>7, <3>1, <3>3, <4>1 DEF Placed
    <3>. QED  BY <3>2, <3>3
  <2>2. /\ \A f \in Ram : Alike("below", kind, who, kind2, who2, f)
        /\ \A f \in Ram : Alike("asked", kind, who, kind2, who2, f)
        /\ \A f \in Ram : Alike("mapped", kind, who, kind2, who2, f)
    BY <1>9, MovesAlike
  <2>3. Match(Holders', below', "below", kind2, who2)
    BY <1>5, <1>11, <2>2, HoldersKept DEF Used
  <2>4. Match(Askers', AskedOf', "asked", kind2, who2)
    BY <1>5, <1>11, <2>2, AskersKept DEF Used
  <2>5. Match(MappedPages', MappedTo', "mapped", kind2, who2)
    BY <1>5, <1>11, <1>12, <2>2, MappedKept DEF Used
  <2>. QED  BY <1>10, <2>1, <2>3, <2>4, <2>5 DEF Used
<1>14. \A d \in Cores : Position(lv, via, d)'
  BY <1>1, <1>4 DEF After, Position, AtTable
<1>15. TTypes'
  BY <1>1, <1>2, <1>7 DEF TTypes
<1>16. \A d \in Cores : Calling(d)'
  BY <1>1, <1>2 DEF Calling, Inside
<1>17. Steady
  BY <1>1, <1>4, <1>12 DEF Steady, Written, After
<1>18. Tree(mem', page_map'.cr3_paddr, lv, via)
  BY <1>1, <1>5
<1>19. After(lv, via, kind2, who2)'
  BY <1>2, <1>4, <1>13, <1>14, <1>17, <1>18, AfterKept
<1>20. Booted'
  BY <1>1, <1>3 DEF Booted
<1>. QED  BY <1>15, <1>16, <1>19, <1>20 DEF TInv

\* Call: a caller's page goes to the call that maps it.
LEMMA CallStep ==
  ASSUME WorkingMachine, TInv, LInv', NEW c \in Cores, NEW r \in Requests, Call(c, r)
  PROVE  TInv'
<1>1. /\ loaded /\ pc[c] = "idle" /\ (r.op = "map" /\ r.va \in OwnPages => r.pa \in held)
      /\ held' = (IF r.op = "map" THEN held \ {r.pa} ELSE held)
      /\ req' = [req EXCEPT ![c] = r] /\ pc' = [pc EXCEPT ![c] = "lock"]
      /\ UNCHANGED <<mem, free, page_map, loaded, done, ptr, lvl, below, result, tlb, changed,
           replaced>>
  BY DEF Call, Goto, boot, seen
<1>2. LInv /\ TTypes /\ LocalsAreFunctions /\ Calling(c)
  BY TInvParts
<1>3. Booted
  BY <1>1, TInvParts
<1>4. PICK lv, via, kind, who : After(lv, via, kind, who)
  BY <1>3, TInvParts
<1>5. Used(lv, kind, who) /\ Tree(mem, page_map.cr3_paddr, lv, via)
  BY <1>4 DEF After
<1>6. pc'[c] = "lock" /\ req'[c] = r /\ result'[c] = result[c] /\ req[c] = None /\ result[c] = None
  BY <1>1, <1>2 DEF LocalsAreFunctions, Calling
<1>7. Stays(c)
  BY <1>1, <1>2 DEF Stays, LocalsAreFunctions
<1>8. r \in AnyCall /\ r # None /\ r \in Calls
  BY RequestTypes, NoneIsNothing DEF Calls
<1>9. TTypes'
  <2>1. req' \in [Cores -> Calls]
    BY <1>1, <1>2, <1>8 DEF TTypes
  <2>2. held' \subseteq Ram
    BY <1>1, <1>2 DEF TTypes
  <2>. QED  BY <1>1, <1>2, <2>1, <2>2 DEF TTypes
<1>10. Calling(c)'
  <2>1. /\ pc'[c] \notin {"start", "clear pml4", "init", "idle"} /\ pc'[c] \notin {"allocate",
             "zero", "link"}
        /\ pc'[c] # "erase" /\ pc'[c] \notin {"flush", "unlock"} /\ pc'[c] # "flush"
    BY <1>6
  <2>2. req'[c] \in Requests \cup {None} /\ loaded' /\ result'[c] = None /\ req'[c] # None
    BY <1>1, <1>6, <1>8
  <2>. QED  BY <2>1, <2>2, Zenon DEF Calling
<1>11. Position(lv, via, c)'
  BY <1>6, NoPosition
<1>12. SameHold(c) /\ SameFree(c) /\ ~Asking(c)
  BY <1>1, <1>6 DEF SameHold, SameFree, Holding, Freeing, Asking
<1>13. pc'[c] \notin {"start", "clear pml4"}
  BY <1>6
<1>14. CASE ~(r.op = "map" /\ r.va \in OwnPages)
  <2>1. held' = held
    <3>1. r.op = "map" => r.pa \notin held
      BY <1>2, <1>14, RequestTypes DEF TTypes
    <3>. QED  BY <1>1, <3>1
  <2>2. SameAsk(c)
    BY <1>6, <1>12, <1>14 DEF SameAsk, Asking
  <2>3. UNCHANGED <<free, held, replaced>>
    BY <1>1, <2>1
  <2>. QED  BY <1>1, <1>3, <1>4, <1>7, <1>9, <1>10, <1>11, <1>12, <1>13, <2>2, <2>3, QuietStepDone
<1>15. CASE r.op = "map" /\ r.va \in OwnPages
  <2>1. PICK p \in Ram : p = r.pa /\ p \in held /\ held' = held \ {p}
    BY <1>1, <1>2, <1>15 DEF TTypes
  <2>2. kind[p] = "held"
    BY <1>5, <2>1 DEF Used, Placed
  <2>3. PICK kind2, who2 : Moves(p, "held", "asked", c, kind, who, kind2, who2)
    BY <1>5, <2>2, MovesExists DEF Used, Uses
  <2>4. kind2 \in [Ram -> Uses] /\ kind2[p] = "asked" /\ who2[p] = c
    BY <2>3 DEF Moves
  <2>5. /\ \A f \in Ram : Alike("below", kind, who, kind2, who2, f)
        /\ \A f \in Ram : f # p => Alike("asked", kind, who, kind2, who2, f)
        /\ \A f \in Ram : Alike("mapped", kind, who, kind2, who2, f)
    BY <2>3, MovesAlike
  <2>6. \A a : Stored(a)' = Stored(a)
    BY <1>1, StoredSame
  <2>7. \A d \in Cores : SameHold(d) /\ SameFree(d) /\ (d # c => SameAsk(d))
    BY <1>7, <1>12, OthersSame
  <2>8. Used(lv, kind2, who2)'
    <3>1. ASSUME NEW f \in Ram
          PROVE  Placed(lv, kind2, f)'
      <4>1. Placed(lv, kind, f)
        BY <1>5 DEF Used
      <4>2. CASE f = p
        BY <1>1, <2>1, <2>2, <2>4, <4>1, <4>2 DEF Placed
      <4>3. CASE f # p
        <5>1. kind2[f] = kind[f]
          BY <2>3, <4>3 DEF Moves
        <5>. QED  BY <1>1, <2>1, <4>1, <4>3, <5>1 DEF Placed
      <4>. QED  BY <4>2, <4>3
    <3>2. Match(Holders', below', "below", kind2, who2)
      BY <1>5, <2>5, <2>7, HoldersKept DEF Used
    <3>3. Match(Askers', AskedOf', "asked", kind2, who2)
      <4>1. Asking(c)'
        BY <1>6, <1>8, <1>15 DEF Asking
      <4>2. \A y : y \in Askers' <=> y \in Askers \/ y = c
        BY <2>7, <4>1 DEF Askers, SameAsk
      <4>3. c \notin Askers /\ \A y \in Askers : AskedOf'[y] = AskedOf[y]
        BY <1>12, <2>7 DEF Askers, AskedOf, SameAsk
      <4>4. AskedOf'[c] = p
        BY <1>6, <2>1 DEF AskedOf
      <4>5. Match(Askers, AskedOf, "asked", kind, who)
        BY <1>5 DEF Used
      <4>6. kind[p] # "asked"
        BY <2>2
      <4>. QED  BY <2>4, <2>5, <4>2, <4>3, <4>4, <4>5, <4>6, MatchMore
    <3>4. Match(MappedPages', MappedTo', "mapped", kind2, who2)
      BY <1>5, <2>5, <2>6, <2>7, MappedKept DEF Used
    <3>. QED  BY <2>4, <3>1, <3>2, <3>3, <3>4 DEF Used
  <2>9. \A d \in Cores : Position(lv, via, d)'
    BY <1>1, <1>4, <1>7, <1>11, PositionKept DEF After
  <2>10. Steady
    BY <1>1, <1>4, <2>6 DEF Steady, Written, After
  <2>11. Tree(mem', page_map'.cr3_paddr, lv, via)
    BY <1>1, <1>5
  <2>12. After(lv, via, kind2, who2)'
    BY <1>2, <1>4, <2>8, <2>9, <2>10, <2>11, AfterKept
  <2>. QED  BY <1>1, <1>3, <1>7, <1>9, <1>10, <1>13, <2>12, StepDone
<1>. QED  BY <1>14, <1>15

-----------------------------------------------------------------------------
(* The invariant *)

\* It holds when the machine starts.
LEMMA InitTInv ==
  ASSUME WorkingMachine, Init
  PROVE  TInv
<1>1. LInv
  BY InitInv
<1>2. /\ mem = [f \in Ram |-> ZeroPage] /\ free = {(f + HHDM) % WORD : f \in Ram}
      /\ page_map = [pml4_address |-> 0, cr3_paddr |-> 0] /\ loaded = FALSE /\ done = 0
      /\ pc = [c \in Cores |-> IF c = BootCore THEN "start" ELSE "idle"]
      /\ req = [c \in Cores |-> None] /\ ptr = [c \in Cores |-> 0] /\ lvl = [c \in Cores |-> 0]
      /\ below = [c \in Cores |-> 0] /\ result = [c \in Cores |-> None]
      /\ tlb = [c \in Cores |-> [va \in CallerPages |-> None]]
      /\ held = {} /\ replaced = {} /\ changed = [c \in Cores |-> {}]
  BY DEF Init
<1>3. free = Ram
  <2>1. \A f \in Ram : (f + HHDM) % WORD = f
    BY Identity
  <2>. QED  BY <1>2, <2>1
<1>4. pc[BootCore] = "start"
  BY <1>2, MmuAssumption
<1>5. TTypes
  <2>1. mem \in [Ram -> [Slots -> Entries]]
    BY <1>2, GarbageTypes
  <2>2. 0 \in Pages /\ 0 \in Levels /\ None \in Calls
    BY RamPages, LevelNumbers DEF Pages, Calls
  <2>3. page_map \in [pml4_address : Pages, cr3_paddr : Pages]
    BY <1>2, <2>2
  <2>4. /\ req \in [Cores -> Calls] /\ ptr \in [Cores -> Pages] /\ lvl \in [Cores -> Levels]
        /\ below \in [Cores -> Pages] /\ result \in [Cores -> {None, "true", "false"}]
        /\ changed \in [Cores -> SUBSET CallerPages]
    BY <1>2, <2>2
  <2>5. [va \in CallerPages |-> None] \in Remembered
    BY DEF Remembered
  <2>6. tlb \in [Cores -> Remembered]
    BY <1>2, <2>5
  <2>7. done \in 0 .. Len(InitCalls)
    BY <1>2, InitMaps
  <2>. QED  BY <1>2, <1>3, <2>1, <2>3, <2>4, <2>6, <2>7 DEF TTypes
<1>6. \A c \in Cores : Calling(c)
  BY <1>2 DEF Calling, Inside, InsideStates
<1>7. ~Booted
  BY <1>2, <1>4 DEF Booted
<1>8. Before
  <2>1. \A c \in Cores : tlb[c] = [va \in CallerPages |-> None]
    BY <1>2
  <2>2. page_map.cr3_paddr = 0 /\ page_map.pml4_address = 0
    BY <1>2
  <2>. QED  BY <1>2, <1>3, <1>4, <2>1, <2>2 DEF Before
<1>. QED  BY <1>1, <1>2, <1>5, <1>6, <1>7, <1>8 DEF TInv

\* Every step keeps it.
LEMMA NextTInv ==
  ASSUME WorkingMachine, TInv, [Next]_vars
  PROVE  TInv'
<1>1. LInv /\ LocalsAreFunctions
  BY TInvParts
<1>2. LInv'
  BY <1>1, NextInv
<1>3. ASSUME NEW c \in Cores, Step(c)
      PROVE  TInv'
  <2>1. Stays(c)
    BY <1>1, <1>3, OthersStay
  <2>. QED
    BY <1>2, <1>3, <2>1, StartMmuStep, ClearPml4Step, InitMapStep, LoadContextStep, LockStep,
       DescendStep, AllocTableStep, AllocFailsStep, ZeroTableStep, LinkTableStep, WriteEntryStep,
       FreePageStep, EraseEntryStep, FlushStep, UnlockStep DEF Step
<1>4. ASSUME NEW c \in Cores, Spin(c) \/ Halt(c)
      PROVE  TInv'
  BY <1>2, <1>4, StutterStep DEF Spin, Halt
<1>. QED
  BY <1>2, <1>3, <1>4, StutterStep, CallStep, FillStep, GetPageStep DEF Next

-----------------------------------------------------------------------------
(* The other machines *)

\* A page of the allocator's, as init_mmu goes on to use its address.
TwiceOffset(f) == (((f + HHDM) % WORD) + HHDM) % WORD

\* The direct map starts where there is no memory: adding its offset twice leads
\* out of it.
LEMMA OffsetBeyondMemory ==
  ASSUME HHDM # 0, NEW f \in Ram
  PROVE  /\ (f + HHDM) % WORD \in Pages /\ TwiceOffset(f) \in Pages
         /\ TwiceOffset(f) - HHDM \notin Physical
<1>1. PICK h \in Nat, m \in Nat \ {0}, w \in Nat \ {0} :
        h = HHDM /\ m = MASK /\ w = WORD /\ h >= m /\ h + m <= w
  BY OffsetAssumption, MmuAssumption
<1>2. f \in 1 .. m - 1
  BY <1>1, RamPages
<1>3. PICK y \in Nat : y = f + h /\ y < w
  BY <1>1, <1>2
<1>4. y % w = y
  BY <1>3
<1>5. PICK x \in 0 .. w - 1 : x = (y + h) % w
  BY <1>1, <1>3
<1>6. ~(x - h \in 1 .. m - 1)
  <2>1. CASE y + h < w
    <3>1. x = y + h
      BY <1>5, <2>1
    <3>. QED  BY <1>1, <1>2, <1>3, <3>1
  <2>2. CASE y + h >= w
    <3>1. PICK z \in 0 .. w - 1 : z = y + h - w
      BY <1>1, <1>3, <2>2
    <3>2. y + h = w + z
      BY <3>1
    <3>3. (w + z) % w = z
      BY <3>1
    <3>4. x = z
      BY <1>5, <3>2, <3>3
    <3>. QED  BY <1>1, <1>3, <3>1, <3>4
  <2>. QED  BY <2>1, <2>2
<1>7. TwiceOffset(f) = x /\ (f + HHDM) % WORD = y
  BY <1>1, <1>3, <1>4, <1>5 DEF TwiceOffset
<1>8. x \in Pages /\ y \in Pages
  BY <1>1, <1>3, <1>5 DEF Pages
<1>9. Physical \subseteq 1 .. m - 1
  BY <1>1, MmuAssumption
<1>. QED  BY <1>1, <1>6, <1>7, <1>8, <1>9

\* Nobody has called map or unmap, or remembers anything.
Resting ==
  /\ loaded = FALSE /\ done = 0 /\ mmu_lock = FALSE /\ held = {} /\ replaced = {}
  /\ req = [c \in Cores |-> None] /\ ptr = [c \in Cores |-> 0] /\ lvl = [c \in Cores |-> 0]
  /\ below = [c \in Cores |-> 0] /\ result = [c \in Cores |-> None]
  /\ tlb = [c \in Cores |-> [va \in CallerPages |-> None]]
  /\ changed = [c \in Cores |-> {}]

\* init_mmu has asked for its first page at most.
AtTheFirstPage ==
  /\ Resting
  /\ mem \in [Ram -> [Slots -> Entries]] /\ free \subseteq Pages
  /\ page_map \in [pml4_address : Pages, cr3_paddr : Pages]
  /\ pc \in [Cores -> States]
  /\ \A c \in Cores \ {BootCore} : pc[c] = "idle"
  /\ pc[BootCore] \in {"start", "clear pml4", "panic"}
  /\ pc[BootCore] = "start" => free = {(f + HHDM) % WORD : f \in Ram}
  /\ pc[BootCore] = "clear pml4" => \E f \in Ram : page_map.pml4_address = TwiceOffset(f)

\* So does the machine start.
LEMMA InitFirstPage ==
  ASSUME HHDM # 0, Init
  PROVE  AtTheFirstPage
<1>1. BootCore \in Cores
  BY MmuAssumption
<1>2. Resting
  BY DEF Init, Resting
<1>3. mem \in [Ram -> [Slots -> Entries]]
  BY GarbageTypes DEF Init
<1>4. free = {(f + HHDM) % WORD : f \in Ram} /\ free \subseteq Pages
  BY OffsetBeyondMemory DEF Init
<1>5. page_map \in [pml4_address : Pages, cr3_paddr : Pages]
  BY RamPages DEF Init, Pages
<1>6. pc = [c \in Cores |-> IF c = BootCore THEN "start" ELSE "idle"]
  BY DEF Init
<1>. QED  BY <1>1, <1>2, <1>3, <1>4, <1>5, <1>6 DEF AtTheFirstPage, States, BootStates

\* The boot core cannot clear its first table.
LEMMA FirstPageFaults ==
  ASSUME HHDM # 0, AtTheFirstPage, [Next]_vars
  PROVE  AtTheFirstPage' /\ Resting /\ Resting'
<1>1. /\ BootCore \in Cores /\ Resting /\ pc \in [Cores -> States]
      /\ mem \in [Ram -> [Slots -> Entries]] /\ free \subseteq Pages
      /\ page_map \in [pml4_address : Pages, cr3_paddr : Pages]
      /\ \A c \in Cores \ {BootCore} : pc[c] = "idle"
  BY MmuAssumption DEF AtTheFirstPage
<1>2. CASE StartMmu(BootCore)
  <2>1. /\ pc[BootCore] = "start" /\ free = {(f + HHDM) % WORD : f \in Ram}
        /\ UNCHANGED <<loaded, done, mmu_lock, req, ptr, lvl, below, result, tlb, changed, held, replaced>>
    BY <1>2 DEF StartMmu, AtTheFirstPage, seen, owners
  <2>2. Resting'
    BY <1>1, <2>1 DEF Resting
  <2>3. CASE pc' = [pc EXCEPT ![BootCore] = "panic"] /\ UNCHANGED <<mem, free, page_map>>
    BY <1>1, <2>2, <2>3 DEF AtTheFirstPage, States, BootStates, InsideStates
  <2>4. CASE /\ free # {} /\ free' = free \ {BestFit} /\ pc' = [pc EXCEPT ![BootCore] = "clear pml4"]
             /\ page_map' = [cr3_paddr |-> BestFit, pml4_address |-> (BestFit + HHDM) % WORD]
             /\ \E g \in Garbage : mem' = [mem EXCEPT ![BestFit - HHDM] = g]
    <3>1. BestFit \in free
      BY <1>1, <2>4, BestFitOfPages
    <3>2. PICK f \in Ram : BestFit = (f + HHDM) % WORD
      BY <2>1, <3>1
    <3>3. BestFit \in Pages /\ TwiceOffset(f) \in Pages
      BY <3>2, OffsetBeyondMemory
    <3>4. page_map' = [cr3_paddr |-> BestFit, pml4_address |-> TwiceOffset(f)]
      BY <2>4, <3>2 DEF TwiceOffset
    <3>5. mem' \in [Ram -> [Slots -> Entries]]
      BY <1>1, <2>4, GarbageTypes
    <3>6. pc' \in [Cores -> States] /\ pc'[BootCore] = "clear pml4"
          /\ \A c \in Cores \ {BootCore} : pc'[c] = "idle"
      BY <1>1, <2>4 DEF States, BootStates
    <3>7. free' \subseteq Pages
      BY <1>1, <2>4
    <3>8. page_map' \in [pml4_address : Pages, cr3_paddr : Pages]
      BY <3>3, <3>4
    <3>9. page_map'.pml4_address = TwiceOffset(f)
      BY <3>4
    <3>. QED  BY <2>2, <3>5, <3>6, <3>7, <3>8, <3>9 DEF AtTheFirstPage
  <2>. QED  BY <1>1, <1>2, <2>3, <2>4 DEF StartMmu, Goto
<1>3. CASE ClearPml4(BootCore)
  <2>1. pc[BootCore] = "clear pml4"
    BY <1>3 DEF ClearPml4
  <2>2. PICK f \in Ram : page_map.pml4_address = TwiceOffset(f)
    BY <2>1 DEF AtTheFirstPage
  <2>3. Reach(page_map.pml4_address) = None
    <3>1. TwiceOffset(f) - HHDM \notin Physical
      BY OffsetBeyondMemory
    <3>. QED  BY <1>1, <2>2, <3>1 DEF Reach, Resting
  <2>4. None \notin Ram
    BY RamPages, NoneAssumption
  <2>5. /\ pc' = [pc EXCEPT ![BootCore] = "panic"]
        /\ UNCHANGED <<mem, free, page_map, loaded, done, mmu_lock, req, ptr, lvl, below, result,
                       tlb, changed, held, replaced>>
    BY <1>3, <2>3, <2>4 DEF ClearPml4, At, Goto, boot, seen, owners
  <2>6. Resting'
    BY <1>1, <2>5 DEF Resting
  <2>. QED  BY <1>1, <2>5, <2>6 DEF AtTheFirstPage, States, BootStates, InsideStates
<1>4. CASE UNCHANGED vars \/ \E c \in Cores : Spin(c) \/ Halt(c)
  <2>1. UNCHANGED <<mem, free, page_map, loaded, done, mmu_lock, pc, req, ptr, lvl, below, result,
                    tlb, changed, held, replaced>>
    BY <1>4 DEF Spin, Halt, vars, boot, locals, seen, owners
  <2>2. Resting'
    BY <1>1, <2>1 DEF Resting
  <2>. QED  BY <1>1, <2>1, <2>2 DEF AtTheFirstPage
<1>5. ASSUME NEW c \in Cores, Step(c)
      PROVE  StartMmu(BootCore) \/ ClearPml4(BootCore)
  <2>1. c # BootCore => pc[c] = "idle"
    BY <1>1
  <2>2. pc[BootCore] \in {"start", "clear pml4", "panic"}
    BY DEF AtTheFirstPage
  <2>. QED
    BY <1>1, <1>5, <2>1, <2>2
       DEF Step, StartMmu, ClearPml4, InitMap, LoadContext, Lock, Descend, AllocTable, AllocFails,
           ZeroTable, LinkTable, WriteEntry, FreePage, EraseEntry, tlb_flush, Unlock
<1>6. ASSUME GetPage \/ (\E c \in Cores, r \in Requests : Call(c, r))
               \/ (\E c \in Cores, va \in CallerPages : Fill(c, va))
      PROVE  FALSE
  BY <1>1, <1>6 DEF GetPage, Call, Fill, Walk, Resting
<1>. QED  BY <1>1, <1>2, <1>3, <1>4, <1>5, <1>6 DEF Next

\* The invariant holds there in every reachable state.
LEMMA OtherMachines == ASSUME HHDM # 0 PROVE Spec => []AtTheFirstPage
<1>1. Init => AtTheFirstPage
  BY InitFirstPage
<1>2. AtTheFirstPage /\ [Next]_vars => AtTheFirstPage'
  BY FirstPageFaults
<1>. QED  BY <1>1, <1>2, PTL DEF Spec

\* load_context is never reached (mmu.c:55-61).
NeverLoads == ~loaded

\* With a direct map anywhere else than at 0, as the boot loader has it, init_mmu
\* faults at the first table it clears, and load_context is not reached: it adds
\* hhdm->offset to an address of the direct map (mmu.c:55-61).
THEOREM OffsetStopsBoot == ASSUME HHDM # 0 PROVE Spec => []NeverLoads
<1>1. AtTheFirstPage => NeverLoads
  BY DEF AtTheFirstPage, Resting, NeverLoads
<1>. QED  BY <1>1, OtherMachines, PTL

-----------------------------------------------------------------------------
(* All machines *)

\* The invariant, whatever the offset of the direct map.
Reachable == IF HHDM = 0 THEN TInv ELSE AtTheFirstPage

\* It holds in every reachable state: the tables are the ones that map and unmap
\* mean to make, or init_mmu has come to its first table at most (mmu.c:52-61).
THEOREM TreeInvariance == ASSUME Mappable PROVE Spec => []Reachable
<1>1. Init => Reachable
  BY InitTInv, InitFirstPage DEF Reachable, WorkingMachine
<1>2. ASSUME Reachable, [Next]_vars
      PROVE  Reachable'
  <2>1. CASE HHDM = 0
    <3>1. TInv /\ WorkingMachine
      BY <1>2, <2>1 DEF Reachable, WorkingMachine
    <3>2. TInv'
      BY <1>2, <3>1, NextTInv
    <3>. QED  BY <2>1, <3>2 DEF Reachable
  <2>2. CASE HHDM # 0
    <3>1. AtTheFirstPage
      BY <1>2, <2>2 DEF Reachable
    <3>2. AtTheFirstPage'
      BY <1>2, <2>2, <3>1, FirstPageFaults
    <3>. QED  BY <2>2, <3>2 DEF Reachable
  <2>. QED  BY <2>1, <2>2
<1>. QED  BY <1>1, <1>2, PTL DEF Spec

\* Where init_mmu stops at its first page there are no tables, and nobody sees any.
LEMMA NothingThere ==
  ASSUME AtTheFirstPage
  PROVE  /\ ~loaded /\ ~Booted /\ done = 0
         /\ \A va : Walk(va) = None
         /\ \A c \in Cores : /\ req[c] = None /\ result[c] = None /\ ptr[c] = 0 /\ lvl[c] = 0
                             /\ below[c] = 0 /\ changed[c] = {}
                             /\ tlb[c] = [va \in CallerPages |-> None]
<1>1. Resting /\ pc[BootCore] # "init"
  BY DEF AtTheFirstPage
<1>2. ~loaded /\ done = 0
  BY <1>1 DEF Resting
<1>3. ~(done > 0)
  BY ONLY <1>2
<1>4. ~Booted
  BY <1>1, <1>2, <1>3, Zenon DEF Booted
<1>5. \A va : Walk(va) = None
  BY <1>2 DEF Walk
<1>. QED  BY <1>1, <1>2, <1>4, <1>5 DEF Resting

\* Every variable has its type, whatever the offset.
THEOREM TypeCorrectness == ASSUME Mappable PROVE Spec => []TypeOK
<1>1. WorkingMachine /\ TInv => TypeOK
  <2>. SUFFICES ASSUME WorkingMachine, TInv
                 PROVE  TypeOK
    OBVIOUS
  <2>2. LInv /\ TTypes /\ LocalsAreFunctions
    BY TInvParts
  <2>3. ASSUME NEW c \in Cores
        PROVE  /\ pc[c] \in {"start", "clear pml4", "init", "idle", "lock", "walk", "allocate",
                             "zero", "link", "erase", "flush", "unlock", "panic"}
               /\ req[c] \in Requests \cup ToSet(InitCalls) \cup {None}
               /\ ptr[c] \in Pages /\ lvl[c] \in Levels /\ below[c] \in Pages
               /\ result[c] \in {None, "true", "false"}
               /\ tlb[c] \in [CallerPages -> Entries \cup {None}]
               /\ changed[c] \subseteq CallerPages
    BY <2>2 DEF TTypes, LocalsAreFunctions, States, InsideStates, BootStates, Calls, Remembered
  <2>4. free \subseteq Pages
    BY <2>2, RamPages DEF TTypes
  <2>5. loaded \in BOOLEAN /\ mmu_lock \in BOOLEAN
    BY <2>2 DEF LInv
  <2>. QED  BY <2>2, <2>3, <2>4, <2>5 DEF TypeOK, TTypes, Pages, Entries
<1>2. HHDM # 0 /\ AtTheFirstPage => TypeOK
  <2>. SUFFICES ASSUME AtTheFirstPage
                PROVE  TypeOK
    OBVIOUS
  <2>1. Resting /\ pc \in [Cores -> States]
    BY DEF AtTheFirstPage
  <2>2. 0 \in Pages /\ 0 \in Levels /\ Len(InitCalls) \in Nat
    BY RamPages, LevelNumbers, InitMaps DEF Pages
  <2>3. ASSUME NEW c \in Cores
        PROVE  /\ pc[c] \in {"start", "clear pml4", "init", "idle", "lock", "walk", "allocate",
                             "zero", "link", "erase", "flush", "unlock", "panic"}
               /\ req[c] = None /\ ptr[c] = 0 /\ lvl[c] = 0 /\ below[c] = 0 /\ result[c] = None
               /\ tlb[c] = [va \in CallerPages |-> None] /\ changed[c] = {}
    BY <2>1, NothingThere DEF States, InsideStates, BootStates
  <2>4. [va \in CallerPages |-> None] \in [CallerPages -> Entries \cup {None}]
    OBVIOUS
  <2>5. done = 0 /\ loaded = FALSE /\ mmu_lock = FALSE /\ held = {} /\ replaced = {}
    BY <2>1 DEF Resting
  <2>7. done \in 0 .. Len(InitCalls) /\ held \subseteq Ram /\ replaced \subseteq Ram
    BY ONLY <2>2, <2>5
  <2>8. loaded \in BOOLEAN /\ mmu_lock \in BOOLEAN
    BY ONLY <2>5
  <2>6. /\ mem \in [Ram -> [Slots -> Entries]] /\ free \subseteq Pages
        /\ page_map \in [pml4_address : Pages, cr3_paddr : Pages]
    BY DEF AtTheFirstPage
  <2>. QED  BY <2>2, <2>3, <2>4, <2>5, <2>6, <2>7, <2>8 DEF TypeOK, Pages, Entries
<1>3. Reachable => TypeOK
  BY <1>1, <1>2 DEF Reachable, WorkingMachine
<1>. QED  BY <1>3, TreeInvariance, PTL

-----------------------------------------------------------------------------
(* The tables and the uses of pages *)

\* The tables, level by level, as Tables computes them.
Grow(m, root, t) ==
  t = [l \in Levels |->
         IF l = Depth - 1 THEN {root % MASK}
         ELSE UNION {BelowIn(m, p[1], p[2]) : p \in t[l + 1] \X Slots}]

\* Tables is what grows from the root.
LEMMA TablesNow == Tables = CHOOSE t : Grow(mem, page_map.cr3_paddr, t)
BY DEF Tables, Grow, Below, BelowIn

\* The tables of level l.
LevelOf(lv, l) == {f \in Ram : lv[f] = l}

\* In a tree they have the levels of the witness.
LEMMA LevelsGrow ==
  ASSUME NEW m, NEW root, NEW lv, NEW via, Tree(m, root, lv, via)
  PROVE  Grow(m, root, [l \in Levels |-> LevelOf(lv, l)])
<1>1. PICK t : t = [l \in Levels |-> LevelOf(lv, l)]
  OBVIOUS
<1>2. LevelOf(lv, Depth - 1) = {root % MASK}
  <2>1. root \in Ram /\ root % MASK = root /\ lv[root] = Depth - 1 /\ Depth - 1 >= 0
    BY RamPages, LevelNumbers DEF Tree
  <2>2. ASSUME NEW f \in Ram, lv[f] = Depth - 1
        PROVE  f = root
    <3>1. On(lv, via, root, lv[root], via[f])
      BY <2>1, AtRoot
    <3>. QED  BY <2>1, <2>2, <3>1 DEF Tree
  <2>. QED  BY <2>1, <2>2 DEF LevelOf
<1>3. ASSUME NEW l \in Levels, l # Depth - 1
      PROVE  LevelOf(lv, l) = UNION {BelowIn(m, p[1], p[2]) : p \in t[l + 1] \X Slots}
  <2>1. l + 1 \in Levels /\ l + 1 > 0 /\ (l + 1) - 1 = l /\ l \in 0 .. Depth - 2
    BY <1>3, LevelNumbers
  <2>2. t[l + 1] = LevelOf(lv, l + 1)
    BY <1>1, <2>1
  <2>3. \A f, s, g : g \in BelowIn(m, f, s) <=> f \in Ram /\ Leads(m, f, s, g)
    BY DEF BelowIn, Leads
  <2>4. ASSUME NEW g \in LevelOf(lv, l)
        PROVE  \E p \in t[l + 1] \X Slots : g \in BelowIn(m, p[1], p[2])
    <3>1. g \in Ram /\ lv[g] = l
      BY <2>4 DEF LevelOf
    <3>2. PICK f \in Ram, s \in Slots : Child(lv, via, f, s, g) /\ Leads(m, f, s, g)
      BY <2>1, <3>1 DEF Tree
    <3>3. lv[f] = l + 1
      <4>1. lv[f] \in Tops /\ lv[g] = lv[f] - 1
        BY <3>2 DEF Tree, Child
      <4>. QED  BY <2>1, <3>1, <4>1, LevelNumbers DEF Tops
    <3>4. f \in t[l + 1] /\ g \in BelowIn(m, f, s)
      BY <2>2, <2>3, <3>2, <3>3 DEF LevelOf
    <3>5. <<f, s>> \in t[l + 1] \X Slots /\ <<f, s>>[1] = f /\ <<f, s>>[2] = s
      BY <3>4
    <3>. QED  BY <3>4, <3>5
  <2>5. ASSUME NEW p \in t[l + 1] \X Slots, NEW g \in BelowIn(m, p[1], p[2])
        PROVE  g \in LevelOf(lv, l)
    <3>1. p[1] \in Ram /\ lv[p[1]] = l + 1 /\ p[2] \in Slots
      BY <2>2 DEF LevelOf
    <3>2. Leads(m, p[1], p[2], g)
      BY <2>3
    <3>3. Child(lv, via, p[1], p[2], g)
      BY <2>1, <3>1, <3>2 DEF Tree, Leads
    <3>. QED  BY <2>1, <3>1, <3>3 DEF Child, LevelOf
  <2>. QED  BY <2>4, <2>5
<1>4. t = [l \in Levels |->
             IF l = Depth - 1 THEN {root % MASK}
             ELSE UNION {BelowIn(m, p[1], p[2]) : p \in t[l + 1] \X Slots}]
  BY <1>1, <1>2, <1>3
<1>. QED  BY <1>1, <1>4 DEF Grow

\* There is one way to grow.
LEMMA OneGrowth ==
  ASSUME NEW m, NEW root, NEW t, NEW u, Grow(m, root, t), Grow(m, root, u)
  PROVE  t = u
<1>1. PICK S : S = {l \in Levels : t[l] = u[l]}
  OBVIOUS
<1>2. Depth - 1 \in S
  BY <1>1, LevelNumbers DEF Grow
<1>3. ASSUME NEW l \in Levels, l + 1 \in S
      PROVE  l \in S
  <2>1. l # Depth - 1 /\ t[l + 1] = u[l + 1]
    BY <1>1, <1>3, LevelNumbers
  <2>2. /\ t[l] = UNION {BelowIn(m, p[1], p[2]) : p \in t[l + 1] \X Slots}
        /\ u[l] = UNION {BelowIn(m, p[1], p[2]) : p \in u[l + 1] \X Slots}
    BY <2>1 DEF Grow
  <2>3. t[l] = u[l]
    BY <2>1, <2>2, Zenon
  <2>. QED  BY <1>1, <2>3
<1>4. S = Levels
  BY <1>1, <1>2, <1>3, LevelInduction
<1>5. \A l \in Levels : t[l] = u[l]
  BY <1>1, <1>4
<1>. QED  BY <1>5 DEF Grow

\* So the tables of each level are those of the witness.
LEMMA TablesAreLevels ==
  ASSUME NEW lv, NEW via, Tree(mem, page_map.cr3_paddr, lv, via)
  PROVE  Tables = [l \in Levels |-> LevelOf(lv, l)]
<1>1. PICK t : t = [l \in Levels |-> LevelOf(lv, l)]
  OBVIOUS
<1>2. Grow(mem, page_map.cr3_paddr, t)
  BY <1>1, LevelsGrow
<1>3. Grow(mem, page_map.cr3_paddr, Tables)
  BY <1>2, TablesNow
<1>. QED  BY <1>1, <1>2, <1>3, OneGrowth

\* What the calls and mappings of callers own.
LEMMA OwnedPages ==
  ASSUME NEW lv, NEW kind, NEW who, Used(lv, kind, who), NEW f
  PROVE  /\ f \in {below[c] : c \in Holders} <=> f \in Ram /\ kind[f] = "below"
         /\ f \in {req[c].pa : c \in Askers} <=> f \in Ram /\ kind[f] = "asked"
         /\ f \in {Stored(va).pa : va \in MappedPages} <=> f \in Ram /\ kind[f] = "mapped"
<1>1. /\ Match(Holders, below, "below", kind, who)
      /\ Match(Askers, AskedOf, "asked", kind, who)
      /\ Match(MappedPages, MappedTo, "mapped", kind, who)
  BY DEF Used
<1>2. \A c \in Askers : AskedOf[c] = req[c].pa
  BY DEF Askers, AskedOf
<1>3. \A va \in MappedPages : MappedTo[va] = Stored(va).pa
  BY DEF MappedPages, MappedTo
<1>4. f \in {below[c] : c \in Holders} <=> f \in Ram /\ kind[f] = "below"
  BY <1>1 DEF Match
<1>5. f \in {req[c].pa : c \in Askers} <=> f \in Ram /\ kind[f] = "asked"
  BY <1>1, <1>2 DEF Match
<1>6. f \in {Stored(va).pa : va \in MappedPages} <=> f \in Ram /\ kind[f] = "mapped"
  BY <1>1, <1>3 DEF Match
<1>. QED  BY <1>4, <1>5, <1>6

\* The pages of memory are finitely many.
LEMMA FiniteTables ==
  ASSUME NEW S \in SUBSET Ram
  PROVE  IsFiniteSet(S) /\ IsFiniteSet(S \X Slots)
<1>1. IsFiniteSet(1 .. MASK - 1) /\ IsFiniteSet(0 .. Fanout - 1)
  <2>1. 0 \in Int /\ 1 \in Int /\ MASK - 1 \in Int /\ Fanout - 1 \in Int
    BY MmuAssumption
  <2>. QED  BY <2>1, FS_Interval
<1>2. IsFiniteSet(Slots)
  BY <1>1 DEF Slots
<1>3. S \in SUBSET (1 .. MASK - 1)
  BY RamPages
<1>4. IsFiniteSet(S)
  BY <1>1, <1>3, FS_Subset
<1>. QED  BY <1>2, <1>4, FS_Product

\* As many tables are on a level as slots of the level above lead somewhere.
LEMMA OneParentEach ==
  ASSUME NEW lv, NEW via, Tree(mem, page_map.cr3_paddr, lv, via), NEW l \in Levels, l > 0
  PROVE  Cardinality(LevelOf(lv, l - 1)) =
           Cardinality({p \in LevelOf(lv, l) \X Slots : Below(p[1], p[2]) # {}})
<1>1. PICK E : E = {p \in LevelOf(lv, l) \X Slots : Below(p[1], p[2]) # {}}
  OBVIOUS
<1>2. PICK T : T = LevelOf(lv, l - 1)
  OBVIOUS
<1>3. IsFiniteSet(E)
  <2>1. LevelOf(lv, l) \in SUBSET Ram
    BY DEF LevelOf
  <2>2. E \in SUBSET (LevelOf(lv, l) \X Slots)
    BY <1>1
  <2>. QED  BY <2>1, <2>2, FiniteTables, FS_Subset
<1>4. PICK h : h = [p \in E |-> mem[p[1]][p[2]].pa % MASK]
  OBVIOUS
<1>5. ASSUME NEW f, NEW s
      PROVE  Below(f, s) # {} <=> f \in Ram /\ Present(mem[f][s])
  BY DEF Below
<1>6. ASSUME NEW p \in E
      PROVE  /\ p[1] \in Ram /\ lv[p[1]] = l /\ p[2] \in Slots /\ p = <<p[1], p[2]>>
             /\ Child(lv, via, p[1], p[2], h[p]) /\ h[p] \in T
  <2>1. p[1] \in Ram /\ lv[p[1]] = l /\ p[2] \in Slots /\ p = <<p[1], p[2]>>
    BY <1>1 DEF LevelOf
  <2>2. Present(mem[p[1]][p[2]])
    BY <1>1, <1>5
  <2>3. Child(lv, via, p[1], p[2], h[p])
    BY <1>4, <2>1, <2>2 DEF Tree
  <2>. QED  BY <1>2, <2>1, <2>3 DEF Child, LevelOf
<1>7. h \in [E -> T]
  BY <1>4, <1>6
<1>8. ASSUME NEW p \in E, NEW q \in E, h[p] = h[q]
      PROVE  p = q
  <2>1. PICK g : g = h[p] /\ Child(lv, via, p[1], p[2], g) /\ Child(lv, via, q[1], q[2], g)
    BY <1>6, <1>8
  <2>2. /\ p[1] \in Ram /\ lv[p[1]] = l /\ p = <<p[1], p[2]>>
        /\ q[1] \in Ram /\ lv[q[1]] = l /\ q = <<q[1], q[2]>>
    BY <1>6
  <2>3. Agree(via[g], via[p[1]], l + 1) /\ Agree(via[g], via[q[1]], l + 1)
    BY <2>1, <2>2 DEF Child
  <2>4. Agree(via[q[1]], via[p[1]], l + 1)
    BY <2>3, Agreement, LevelNumbers
  <2>5. On(lv, via, p[1], lv[p[1]], via[q[1]]) /\ lv[p[1]] >= 0
    BY <2>2, <2>4, LevelNumbers DEF On
  <2>6. p[1] = q[1]
    BY <2>2, <2>5 DEF Tree
  <2>7. p[2] = q[2]
    BY <2>1, <2>2 DEF Child
  <2>. QED  BY <2>2, <2>6, <2>7
<1>9. ASSUME NEW g \in T
      PROVE  \E p \in E : h[p] = g
  <2>1. g \in Ram /\ lv[g] = l - 1 /\ l - 1 \in 0 .. Depth - 2
    BY <1>2, LevelNumbers DEF LevelOf
  <2>2. PICK f \in Ram, s \in Slots : Child(lv, via, f, s, g) /\ Leads(mem, f, s, g)
    BY <2>1 DEF Tree
  <2>3. lv[f] = l
    <3>1. lv[f] \in Tops /\ lv[g] = lv[f] - 1
      BY <2>2 DEF Tree, Child
    <3>. QED  BY <2>1, <3>1, LevelNumbers DEF Tops
  <2>4. Below(f, s) # {}
    BY <1>5, <2>2 DEF Leads
  <2>5. PICK p : p = <<f, s>>
    OBVIOUS
  <2>6. p \in E
    BY <1>1, <2>3, <2>4, <2>5 DEF LevelOf
  <2>7. h[p] = g
    BY <1>4, <2>2, <2>5, <2>6 DEF Leads
  <2>. QED  BY <2>6, <2>7
<1>10. h \in Bijection(E, T)
  BY <1>7, <1>8, <1>9 DEF Bijection, Injection, Surjection, IsInjective
<1>11. ExistsBijection(E, T)
  BY <1>10 DEF ExistsBijection
<1>. QED  BY <1>1, <1>2, <1>3, <1>11, FS_Bijection

\* The tables form a tree: no table has two parents, or two levels, or is its
\* own ancestor, whatever the pages held when the allocator gave them out.  This
\* is about the offset 0: with any other there is no table (OffsetStopsBoot).
THEOREM TableTree == ASSUME Mappable PROVE Spec => []TablesFormATree
<1>1. WorkingMachine /\ TInv => TablesFormATree
  <2>. SUFFICES ASSUME WorkingMachine, TInv, Booted
                PROVE  LET table == Tables
                       IN /\ \A k, l \in Levels : k # l => table[k] \cap table[l] = {}
                          /\ \A l \in 1 .. Depth - 1 :
                               Cardinality(table[l - 1]) =
                                 Cardinality({p \in table[l] \X Slots : Below(p[1], p[2]) # {}})
    BY DEF TablesFormATree
  <2>1. PICK lv, via : Tree(mem, page_map.cr3_paddr, lv, via)
    BY TInvParts DEF After
  <2>2. Tables = [l \in Levels |-> LevelOf(lv, l)]
    BY <2>1, TablesAreLevels
  <2>3. \A k, l \in Levels : k # l => Tables[k] \cap Tables[l] = {}
    BY <2>2 DEF LevelOf
  <2>4. ASSUME NEW l \in 1 .. Depth - 1
        PROVE  Cardinality(Tables[l - 1]) =
                 Cardinality({p \in Tables[l] \X Slots : Below(p[1], p[2]) # {}})
    <3>1. l \in Levels /\ l - 1 \in Levels /\ l > 0
      BY LevelNumbers
    <3>2. Tables[l] = LevelOf(lv, l) /\ Tables[l - 1] = LevelOf(lv, l - 1)
      BY <2>2, <3>1
    <3>3. Cardinality(LevelOf(lv, l - 1)) =
            Cardinality({p \in LevelOf(lv, l) \X Slots : Below(p[1], p[2]) # {}})
      BY <2>1, <3>1, OneParentEach
    <3>. QED  BY <3>2, <3>3, Zenon
  <2>. QED  BY <2>3, <2>4
<1>2. HHDM # 0 /\ AtTheFirstPage => TablesFormATree
  BY NothingThere DEF TablesFormATree
<1>3. Reachable => TablesFormATree
  BY <1>1, <1>2 DEF Reachable, WorkingMachine
<1>. QED  BY <1>3, TreeInvariance, PTL

\* Each page of memory has one use: it is free, a caller's, a table, about to
\* be one, about to be mapped, or mapped, and no table or page gets lost but
\* those that a caller maps another page over.  This is about the offset 0: with
\* any other nobody comes to use a page (OffsetStopsBoot).
THEOREM OneUseEach == ASSUME Mappable PROVE Spec => []PagesHaveOneUse
<1>1. WorkingMachine /\ TInv => PagesHaveOneUse
  <2>. SUFFICES ASSUME WorkingMachine, TInv
                PROVE  PagesHaveOneUse
    OBVIOUS
  <2>. SUFFICES ASSUME Booted
                PROVE  PagesHaveOneUse
    BY DEF PagesHaveOneUse
  <2>1. PICK lv, via, kind, who : After(lv, via, kind, who)
    BY TInvParts
  <2>2. TTypes /\ Used(lv, kind, who) /\ Tree(mem, page_map.cr3_paddr, lv, via)
    BY <2>1, TInvParts DEF After
  <2>3. kind \in [Ram -> Uses] /\ \A f \in Ram : Placed(lv, kind, f)
    BY <2>2 DEF Used
  <2>4. PICK S1 : S1 = {a - HHDM : a \in free}
    OBVIOUS
  <2>5. PICK S3 : S3 = UNION {Tables[l] : l \in Levels}
    OBVIOUS
  <2>6. PICK S4 : S4 = {below[c] - HHDM : c \in {d \in Cores : pc[d] \in {"zero", "link"}}}
    OBVIOUS
  <2>7. PICK S5 : S5 = {req[c].pa : c \in Askers}
    OBVIOUS
  <2>8. PICK S6 : S6 = {Stored(va).pa : va \in MappedPages}
    OBVIOUS
  <2>9. \A f : f \in S1 <=> f \in Ram /\ kind[f] = "free"
    <3>1. \A a \in free : a \in Ram /\ a - HHDM = a
      BY <2>2, Identity, RamPages DEF TTypes
    <3>2. \A f : f \in S1 <=> f \in free
      BY <2>4, <3>1
    <3>. QED  BY <2>3, <3>1, <3>2 DEF Placed
  <2>10. \A f : f \in held <=> f \in Ram /\ kind[f] = "held"
    BY <2>2, <2>3 DEF TTypes, Placed
  <2>11. \A f : f \in S3 <=> f \in Ram /\ kind[f] = "table"
    <3>1. Tables = [l \in Levels |-> LevelOf(lv, l)]
      BY <2>2, TablesAreLevels
    <3>2. \A f : f \in S3 <=> \E l \in Levels : f \in LevelOf(lv, l)
      BY <2>5, <3>1
    <3>3. \A f \in Ram : lv[f] \in Tops
      BY <2>2 DEF Tree
    <3>4. \A f : f \in S3 <=> f \in Ram /\ lv[f] >= 0
      BY <3>2, <3>3, LevelNumbers DEF LevelOf, Tops
    <3>. QED  BY <2>3, <3>4 DEF Placed
  <2>12. \A f : f \in S4 <=> f \in Ram /\ kind[f] = "below"
    <3>1. {d \in Cores : pc[d] \in {"zero", "link"}} = Holders
      BY DEF Holders, Holding
    <3>2. \A c \in Cores : below[c] - HHDM = below[c]
      <4>1. \A c \in Cores : below[c] \in Int
        BY <2>2 DEF TTypes, Pages
      <4>. QED  BY <4>1, Identity
    <3>3. S4 = {below[c] : c \in Holders}
      BY <2>6, <3>1, <3>2 DEF Holders
    <3>. QED  BY <2>2, <3>3, OwnedPages
  <2>13. \A f : f \in S5 <=> f \in Ram /\ kind[f] = "asked"
    BY <2>2, <2>7, OwnedPages
  <2>14. \A f : f \in S6 <=> f \in Ram /\ kind[f] = "mapped"
    BY <2>2, <2>8, OwnedPages
  <2>15. \A f : f \in replaced <=> f \in Ram /\ kind[f] = "replaced"
    BY <2>2, <2>3 DEF TTypes, Placed
  <2>16. PICK uses : uses = <<S1, held, S3, S4, S5, S6, replaced>>
    OBVIOUS
  <2>17. PICK name : name = <<"free", "held", "table", "below", "asked", "mapped", "replaced">>
    OBVIOUS
  <2>18. \A i \in 1 .. 7 : \A f : f \in uses[i] <=> f \in Ram /\ kind[f] = name[i]
    BY <2>9, <2>10, <2>11, <2>12, <2>13, <2>14, <2>15, <2>16, <2>17
  <2>19. DOMAIN uses = 1 .. 7
    BY <2>16
  <2>20. \A i, j \in 1 .. 7 : i # j => name[i] # name[j]
    BY <2>17
  <2>21. \A u \in Uses : \E i \in 1 .. 7 : name[i] = u
    BY <2>17 DEF Uses
  <2>22. \A i, j \in DOMAIN uses : i # j => uses[i] \cap uses[j] = {}
    BY <2>18, <2>19, <2>20
  <2>23. UNION Range(uses) = Ram
    <3>1. \A f \in Ram : \E i \in 1 .. 7 : f \in uses[i]
      BY <2>3, <2>18, <2>21
    <3>2. Range(uses) = {uses[i] : i \in 1 .. 7}
      BY <2>19 DEF Range
    <3>. QED  BY <2>18, <3>1, <3>2
  <2>24. uses = <<{a - HHDM : a \in free}, held, UNION {Tables[l] : l \in Levels},
                 {below[c] - HHDM : c \in {d \in Cores : pc[d] \in {"zero", "link"}}},
                 {req[c].pa : c \in {c \in Cores :
                               /\ pc[c] \notin {"idle", "flush", "unlock"} /\ req[c] # None
                               /\ req[c].op = "map" /\ req[c].va \in OwnPages}},
                 {Stored(va).pa : va \in {va \in OwnPages : /\ Stored(va) # Zero
                                   /\ ~\E c \in Cores : Freeing(c) /\ req[c].va = va}}, replaced>>
    BY <2>4, <2>5, <2>6, <2>7, <2>8, <2>16, Zenon DEF Askers, Asking, MappedPages, Mapped
  <2>. QED  BY <2>22, <2>23, <2>24, Zenon DEF PagesHaveOneUse
<1>2. HHDM # 0 /\ AtTheFirstPage => PagesHaveOneUse
  BY NothingThere DEF PagesHaveOneUse
<1>3. Reachable => PagesHaveOneUse
  BY <1>1, <1>2 DEF Reachable, WorkingMachine
<1>. QED  BY <1>3, TreeInvariance, PTL

-----------------------------------------------------------------------------
(* What the processors see *)

\* Who is in init_mmu is so before load_context.
LEMMA NoBootWhenLoaded ==
  ASSUME LInv, loaded, NEW c \in Cores
  PROVE  ~StartMmu(c) /\ ~ClearPml4(c) /\ ~InitMap(c) /\ ~LoadContext(c)
<1>1. pc[c] \notin {"start", "clear pml4", "init"}
  BY DEF LInv, BootInv, BootStates
<1>. QED  BY <1>1 DEF StartMmu, ClearPml4, InitMap, LoadContext

\* Before load_context nothing is remembered and nothing is stored for callers.
LEMMA NothingSeen ==
  ASSUME TInv, ~loaded
  PROVE  \A c \in Cores : tlb[c] = [va \in CallerPages |-> None]
BY TInvParts DEF Before, After, Untouched

\* Writing one entry changes what is stored for its page.
LEMMA EntryChanges ==
  ASSUME WorkingMachine, TInv, NEW c \in Cores, NEW e,
         \/ WriteEntry(c) /\ e = Word(req[c].pa, req[c].flags)
         \/ EraseEntry(c) /\ e = Zero
  PROVE  /\ AtTable(c) /\ req' = req /\ loaded' = loaded /\ pc' = [pc EXCEPT ![c] = "flush"]
         /\ result' = [result EXCEPT ![c] = "true"] /\ tlb' = tlb /\ Changed(c)
         /\ Stored(req[c].va)' = e /\ e \in Entries
         /\ \A a \in Told : a # req[c].va => Stored(a)' = Stored(a)
<1>1. /\ AtTable(c) /\ Booted /\ Reach(ptr[c]) \in Ram /\ req[c] \in AnyCall
  <2>1. AtTable(c)
    BY DEF WriteEntry, EraseEntry, AtTable
  <2>. QED  BY <2>1, AtWork
<1>2. e \in Entries
  BY <1>1, NoneIsNothing, Words DEF AnyCall
<1>3. PICK lv, via, kind, who : After(lv, via, kind, who)
  BY <1>1, TInvParts
<1>4. lvl[c] = 0
  <2>1. CASE WriteEntry(c)
    BY <1>1, <2>1, AtWork, LevelNumbers DEF WriteEntry, Inner
  <2>2. CASE EraseEntry(c)
    BY <1>3, <2>2 DEF EraseEntry, After, Position
  <2>. QED  BY <2>1, <2>2
<1>5. /\ Store(c, e) /\ req' = req /\ loaded' = loaded /\ pc' = [pc EXCEPT ![c] = "flush"]
      /\ result' = [result EXCEPT ![c] = "true"] /\ tlb' = tlb /\ Changed(c) /\ page_map' = page_map
  <2>1. CASE WriteEntry(c) /\ e = Word(req[c].pa, req[c].flags)
    BY <1>1, <2>1 DEF WriteEntry, At, Goto, boot
  <2>2. CASE EraseEntry(c) /\ e = Zero
    BY <2>2 DEF EraseEntry, Goto, boot
  <2>. QED  BY <2>1, <2>2
<1>6. Stored(req[c].va)' = e /\ \A a \in Told : a # req[c].va => Stored(a)' = Stored(a)
  BY <1>1, <1>2, <1>3, <1>4, <1>5, Overwrites
<1>. QED  BY <1>1, <1>2, <1>5, <1>6

\* No other step of a core changes what is stored for any page.
LEMMA EntriesStay ==
  ASSUME WorkingMachine, TInv, loaded, [Next]_vars,
         ~\E c \in Cores : WriteEntry(c) \/ EraseEntry(c)
  PROVE  loaded' /\ \A a \in Pages : Stored(a)' = Stored(a)
<1>1. LInv /\ LInv' /\ LocalsAreFunctions
  BY TInvParts, NextInv
<1>2. ASSUME mem' = mem, page_map' = page_map, loaded' = loaded
      PROVE  loaded' /\ \A a \in Pages : Stored(a)' = Stored(a)
  BY <1>2, StoredSame
<1>3. ASSUME NEW c \in Cores, Step(c)
      PROVE  loaded' /\ \A a \in Pages : Stored(a)' = Stored(a)
  <2>1. Stays(c)
    BY <1>1, <1>3, OthersStay
  <2>2. CASE AllocTable(c)
    BY <1>1, <2>1, <2>2, AllocTableStep DEF AllocTable, boot
  <2>3. CASE ZeroTable(c)
    <3>1. loaded'
      BY <2>3 DEF ZeroTable, At, boot
    <3>. QED  BY <1>1, <2>1, <2>3, <3>1, ZeroTableStep
  <2>4. CASE LinkTable(c)
    BY <1>1, <2>1, <2>4, LinkTableStep DEF LinkTable, boot
  <2>5. CASE Lock(c) \/ Descend(c) \/ AllocFails(c) \/ FreePage(c) \/ tlb_flush(c) \/ Unlock(c)
    <3>1. mem' = mem /\ page_map' = page_map /\ loaded' = loaded
      BY <2>5 DEF Lock, Descend, AllocFails, FreePage, tlb_flush, Unlock, At, boot
    <3>. QED  BY <1>2, <3>1
  <2>. QED  BY <1>1, <1>3, <2>2, <2>3, <2>4, <2>5, NoBootWhenLoaded DEF Step
<1>4. ASSUME UNCHANGED vars \/ \E c \in Cores : Spin(c) \/ Halt(c)
      PROVE  loaded' /\ \A a \in Pages : Stored(a)' = Stored(a)
  BY <1>2, <1>4 DEF Spin, Halt, vars, boot
<1>5. ASSUME GetPage \/ (\E c \in Cores, r \in Requests : Call(c, r))
               \/ (\E c \in Cores, va \in CallerPages : Fill(c, va))
      PROVE  loaded' /\ \A a \in Pages : Stored(a)' = Stored(a)
  BY <1>2, <1>5 DEF GetPage, Call, Fill, boot
<1>. QED  BY <1>3, <1>4, <1>5 DEF Next

\* What a walk finds is what is stored, after a step also.
LEMMA WalkThen ==
  ASSUME NEW a, loaded, loaded', Stored(a)' = Stored(a)
  PROVE  Walk(a)' = Walk(a)
BY DEF Walk

\* The state of a core that decides what it may remember wrongly.
SameOutdated(c) ==
  /\ tlb'[c] = tlb[c] /\ changed'[c] = changed[c]
  /\ pc[c] \in {"erase", "flush"} => pc'[c] \in {"erase", "flush"} /\ req'[c] = req[c]

\* Steps that write no entry, and do not touch a TLB.
LEMMA OutdatedSame ==
  ASSUME TInv, TInv', loaded, [Next]_vars,
         ~\E c \in Cores : WriteEntry(c) \/ EraseEntry(c) \/ tlb_flush(c),
         ~\E c \in Cores, va \in CallerPages : Fill(c, va), NEW d \in Cores
  PROVE  SameOutdated(d)
<1>1. LInv /\ LocalsAreFunctions
  BY TInvParts
<1>2. ASSUME NEW c \in Cores, Step(c)
      PROVE  SameOutdated(d)
  <2>1. tlb' = tlb /\ changed' = changed /\ pc[c] \notin {"erase", "flush"}
    <3>. USE DEF seen
    <3>1. Lock(c) \/ Descend(c) \/ AllocTable(c) \/ AllocFails(c) \/ ZeroTable(c) \/ LinkTable(c)
          \/ FreePage(c) \/ Unlock(c)
      BY <1>1, <1>2, NoBootWhenLoaded DEF Step
    <3>2. CASE Lock(c) \/ AllocTable(c) \/ AllocFails(c) \/ LinkTable(c) \/ Unlock(c)
      BY <3>2 DEF Lock, AllocTable, AllocFails, LinkTable, Unlock
    <3>3. CASE Descend(c)
      BY <3>3 DEF Descend, At
    <3>4. CASE ZeroTable(c)
      BY <3>4 DEF ZeroTable, At
    <3>5. CASE FreePage(c)
      BY <3>5 DEF FreePage, At
    <3>. QED  BY <3>1, <3>2, <3>3, <3>4, <3>5
  <2>2. Stays(c)
    BY <1>1, <1>2, OthersStay
  <2>. QED  BY <2>1, <2>2 DEF SameOutdated, Stays
<1>3. ASSUME UNCHANGED vars \/ \E c \in Cores : Spin(c) \/ Halt(c)
      PROVE  SameOutdated(d)
  BY <1>3 DEF Spin, Halt, vars, seen, locals, SameOutdated
<1>4. ASSUME NEW c \in Cores, NEW r \in Requests, Call(c, r)
      PROVE  SameOutdated(d)
  BY <1>1, <1>4 DEF Call, Goto, seen, SameOutdated, LocalsAreFunctions
<1>5. ASSUME GetPage
      PROVE  SameOutdated(d)
  BY <1>5 DEF GetPage, seen, locals, SameOutdated
<1>. QED  BY <1>2, <1>3, <1>4, <1>5 DEF Next

\* What a core remembers of a page, after a step, and why it may be wrong.
Excused(c, va) == tlb[c][va] \notin {None, Walk(va)} => Outdated(c, va)

\* Writing an entry marks the cores that remember it, and its core flushes next.
LEMMA WriteExcused ==
  ASSUME WorkingMachine, TInv, TInv', loaded, OwnTlbFresh, NEW c \in Cores,
         WriteEntry(c) \/ EraseEntry(c), NEW d \in Cores, NEW va \in CallerPages
  PROVE  Excused(d, va)'
<1>2. /\ req' = req /\ loaded' = loaded /\ pc' = [pc EXCEPT ![c] = "flush"] /\ tlb' = tlb
      /\ Changed(c) /\ \A a \in Told : a # req[c].va => Stored(a)' = Stored(a)
  <2>1. CASE WriteEntry(c)
    <3>. DEFINE e == Word(req[c].pa, req[c].flags)
    <3>1. WriteEntry(c) /\ e = Word(req[c].pa, req[c].flags)
      BY <2>1
    <3>. HIDE DEF e
    <3>. QED  BY <3>1, EntryChanges
  <2>2. CASE EraseEntry(c)
    BY <2>2, EntryChanges
  <2>. QED  BY <2>1, <2>2
<1>3. TTypes /\ LocalsAreFunctions
  BY TInvParts
<1>4. changed'[d] = IF req[c].va \in CallerPages /\ d # c /\ tlb[d][req[c].va] # None
                    THEN changed[d] \cup {req[c].va} ELSE changed[d]
  BY <1>2 DEF Changed
<1>5. pc'[c] = "flush" /\ \A x \in Cores : x # c => pc'[x] = pc[x]
  BY <1>2, <1>3 DEF LocalsAreFunctions
<1>6. CASE va = req[c].va
  <2>1. CASE d = c
    BY <1>2, <1>5, <1>6, <2>1 DEF Excused, Outdated
  <2>2. CASE d # c
    <3>1. tlb'[d][va] # None => va \in changed'[d]
      BY <1>2, <1>4, <1>6, <2>2
    <3>. QED  BY <3>1 DEF Excused, Outdated
  <2>. QED  BY <2>1, <2>2
<1>7. CASE va # req[c].va
  <2>1. Walk(va)' = Walk(va)
    BY <1>2, <1>7, WalkThen DEF Told
  <2>2. tlb[d][va] \notin {None, Walk(va)} => Outdated(d, va)
    BY DEF OwnTlbFresh
  <2>3. Outdated(d, va) => Outdated(d, va)'
    BY <1>2, <1>4, <1>5, <1>7 DEF Outdated
  <2>. QED  BY <1>2, <2>1, <2>2, <2>3 DEF Excused
<1>. QED  BY <1>6, <1>7

\* Every step keeps it.
LEMMA NextFresh ==
  ASSUME WorkingMachine, TInv, TInv', OwnTlbFresh, [Next]_vars
  PROVE  OwnTlbFresh'
<1>. SUFFICES ASSUME NEW c \in Cores, NEW va \in CallerPages
              PROVE  Excused(c, va)'
  BY DEF OwnTlbFresh, Excused
<1>1. TTypes /\ LInv /\ LocalsAreFunctions
  BY TInvParts
<1>2. CASE ~loaded'
  <2>1. \A d \in Cores : tlb'[d] = [x \in CallerPages |-> None]
    BY <1>2 DEF TInv, Before, After, Untouched
  <2>. QED  BY <2>1 DEF Excused
<1>3. CASE loaded' /\ ~loaded
  <2>1. PICK d \in Cores : LoadContext(d)
    <3>1. ASSUME NEW d \in Cores, Step(d), ~LoadContext(d)
          PROVE  loaded' = loaded
      BY <3>1 DEF Step, StartMmu, ClearPml4, InitMap, Lock, Descend, AllocTable, AllocFails,
                  ZeroTable, LinkTable, WriteEntry, FreePage, EraseEntry, tlb_flush, Unlock, At,
                    boot
    <3>2. ~\E d \in Cores : Spin(d) \/ Halt(d)
      BY <1>3 DEF Spin, Halt, vars, boot
    <3>3. ~\E d \in Cores, r \in Requests : Call(d, r)
      BY <1>3 DEF Call
    <3>4. ~\E d \in Cores, x \in CallerPages : Fill(d, x)
      BY <1>3 DEF Fill, boot
    <3>5. ~GetPage /\ ~UNCHANGED vars
      BY <1>3 DEF GetPage, vars, boot
    <3>. QED  BY <1>3, <3>1, <3>2, <3>3, <3>4, <3>5 DEF Next
  <2>2. tlb' = tlb
    BY <2>1 DEF LoadContext, seen
  <2>3. tlb[c] = [x \in CallerPages |-> None]
    BY <1>3, NothingSeen
  <2>. QED  BY <2>2, <2>3 DEF Excused
<1>4. CASE loaded' /\ loaded
  <2>0. tlb[c][va] \notin {None, Walk(va)} => Outdated(c, va)
    BY DEF OwnTlbFresh
  <2>1. CASE \E d \in Cores : WriteEntry(d) \/ EraseEntry(d)
    BY <1>4, <2>1, WriteExcused
  <2>2. CASE ~\E d \in Cores : WriteEntry(d) \/ EraseEntry(d)
    <3>1. Walk(va)' = Walk(va)
      BY <1>4, <2>2, EntriesStay, WalkThen, CallerPagesTypes
    <3>2. CASE \E d \in Cores : tlb_flush(d)
      <4>1. PICK d \in Cores : tlb_flush(d)
        BY <3>2
      <4>2. /\ pc[d] = "flush" /\ pc' = [pc EXCEPT ![d] = "unlock"]
            /\ tlb' = [tlb EXCEPT ![d] = [x \in CallerPages |-> None]]
            /\ changed' = [changed EXCEPT ![d] = {}] /\ req' = req
        BY <4>1 DEF tlb_flush, Goto
      <4>3. CASE c = d
        <5>1. tlb'[c] = [x \in CallerPages |-> None]
          BY <1>1, <4>2, <4>3 DEF TTypes
        <5>. QED  BY <5>1 DEF Excused
      <4>4. CASE c # d
        <5>1. tlb'[c] = tlb[c] /\ changed'[c] = changed[c] /\ pc'[c] = pc[c] /\ req'[c] = req[c]
          BY <1>1, <4>2, <4>4 DEF TTypes, LocalsAreFunctions
        <5>. QED  BY <2>0, <3>1, <5>1 DEF Excused, Outdated
      <4>. QED  BY <4>3, <4>4
    <3>3. CASE \E d \in Cores, x \in CallerPages : Fill(d, x)
      <4>1. PICK d \in Cores, x \in CallerPages : Fill(d, x)
        BY <3>3
      <4>2. /\ tlb' = [tlb EXCEPT ![d][x] = Walk(x)] /\ pc' = pc /\ req' = req
            /\ changed' = [changed EXCEPT ![d] = @ \ {x}]
        BY <4>1 DEF Fill, locals
      <4>3. CASE c = d /\ va = x
        <5>1. tlb'[c][va] = Walk(va)
          BY <1>1, <4>2, <4>3 DEF TTypes, Remembered
        <5>. QED  BY <3>1, <5>1 DEF Excused
      <4>4. CASE ~(c = d /\ va = x)
        <5>1. tlb'[c][va] = tlb[c][va] /\ (va \in changed[c] => va \in changed'[c])
          BY <1>1, <4>2, <4>4 DEF TTypes, Remembered
        <5>. QED  BY <2>0, <3>1, <4>2, <5>1 DEF Excused, Outdated
      <4>. QED  BY <4>3, <4>4
    <3>4. CASE /\ ~\E d \in Cores : tlb_flush(d)
               /\ ~\E d \in Cores, x \in CallerPages : Fill(d, x)
      <4>1. SameOutdated(c)
        BY <1>4, <2>2, <3>4, OutdatedSame
      <4>. QED  BY <2>0, <3>1, <4>1 DEF SameOutdated, Excused, Outdated
    <3>. QED  BY <3>2, <3>3, <3>4
  <2>. QED  BY <2>1, <2>2
<1>. QED  BY <1>2, <1>3, <1>4

\* When map or unmap has returned, its core does not remember what it replaced;
\* what it remembers wrongly, other cores have changed.  This is about the offset
\* 0: with any other map and unmap are never called (OffsetStopsBoot).
THEOREM TlbFreshness == ASSUME Mappable PROVE Spec => []OwnTlbFresh
<1>1. Init => OwnTlbFresh
  BY DEF Init, OwnTlbFresh
<1>2. WorkingMachine /\ TInv /\ TInv' /\ OwnTlbFresh /\ [Next]_vars => OwnTlbFresh'
  BY NextFresh
<1>3. ASSUME HHDM # 0, AtTheFirstPage, [Next]_vars
      PROVE  OwnTlbFresh'
  <2>1. Resting'
    BY <1>3, FirstPageFaults
  <2>2. \A c \in Cores, va \in CallerPages : tlb'[c][va] = None
    BY <2>1 DEF Resting
  <2>. QED  BY <2>2 DEF OwnTlbFresh
<1>4. Reachable /\ Reachable' /\ OwnTlbFresh /\ [Next]_vars => OwnTlbFresh'
  BY <1>2, <1>3 DEF Reachable, WorkingMachine
<1>. QED  BY <1>1, <1>4, TreeInvariance, PTL DEF Spec

\* A page that the allocator has, or has given to somebody else, can be reached
\* through a page that was unmapped only by a core that has not flushed its TLB
\* since, and through the tables only inside unmap.  This is about the offset 0:
\* with any other nothing can be reached (OffsetStopsBoot).
THEOREM FreedUnreachable == ASSUME Mappable PROVE Spec => []FreedIsUnreachable
<1>1. WorkingMachine /\ TInv /\ OwnTlbFresh => FreedIsUnreachable
  <2>. SUFFICES ASSUME WorkingMachine, TInv, OwnTlbFresh
                PROVE  FreedIsUnreachable
    OBVIOUS
  <2>1. ASSUME NEW va \in OwnPages, Walk(va) # None,
               Walk(va).pa \in held \/ Walk(va).pa + HHDM \in free
        PROVE  \E c \in Cores : Freeing(c) /\ req[c].va = va
    <3>1. loaded /\ Walk(va) = Stored(va) /\ Present(Stored(va))
      BY <2>1 DEF Walk
    <3>2. PICK lv, via, kind, who : After(lv, via, kind, who)
      BY <3>1, TInvParts
    <3>3. TTypes /\ Used(lv, kind, who)
      BY <3>2, TInvParts DEF After
    <3>4. Stored(va) # Zero
      BY <3>1 DEF Present, Zero
    <3>5. SUFFICES ASSUME ~\E c \in Cores : Freeing(c) /\ req[c].va = va
                   PROVE  FALSE
      OBVIOUS
    <3>6. va \in MappedPages
      BY <3>4, <3>5 DEF MappedPages, Mapped
    <3>7. PICK p \in Ram : p = Stored(va).pa /\ kind[p] = "mapped"
      BY <3>3, <3>6, UsesDiffer
    <3>8. p \in held \/ p + HHDM \in free
      BY <2>1, <3>1, <3>7
    <3>9. p + HHDM = p
      BY Identity, RamPages
    <3>. QED  BY <3>3, <3>7, <3>8, <3>9 DEF Used, Placed
  <2>2. ASSUME NEW va \in OwnPages, NEW c \in Cores, tlb[c][va] # None,
               tlb[c][va].pa \in held \/ tlb[c][va].pa + HHDM \in free
        PROVE  Outdated(c, va) \/ \E d \in Cores : Freeing(d) /\ req[d].va = va
    <3>1. CASE tlb[c][va] = Walk(va)
      BY <2>1, <2>2, <3>1
    <3>2. CASE tlb[c][va] # Walk(va)
      BY <2>2, <3>2, CallerPagesTypes DEF OwnTlbFresh
    <3>. QED  BY <3>1, <3>2
  <2>. QED  BY <2>1, <2>2 DEF FreedIsUnreachable
<1>2. HHDM # 0 /\ AtTheFirstPage => FreedIsUnreachable
  <2>. SUFFICES ASSUME AtTheFirstPage
                PROVE  FreedIsUnreachable
    OBVIOUS
  <2>1. \A va \in OwnPages : Walk(va) = None /\ \A c \in Cores : tlb[c][va] = None
    BY NothingThere, CallerPagesTypes
  <2>. QED  BY <2>1 DEF FreedIsUnreachable
<1>3. Reachable /\ OwnTlbFresh => FreedIsUnreachable
  BY <1>1, <1>2 DEF Reachable, WorkingMachine
<1>. QED  BY <1>3, TreeInvariance, TlbFreshness, PTL

-----------------------------------------------------------------------------
(* The address space that the tables implement *)

\* Where a table of the walk has no entry for it, nothing is stored.
LEMMA EmptyWalk ==
  ASSUME NEW m, NEW root, NEW lv, NEW via, Tree(m, root, lv, via), NEW va \in Pages,
         NEW l \in Levels, l > 0, NEW f, On(lv, via, f, l, va), ~Present(m[f][Slot(va, l)])
  PROVE  StoredIn(m, root, va) = Zero
<1>. DEFINE S == {k \in Levels : k >= l \/ \A g : ~On(lv, via, g, k, va)}
<1>1. Depth - 1 \in S
  BY LevelNumbers
<1>2. ASSUME NEW k \in Levels, k + 1 \in S
      PROVE  k \in S
  <2>1. CASE k >= l
    BY <2>1
  <2>2. CASE k = l - 1
    <3>1. Agree(va, va, l)
      BY LevelNumbers, Agreement
    <3>2. \A g : ~On(lv, via, g, k, va)
      BY <2>2, <3>1, NothingBelow
    <3>. QED  BY <3>2
  <2>3. CASE k < l - 1
    <3>1. k + 1 \in Levels /\ \A g : ~On(lv, via, g, k + 1, va)
      BY <1>2, <2>3, LevelNumbers
    <3>2. ASSUME NEW g, On(lv, via, g, k, va)
          PROVE  FALSE
      BY <3>1, <3>2, Up
    <3>. QED  BY <3>2
  <2>. QED  BY <2>1, <2>2, <2>3, LevelNumbers
<1>3. S = Levels
  <2>. HIDE DEF S
  <2>1. S \in SUBSET Levels
    BY DEF S
  <2>. QED  BY <1>1, <1>2, <2>1, LevelInduction
<1>4. \A g : ~On(lv, via, g, 0, va)
  BY <1>3, LevelNumbers
<1>. QED  BY <1>4, StoredEntry

\* What AddressSpace sees of the state.
Space == [va \in CallerPages |-> Walk(va)]
CallOf == [c \in Cores |-> IF loaded THEN req[c] ELSE None]
ResultOf == [c \in Cores |-> IF loaded THEN result[c] ELSE None]

\* A step that AddressSpace does not see.
Unseen == Space' = Space /\ CallOf' = CallOf /\ ResultOf' = ResultOf

\* Only load_context changes loaded.
LEMMA LoadedBy ==
  ASSUME [Next]_vars, \A c \in Cores : ~LoadContext(c)
  PROVE  loaded' = loaded
<1>1. ASSUME NEW c \in Cores, Step(c)
      PROVE  loaded' = loaded
  BY <1>1 DEF Step, StartMmu, ClearPml4, InitMap, Lock, Descend, AllocTable, AllocFails,
              ZeroTable, LinkTable, WriteEntry, FreePage, EraseEntry, tlb_flush, Unlock, At, boot
<1>2. ASSUME UNCHANGED vars \/ \E c \in Cores : Spin(c) \/ Halt(c)
      PROVE  loaded' = loaded
  BY <1>2 DEF Spin, Halt, vars, boot
<1>3. ASSUME GetPage \/ (\E c \in Cores, r \in Requests : Call(c, r))
               \/ (\E c \in Cores, va \in CallerPages : Fill(c, va))
      PROVE  loaded' = loaded
  BY <1>3 DEF GetPage, Call, Fill, boot
<1>. QED  BY <1>1, <1>2, <1>3 DEF Next

\* Before load_context nothing is seen.
LEMMA UnseenBefore ==
  ASSUME WorkingMachine, TInv, TInv', [Next]_vars, ~loaded
  PROVE  Unseen
<1>1. CASE ~loaded'
  <2>1. \A va : Walk(va) = None /\ Walk(va)' = None
    BY <1>1 DEF Walk
  <2>. QED  BY <1>1, <2>1 DEF Unseen, Space, CallOf, ResultOf
<1>2. CASE loaded'
  <2>1. PICK c \in Cores : LoadContext(c)
    BY <1>2, LoadedBy
  <2>2. /\ pc[c] = "init" /\ mem' = mem /\ page_map' = page_map /\ req' = req /\ result' = result
        /\ c = BootCore
    BY <2>1, TInvParts DEF LoadContext, LInv, BootInv
  <2>3. Booted
    BY <2>1, <2>2, BootedWhenWorking
  <2>4. \A va \in CallerPages : Stored(va) = Zero
    BY <2>3, TInvParts DEF After, Untouched
  <2>5. \A va \in CallerPages : Walk(va) = None /\ Walk(va)' = None
    <3>1. ASSUME NEW va \in CallerPages
          PROVE  Walk(va) = None /\ Walk(va)' = None
      <4>1. Stored(va)' = Zero
        BY <2>2, <2>4, StoredSame, CallerPagesTypes
      <4>. QED  BY <4>1 DEF Walk, Present, Zero
    <3>. QED  BY <3>1
  <2>6. \A d \in Cores : pc[d] \in {"init", "idle"}
    BY <2>2, TInvParts DEF LInv, BootInv
  <2>7. \A d \in Cores : req'[d] = None /\ result'[d] = None
    BY <2>2, <2>6, TInvParts DEF Calling
  <2>. QED  BY <2>5, <2>7 DEF Unseen, Space, CallOf, ResultOf
<1>. QED  BY <1>1, <1>2

\* A step that writes an entry is AddressSpace's map or unmap.
LEMMA WriteSeen ==
  ASSUME WorkingMachine, TInv, loaded, NEW c \in Cores, WriteEntry(c) \/ EraseEntry(c)
  PROVE  AS!Map(c) \/ AS!Unmap(c)
<1>1. /\ TTypes /\ Calling(c) /\ req[c] # None /\ req[c] \in Requests
      /\ pc[c] \in {"walk", "erase"}
  <2>1. AtTable(c) /\ pc[c] \in {"walk", "erase"}
    BY DEF WriteEntry, EraseEntry, AtTable
  <2>. QED  BY <2>1, AtWork, TInvParts DEF Calling
<1>2. req[c].va \in CallerPages /\ result[c] = None
  BY <1>1, RequestTypes DEF Calling
<1>3. req[c].va \in Told /\ CallerPages \subseteq Told
  BY <1>2 DEF Told
<1>4. CallOf[c] = req[c] /\ ResultOf[c] = None
  BY <1>2 DEF CallOf, ResultOf
<1>5. ASSUME NEW e, req' = req, loaded' = loaded, result' = [result EXCEPT ![c] = "true"],
             Stored(req[c].va)' = e, \A a \in Told : a # req[c].va => Stored(a)' = Stored(a),
             NEW w, w = IF Present(e) THEN e ELSE None, WorkingMachine
      PROVE  /\ Space' = [Space EXCEPT ![req[c].va] = w]
             /\ CallOf' = CallOf /\ ResultOf' = [ResultOf EXCEPT ![c] = "true"]
  <2>1. ASSUME NEW va \in CallerPages
        PROVE  Walk(va)' = IF va = req[c].va THEN w ELSE Walk(va)
    <3>1. CASE va = req[c].va
      <4>1. Stored(va)' = e /\ Canonical(va)
        BY <1>5, <3>1 DEF WorkingMachine, Mappable
      <4>. QED  BY <1>5, <3>1, <4>1 DEF Walk
    <3>2. CASE va # req[c].va
      BY <1>3, <1>5, <3>2, WalkThen
    <3>. QED  BY <3>1, <3>2
  <2>2. Space' = [Space EXCEPT ![req[c].va] = w]
    BY <1>2, <2>1 DEF Space
  <2>3. CallOf' = CallOf /\ ResultOf' = [ResultOf EXCEPT ![c] = "true"]
    BY <1>1, <1>5 DEF CallOf, ResultOf, TTypes
  <2>. QED  BY <2>2, <2>3
<1>6. CASE WriteEntry(c)
  <2>8. req[c].op = "map" /\ req[c] \in AnyCall /\ req[c].pa < MASK
    BY <1>1, <1>6, RequestTypes DEF WriteEntry
  <2>1. PICK e : e = Word(req[c].pa, req[c].flags) /\ e = [pa |-> req[c].pa, flags |-> req[c].flags]
    <3>1. req[c].pa \in Pages /\ req[c].flags \in SUBSET Bits
      BY <2>8 DEF AnyCall
    <3>. QED  BY <2>8, <3>1, Words
  <2>2. /\ req' = req /\ loaded' = loaded /\ result' = [result EXCEPT ![c] = "true"]
        /\ Stored(req[c].va)' = e /\ \A a \in Told : a # req[c].va => Stored(a)' = Stored(a)
    BY <1>6, <2>1, EntryChanges
  <2>3. PICK w : w = IF Present(e) THEN e ELSE None
    OBVIOUS
  <2>4. /\ Space' = [Space EXCEPT ![req[c].va] = w]
        /\ CallOf' = CallOf /\ ResultOf' = [ResultOf EXCEPT ![c] = "true"]
    BY <1>5, <2>2, <2>3
  <2>5. w = AS!Shown(req[c])
    BY <2>1, <2>3 DEF Present, AS!Shown
  <2>6. req[c].op = "map"
    BY <1>6 DEF WriteEntry
  <2>7. AS!Map(c)
    BY <1>1, <1>4, <2>4, <2>5, <2>6 DEF AS!Map, AS!Pending, Space, CallOf, ResultOf
  <2>. QED  BY <2>7
<1>7. CASE EraseEntry(c)
  <2>1. /\ req' = req /\ loaded' = loaded /\ result' = [result EXCEPT ![c] = "true"]
        /\ Stored(req[c].va)' = Zero /\ \A a \in Told : a # req[c].va => Stored(a)' = Stored(a)
    BY <1>7, EntryChanges
  <2>2. None = IF Present(Zero) THEN Zero ELSE None
    BY DEF Present, Zero
  <2>3. /\ Space' = [Space EXCEPT ![req[c].va] = None]
        /\ CallOf' = CallOf /\ ResultOf' = [ResultOf EXCEPT ![c] = "true"]
    BY <1>5, <2>1, <2>2
  <2>4. req[c].op = "unmap"
    BY <1>1, <1>7 DEF EraseEntry, Calling
  <2>5. AS!Unmap(c)
    BY <1>1, <1>4, <2>3, <2>4 DEF AS!Unmap, AS!Pending, Space, CallOf, ResultOf
  <2>. QED  BY <2>5
<1>. QED  BY <1>6, <1>7

\* A step of a core that is inside map or unmap, and writes no entry: unmap
\* finds a table missing, the call ends, or nothing is seen.
LEMMA InsideSeen ==
  ASSUME WorkingMachine, TInv, loaded, loaded', NEW c \in Cores, Step(c),
         ~WriteEntry(c), ~EraseEntry(c), Space' = Space
  PROVE  AS!Absent(c) \/ AS!Return(c) \/ Unseen
<1>1. TTypes /\ Calling(c) /\ LInv
  BY TInvParts
<1>2. ASSUME req' = req, result' = result
      PROVE  Unseen
  BY <1>2 DEF Unseen, CallOf, ResultOf
<1>3. CASE Descend(c)
  <2>1. req' = req /\ pc[c] = "walk" /\ AtTable(c)
    BY <1>3 DEF Descend, At, AtTable
  <2>2. CASE result' = result
    BY <1>2, <2>1, <2>2
  <2>3. CASE result' # result
    <3>1. /\ Inner(c) /\ ~Present(Entry(c)) /\ req[c].op # "map"
          /\ result' = [result EXCEPT ![c] = "false"]
      BY <1>3, <2>3 DEF Descend, At, Enter, seen, owners
    <3>2. /\ Booted /\ lvl[c] \in Levels /\ req[c] \in AnyCall /\ req[c] # None
          /\ req[c].va \in Pages /\ Entry(c) = mem[ptr[c]][Slot(req[c].va, lvl[c])]
      BY <2>1, AtWork
    <3>3. req[c] \in Requests /\ result[c] = None /\ req[c].op = "unmap"
      BY <1>1, <2>1, <3>1, <3>2 DEF Calling, AnyCall
    <3>4. PICK lv, via, kind, who : After(lv, via, kind, who)
      BY <3>2, TInvParts
    <3>5. /\ Tree(mem, page_map.cr3_paddr, lv, via)
          /\ On(lv, via, ptr[c], lvl[c], req[c].va) /\ lvl[c] > 0
      BY <2>1, <3>1, <3>4 DEF After, Position, Inner
    <3>6. Stored(req[c].va) = Zero
      BY <3>1, <3>2, <3>5, EmptyWalk, StoredNow
    <3>7. Walk(req[c].va) = None /\ req[c].va \in CallerPages
      <4>1. ~Present(Stored(req[c].va))
        BY <3>6 DEF Present, Zero
      <4>2. req[c].va \in CallerPages
        BY <3>3, RequestTypes
      <4>. QED  BY <4>1, <4>2 DEF Walk
    <3>8. Space[req[c].va] = None /\ CallOf[c] = req[c] /\ ResultOf[c] = None
      BY <3>3, <3>7 DEF Space, CallOf, ResultOf
    <3>9. CallOf' = CallOf /\ ResultOf' = [ResultOf EXCEPT ![c] = "false"]
      BY <1>1, <2>1, <3>1 DEF CallOf, ResultOf, TTypes
    <3>. QED
      BY <3>2, <3>3, <3>8, <3>9 DEF AS!Absent, AS!Pending, Space, CallOf, ResultOf
  <2>. QED  BY <2>2, <2>3
<1>4. CASE Unlock(c)
  <2>1. /\ req' = [req EXCEPT ![c] = None] /\ result' = [result EXCEPT ![c] = None]
        /\ pc[c] = "unlock"
    BY <1>4 DEF Unlock
  <2>2. ResultOf[c] # None
    BY <1>1, <2>1 DEF Calling, ResultOf
  <2>3. CallOf' = [CallOf EXCEPT ![c] = None] /\ ResultOf' = [ResultOf EXCEPT ![c] = None]
    BY <1>1, <2>1 DEF CallOf, ResultOf, TTypes
  <2>4. AS!Return(c)
    BY <2>2, <2>3 DEF AS!Return, Space, CallOf, ResultOf
  <2>. QED  BY <2>4
<1>5. CASE \/ Lock(c) \/ AllocTable(c) \/ AllocFails(c) \/ ZeroTable(c) \/ LinkTable(c)
           \/ FreePage(c) \/ tlb_flush(c)
  <2>1. req' = req /\ result' = result
    BY <1>5 DEF Lock, AllocTable, AllocFails, ZeroTable, LinkTable, FreePage, tlb_flush, At, Enter
  <2>. QED  BY <1>2, <2>1
<1>. QED  BY <1>1, <1>3, <1>4, <1>5, NoBootWhenLoaded DEF Step

\* A caller's call is AddressSpace's.
LEMMA CallSeen ==
  ASSUME TInv, loaded, loaded', NEW c \in Cores, NEW r \in Requests, Call(c, r), Space' = Space
  PROVE  AS!Invoke(c, r)
<1>1. TTypes /\ Calling(c)
  BY TInvParts
<1>2. req' = [req EXCEPT ![c] = r] /\ result' = result /\ pc[c] = "idle"
  BY DEF Call
<1>3. CallOf[c] = None
  BY <1>1, <1>2 DEF CallOf, Calling
<1>4. CallOf' = [CallOf EXCEPT ![c] = r] /\ ResultOf' = ResultOf
  BY <1>1, <1>2 DEF CallOf, ResultOf, TTypes
<1>. QED  BY <1>3, <1>4 DEF AS!Invoke, Space, CallOf, ResultOf

\* Every step of Mmu is one of AddressSpace, or is not seen.
LEMMA StepsAreSeen ==
  ASSUME WorkingMachine, TInv, TInv', [Next]_vars
  PROVE  AS!Next \/ Unseen
<1>1. CASE ~loaded
  BY <1>1, UnseenBefore
<1>2. CASE loaded /\ \E c \in Cores : WriteEntry(c) \/ EraseEntry(c)
  BY <1>2, WriteSeen DEF AS!Next
<1>3. CASE loaded /\ ~\E c \in Cores : WriteEntry(c) \/ EraseEntry(c)
  <2>1. loaded' /\ \A a \in Pages : Stored(a)' = Stored(a)
    BY <1>3, EntriesStay
  <2>2. \A va \in CallerPages : Walk(va)' = Walk(va)
    BY <1>3, <2>1, WalkThen, CallerPagesTypes
  <2>3. Space' = Space
    BY <2>2 DEF Space
  <2>4. ASSUME NEW c \in Cores, Step(c)
        PROVE  AS!Next \/ Unseen
    BY <1>3, <2>1, <2>3, <2>4, InsideSeen DEF AS!Next
  <2>5. ASSUME NEW c \in Cores, NEW r \in Requests, Call(c, r)
        PROVE  AS!Next
    BY <1>3, <2>1, <2>3, <2>5, CallSeen DEF AS!Next
  <2>6. ASSUME \/ UNCHANGED vars \/ GetPage \/ (\E c \in Cores : Spin(c) \/ Halt(c))
               \/ (\E c \in Cores, va \in CallerPages : Fill(c, va))
        PROVE  Unseen
    <3>1. req' = req /\ result' = result
      BY <2>6 DEF vars, locals, GetPage, Spin, Halt, Fill
    <3>. QED  BY <1>3, <2>1, <2>3, <3>1 DEF Unseen, CallOf, ResultOf
  <2>. QED  BY <2>4, <2>5, <2>6 DEF Next
<1>. QED  BY <1>1, <1>2, <1>3

\* Whatever cores walk the tables, and whenever, they find what the calls of map
\* and unmap up to then say, and no table half made (mmu.c:71-183): each call
\* takes effect in the one step that writes its entry.  This is about the offset 0:
\* with any other there is no call, and nothing is found (OffsetStopsBoot).
THEOREM RefinesAddressSpace == ASSUME Mappable PROVE Spec => ImplementsAddressSpace
<1>1. Init => AS!Init
  <2>. SUFFICES ASSUME Init
                PROVE  AS!Init
    OBVIOUS
  <2>1. ~loaded
    BY DEF Init
  <2>. QED  BY <2>1 DEF AS!Init, Walk
<1>2. WorkingMachine /\ TInv /\ TInv' /\ [Next]_vars => [AS!Next]_(AS!svars)
  <2>. SUFFICES ASSUME WorkingMachine, TInv, TInv', [Next]_vars
                PROVE  [AS!Next]_(AS!svars)
    OBVIOUS
  <2>1. Unseen => UNCHANGED AS!svars
    BY DEF Unseen, Space, CallOf, ResultOf, AS!svars
  <2>. QED  BY <2>1, StepsAreSeen
<1>3. ASSUME HHDM # 0, AtTheFirstPage, [Next]_vars
      PROVE  UNCHANGED AS!svars
  <2>1. ~loaded /\ ~loaded'
    BY <1>3, FirstPageFaults DEF Resting
  <2>2. \A va : Walk(va)' = None /\ Walk(va) = None
    BY <2>1 DEF Walk
  <2>3. Space' = Space /\ CallOf' = CallOf /\ ResultOf' = ResultOf
    BY <2>1, <2>2 DEF Space, CallOf, ResultOf
  <2>. QED  BY <2>3 DEF Space, CallOf, ResultOf, AS!svars
<1>4. Reachable /\ Reachable' /\ [Next]_vars => [AS!Next]_(AS!svars)
  BY <1>2, <1>3 DEF Reachable, WorkingMachine
<1>. QED  BY <1>1, <1>4, TreeInvariance, PTL DEF Spec, ImplementsAddressSpace, AS!Spec

-----------------------------------------------------------------------------
(* What init_mmu maps *)

\* A number has one quotient.
LEMMA OneQuotient ==
  ASSUME NEW d \in Nat \ {0}, NEW q \in Int, NEW r \in 0 .. d - 1, NEW x \in Int, x = d * q + r
  PROVE  x \div d = q
<1>1. PICK u \in Int : u = x \div d
  OBVIOUS
<1>2. PICK v \in 0 .. d - 1 : x = d * u + v
  BY <1>1
<1>3. CASE u < q
  <2>1. PICK k \in Nat : q = u + 1 + k
    <3>1. q - u - 1 \in Nat /\ q = u + 1 + (q - u - 1)
      BY <1>3
    <3>. QED  BY <3>1
  <2>2. d * q = d * u + d + d * k
    BY <2>1
  <2>3. d * k >= 0 /\ d * k \in Int /\ d * u \in Int /\ d * q \in Int
    OBVIOUS
  <2>. QED  BY <1>2, <2>2, <2>3
<1>4. CASE u > q
  <2>1. PICK k \in Nat : u = q + 1 + k
    <3>1. u - q - 1 \in Nat /\ u = q + 1 + (u - q - 1)
      BY <1>4
    <3>. QED  BY <3>1
  <2>2. d * u = d * q + d + d * k
    BY <2>1
  <2>3. d * k >= 0 /\ d * k \in Int /\ d * u \in Int /\ d * q \in Int
    OBVIOUS
  <2>. QED  BY <1>2, <2>2, <2>3
<1>. QED  BY <1>1, <1>3, <1>4

\* The last page of a section is the one before the page that ALIGN_UP goes to.
LEMMA LastPage ==
  ASSUME NEW end \in Nat
  PROVE  AlignUp(end) = ((end - 1) \div PAGE_SIZE) + 1
<1>1. PICK d \in Nat \ {0} : d = PAGE_SIZE
  BY MmuAssumption
<1>2. PICK q \in Int, r \in 0 .. d - 1 : end - 1 = d * q + r /\ q = (end - 1) \div d
  <2>1. (end - 1) \div d \in Int /\ (end - 1) % d \in 0 .. d - 1
    OBVIOUS
  <2>2. end - 1 = (d * ((end - 1) \div d)) + ((end - 1) % d)
    OBVIOUS
  <2>. QED  BY <2>1, <2>2
<1>3. end + d - 1 = d * (q + 1) + r
  BY <1>2
<1>4. (end + d - 1) \div d = q + 1
  BY <1>3, OneQuotient
<1>. QED  BY <1>1, <1>2, <1>4 DEF AlignUp

\* Where a section starts and ends.
LEMMA SectionTypes ==
  \A s \in ToSet(Sections) : /\ s.start \in Nat /\ s.end \in Nat
                             /\ AlignDown(s.start) \in Nat /\ AlignUp(s.end) \in Nat
<1>. SUFFICES ASSUME NEW s \in ToSet(Sections)
              PROVE  /\ s.start \in Nat /\ s.end \in Nat
                     /\ AlignDown(s.start) \in Nat /\ AlignUp(s.end) \in Nat
  OBVIOUS
<1>1. PICK i \in DOMAIN Sections : s = Sections[i]
  BY DEF ToSet
<1>2. PICK S : S = [start : Nat, end : Nat, flags : SUBSET Bits]
  OBVIOUS
<1>3. Sections \in Seq(S)
  BY <1>2, MachineAssumption
<1>4. s \in S
  BY <1>1, <1>3
<1>5. s.start \in Nat /\ s.end \in Nat
  BY <1>2, <1>4
<1>6. PICK x \in Nat, y \in Nat, d \in Nat \ {0} : x = s.start /\ y = s.end /\ d = PAGE_SIZE
  BY <1>5, MmuAssumption
<1>7. x \div d \in Nat /\ (y + d - 1) \div d \in Nat
  OBVIOUS
<1>. QED  BY <1>5, <1>6, <1>7 DEF AlignDown, AlignUp

\* The call that maps page va to page pa.
CallFor(va, pa, flags) ==
  [op |-> "map", va |-> va, pa |-> pa, flags |-> flags, free_pa |-> FALSE]

\* An address that is one has no other.
LEMMA Reduced == \A x \in Pages : x % WORD = x /\ x \in Nat
<1>1. ASSUME NEW x \in Pages
      PROVE  x % WORD = x /\ x \in Nat
  <2>1. x \in 0 .. WORD - 1 /\ WORD \in Nat \ {0}
    BY RamPages DEF Pages
  <2>. QED  BY <2>1
<1>. QED  BY <1>1

\* The calls for a section map each of its pages, hhdm->offset above it.
LEMMA SectionPages ==
  ASSUME NEW s \in ToSet(Sections), NEW r
  PROVE  r \in Range(SectionCalls(s))
           <=> \E p \in AlignDown(s.start) .. AlignUp(s.end) - 1 :
                 r = CallFor((p + HHDM) % WORD, p, s.flags)
<1>1. s.start \in Nat /\ s.end \in Nat /\ AlignUp(s.end) <= WORD
  BY SectionTypes, MachineAssumption
<1>2. PICK lo \in Nat : lo = AlignDown(s.start)
  BY SectionTypes
<1>3. PICK hi \in Nat : hi = AlignUp(s.end) /\ hi <= WORD
  BY <1>1, SectionTypes
<1>4. SectionCalls(s) = [n \in 1 .. hi - lo |-> Mapping(lo + n - 1 + HHDM, lo + n - 1, s.flags)]
  BY <1>2, <1>3 DEF SectionCalls
<1>5. ASSUME NEW p \in lo .. hi - 1
      PROVE  Mapping(p + HHDM, p, s.flags) = CallFor((p + HHDM) % WORD, p, s.flags)
  <2>1. p \in Pages
    BY <1>3, RamPages DEF Pages
  <2>. QED  BY <2>1, Reduced DEF Mapping, CallFor
<1>6. ASSUME r \in Range(SectionCalls(s))
      PROVE  \E p \in lo .. hi - 1 : r = CallFor((p + HHDM) % WORD, p, s.flags)
  <2>1. PICK n \in 1 .. hi - lo : r = Mapping(lo + n - 1 + HHDM, lo + n - 1, s.flags)
    BY <1>4, <1>6 DEF Range
  <2>2. lo + n - 1 \in lo .. hi - 1
    OBVIOUS
  <2>. QED  BY <1>5, <2>1, <2>2
<1>7. ASSUME NEW p \in lo .. hi - 1, r = CallFor((p + HHDM) % WORD, p, s.flags)
      PROVE  r \in Range(SectionCalls(s))
  <2>1. PICK n \in 1 .. hi - lo : p = lo + n - 1
    <3>1. p - lo + 1 \in 1 .. hi - lo /\ p = lo + (p - lo + 1) - 1
      OBVIOUS
    <3>. QED  BY <3>1
  <2>2. SectionCalls(s)[n] = r /\ n \in DOMAIN SectionCalls(s)
    BY <1>4, <1>5, <1>7, <2>1
  <2>. QED  BY <2>2 DEF Range
<1>. QED  BY <1>2, <1>3, <1>6, <1>7

\* The rights that init_mmu gives the pages of an entry of the memory map.
RightsOf(e) == {"present"} \cup IF e.usable THEN {"write"} ELSE {"noexec"}

\* The calls for an entry of the memory map map each of its pages to itself.
LEMMA EntryPages ==
  ASSUME NEW e \in ToSet(MemMap), NEW r
  PROVE  /\ RightsOf(e) \in SUBSET Bits
         /\ e.base .. e.base + e.pages - 1 \subseteq Pages
         /\ r \in Range(EntryCalls(e))
              <=> \E p \in e.base .. e.base + e.pages - 1 : r = CallFor(p, p, RightsOf(e))
<1>1. e \in [base : Nat, pages : Nat, usable : BOOLEAN]
  <2>1. PICK i \in DOMAIN MemMap : e = MemMap[i]
    BY DEF ToSet
  <2>2. PICK S : S = [base : Nat, pages : Nat, usable : BOOLEAN]
    OBVIOUS
  <2>3. MemMap \in Seq(S)
    BY <2>2, MachineAssumption
  <2>4. e \in S
    BY <2>1, <2>3
  <2>. QED  BY <2>2, <2>4
<1>2. PICK lo \in Nat, k \in Nat : lo = e.base /\ k = e.pages /\ Limit(e) - e.base = k
  BY <1>1 DEF Limit
<1>3. \A p \in lo .. lo + k - 1 : p \in Pages
  <2>1. \A p \in lo .. lo + k - 1 : p \in Physical
    BY <1>2 DEF Physical
  <2>2. \A p \in 1 .. MASK - 1 : p \in Pages
    BY MmuAssumption DEF Pages
  <2>. QED  BY <2>1, <2>2, MmuAssumption
<1>4. EntryCalls(e) = [n \in 1 .. k |-> Mapping(lo + n - 1, lo + n - 1, RightsOf(e))]
  BY <1>2 DEF EntryCalls, RightsOf
<1>5. \A p \in lo .. lo + k - 1 : Mapping(p, p, RightsOf(e)) = CallFor(p, p, RightsOf(e))
  BY <1>3, Reduced DEF Mapping, CallFor
<1>6. ASSUME r \in Range(EntryCalls(e))
      PROVE  \E p \in lo .. lo + k - 1 : r = CallFor(p, p, RightsOf(e))
  <2>1. PICK n \in 1 .. k : r = Mapping(lo + n - 1, lo + n - 1, RightsOf(e))
    BY <1>4, <1>6 DEF Range
  <2>2. lo + n - 1 \in lo .. lo + k - 1
    OBVIOUS
  <2>. QED  BY <1>5, <2>1, <2>2
<1>7. ASSUME NEW p \in lo .. lo + k - 1, r = CallFor(p, p, RightsOf(e))
      PROVE  r \in Range(EntryCalls(e))
  <2>1. PICK n \in 1 .. k : p = lo + n - 1
    <3>1. p - lo + 1 \in 1 .. k /\ p = lo + (p - lo + 1) - 1
      OBVIOUS
    <3>. QED  BY <3>1
  <2>2. EntryCalls(e)[n] = r /\ n \in DOMAIN EntryCalls(e)
    BY <1>4, <1>5, <1>7, <2>1
  <2>. QED  BY <2>2 DEF Range
<1>8. RightsOf(e) \in SUBSET Bits
  BY DEF RightsOf, Bits
<1>. QED  BY <1>2, <1>3, <1>6, <1>7, <1>8

\* The members of a sequence are its elements.
LEMMA SequenceElements ==
  ASSUME NEW S, NEW s \in Seq(S)
  PROVE  /\ \A n \in 1 .. Len(s) : s[n] \in ToSet(s)
         /\ \A e \in ToSet(s) : \E n \in 1 .. Len(s) : e = s[n]
<1>1. DOMAIN s = 1 .. Len(s)
  OBVIOUS
<1>. QED  BY <1>1 DEF ToSet

\* The calls of init_mmu: first those for the memory map, then those for the sections.
LEMMA TwoParts ==
  \E a, b \in Seq(BootCall) :
    /\ InitCalls = a \o b
    /\ \A r : r \in Range(a) <=> \E e \in ToSet(MemMap) : r \in Range(EntryCalls(e))
    /\ \A r : r \in Range(b) <=> \E s \in ToSet(Sections) : r \in Range(SectionCalls(s))
<1>1. PICK p : p = [n \in 1 .. Len(MemMap) |-> EntryCalls(MemMap[n])]
  OBVIOUS
<1>2. PICK q : q = [n \in 1 .. Len(Sections) |-> SectionCalls(Sections[n])]
  OBVIOUS
<1>3. Len(MemMap) \in Nat /\ Len(Sections) \in Nat
  BY MachineAssumption
<1>4. /\ \A n \in 1 .. Len(MemMap) : MemMap[n] \in ToSet(MemMap)
      /\ \A e \in ToSet(MemMap) : \E n \in 1 .. Len(MemMap) : e = MemMap[n]
  BY SequenceElements, MachineAssumption
<1>5. /\ \A n \in 1 .. Len(Sections) : Sections[n] \in ToSet(Sections)
      /\ \A s \in ToSet(Sections) : \E n \in 1 .. Len(Sections) : s = Sections[n]
  BY SequenceElements, MachineAssumption
<1>6. p \in Seq(Seq(BootCall)) /\ Len(p) = Len(MemMap)
  <2>1. \A n \in 1 .. Len(MemMap) : p[n] \in Seq(BootCall)
    BY <1>1, <1>4, EntryCallsTypes
  <2>. QED  BY <1>1, <1>3, <2>1
<1>7. q \in Seq(Seq(BootCall)) /\ Len(q) = Len(Sections)
  <2>1. \A n \in 1 .. Len(Sections) : q[n] \in Seq(BootCall)
    BY <1>2, <1>5, SectionCallsTypes
  <2>. QED  BY <1>2, <1>3, <2>1
<1>8. PICK a : a = FlattenSeq(p)
  OBVIOUS
<1>9. PICK b : b = FlattenSeq(q)
  OBVIOUS
<1>10. /\ a \in Seq(BootCall) /\ b \in Seq(BootCall)
       /\ \A r : r \in Range(a) <=> \E i \in 1 .. Len(p) : r \in Range(p[i])
       /\ \A r : r \in Range(b) <=> \E i \in 1 .. Len(q) : r \in Range(q[i])
  BY <1>6, <1>7, <1>8, <1>9, Flattened
<1>11. InitCalls = a \o b
  BY <1>1, <1>2, <1>8, <1>9 DEF InitCalls
<1>12. \A r : r \in Range(b) <=> \E s \in ToSet(Sections) : r \in Range(SectionCalls(s))
  BY <1>2, <1>5, <1>7, <1>10
<1>13. \A r : r \in Range(a) <=> \E e \in ToSet(MemMap) : r \in Range(EntryCalls(e))
  BY <1>1, <1>4, <1>6, <1>10
<1>. QED  BY <1>10, <1>11, <1>12, <1>13

\* What is stored for a page is what one of the calls for it said, and none before
\* the last that is known of.
LEMMA StoredByCall ==
  ASSUME WorkingMachine, TInv, loaded, NEW n \in 1 .. Len(InitCalls)
  PROVE  \E m \in n .. Len(InitCalls) :
           /\ InitCalls[m].va = InitCalls[n].va
           /\ Stored(InitCalls[n].va) = Word(InitCalls[m].pa, InitCalls[m].flags)
<1>1. PICK lv, via, kind, who : After(lv, via, kind, who)
  BY TInvParts
<1>2. BootMapped /\ Written = Len(InitCalls)
  BY <1>1 DEF After, Written
<1>. QED  BY <1>2 DEF BootMapped

\* Where two sections have a page in common they are the same.
LEMMA OneSection ==
  ASSUME NEW s \in ToSet(Sections), NEW t \in ToSet(Sections),
         NEW p \in AlignDown(s.start) .. AlignUp(s.end) - 1,
         p \in AlignDown(t.start) .. AlignUp(t.end) - 1
  PROVE  t = s
<1>1. PICK lo \in Nat, hi \in Nat : lo = AlignDown(s.start) /\ hi = AlignUp(s.end)
  BY SectionTypes
<1>2. PICK lo2 \in Nat, hi2 \in Nat : lo2 = AlignDown(t.start) /\ hi2 = AlignUp(t.end)
  BY SectionTypes
<1>3. s # t => hi <= lo2 \/ hi2 <= lo
  BY <1>1, <1>2, MachineAssumption, Zenon
<1>4. p \in lo .. hi - 1 /\ p \in lo2 .. hi2 - 1
  BY <1>1, <1>2
<1>. QED  BY <1>3, <1>4

\* The pages of a section.
LEMMA PagesOfSection ==
  ASSUME NEW s \in ToSet(Sections)
  PROVE  /\ s.start \div PAGE_SIZE .. (s.end - 1) \div PAGE_SIZE
                = AlignDown(s.start) .. AlignUp(s.end) - 1
         /\ AlignDown(s.start) .. AlignUp(s.end) - 1 \subseteq Pages
<1>1. s.start \in Nat /\ s.end \in Nat /\ AlignUp(s.end) <= WORD
  BY SectionTypes, MachineAssumption
<1>2. PICK lo \in Nat, hi \in Nat : lo = AlignDown(s.start) /\ hi = AlignUp(s.end) /\ hi <= WORD
  BY <1>1, SectionTypes
<1>3. PICK d \in Nat \ {0}, y \in Nat : d = PAGE_SIZE /\ y = s.end
  BY <1>1, MmuAssumption
<1>4. PICK q \in Int : q = (y - 1) \div d
  OBVIOUS
<1>5. hi = q + 1
  BY <1>1, <1>2, <1>3, <1>4, LastPage
<1>6. (s.end - 1) \div PAGE_SIZE = hi - 1
  BY <1>3, <1>4, <1>5
<1>7. s.start \div PAGE_SIZE = lo
  BY <1>2 DEF AlignDown
<1>8. lo .. hi - 1 \subseteq Pages
  BY <1>2, RamPages DEF Pages
<1>. QED  BY <1>2, <1>6, <1>7, <1>8

\* The calls for the sections are the last: they prevail.
LEMMA SectionsPrevail ==
  ASSUME WorkingMachine, TInv, loaded, NEW s \in ToSet(Sections),
         NEW p \in AlignDown(s.start) .. AlignUp(s.end) - 1
  PROVE  Stored((p + HHDM) % WORD) = Word(p, s.flags)
<1>1. p \in Pages
  BY PagesOfSection
<1>2. \A g \in Pages : (g + HHDM) % WORD = g
  BY Reduced DEF WorkingMachine
<1>3. PICK r : r = CallFor(p, p, s.flags)
  OBVIOUS
<1>4. PICK a, b \in Seq(BootCall) :
        /\ InitCalls = a \o b
        /\ \A x : x \in Range(b) <=> \E t \in ToSet(Sections) : x \in Range(SectionCalls(t))
  BY TwoParts
<1>5. PICK k \in Nat : k = Len(a)
  BY <1>4
<1>6. Len(InitCalls) = k + Len(b) /\ \A j \in 1 .. Len(b) : InitCalls[k + j] = b[j]
  BY <1>4, <1>5
<1>7. r \in Range(SectionCalls(s))
  BY <1>1, <1>2, <1>3, SectionPages
<1>8. PICK j \in 1 .. Len(b) : b[j] = r
  <2>1. r \in Range(b)
    BY <1>4, <1>7
  <2>. QED  BY <1>4, <2>1 DEF Range
<1>9. PICK n \in 1 .. Len(InitCalls) : n = k + j /\ InitCalls[n] = r
  BY <1>6, <1>8
<1>10. PICK m \in n .. Len(InitCalls) :
         /\ InitCalls[m].va = InitCalls[n].va
         /\ Stored(InitCalls[n].va) = Word(InitCalls[m].pa, InitCalls[m].flags)
  BY StoredByCall
<1>11. InitCalls[n].va = p
  BY <1>3, <1>9 DEF CallFor
<1>12. PICK i \in 1 .. Len(b) : m = k + i
  <2>1. m - k \in 1 .. Len(b) /\ m = k + (m - k)
    BY <1>6, <1>8, <1>9, <1>10
  <2>. QED  BY <2>1
<1>13. PICK t \in ToSet(Sections) : InitCalls[m] \in Range(SectionCalls(t))
  <2>1. InitCalls[m] = b[i]
    BY ONLY <1>6, <1>12
  <2>2. b[i] \in Range(b)
    BY DEF Range
  <2>. QED  BY <1>4, <2>1, <2>2
<1>14. PICK g \in AlignDown(t.start) .. AlignUp(t.end) - 1 :
         InitCalls[m] = CallFor((g + HHDM) % WORD, g, t.flags)
  BY <1>13, SectionPages
<1>15. g \in Pages
  BY PagesOfSection
<1>16. InitCalls[m].va = g /\ InitCalls[m].pa = g /\ InitCalls[m].flags = t.flags
  BY <1>2, <1>14, <1>15 DEF CallFor
<1>17. g = p
  BY <1>10, <1>11, <1>16
<1>18. t = s
  BY <1>14, <1>17, OneSection
<1>19. Stored(p) = Word(p, s.flags)
  BY <1>10, <1>11, <1>16, <1>17, <1>18
<1>. QED  BY <1>1, <1>2, <1>19

\* A page of the memory map where no section is and no other entry says otherwise.
LEMMA EntriesPrevail ==
  ASSUME WorkingMachine, TInv, loaded, NEW e \in ToSet(MemMap),
         NEW p \in e.base .. e.base + e.pages - 1,
         \A s \in ToSet(Sections) : \A q \in AlignDown(s.start) .. AlignUp(s.end) - 1 :
           (q + HHDM) % WORD # p,
         \A f \in ToSet(MemMap) : p \in f.base .. f.base + f.pages - 1 => f = e
  PROVE  Stored(p) = Word(p, RightsOf(e))
<1>1. PICK r : r = CallFor(p, p, RightsOf(e))
  OBVIOUS
<1>2. PICK a, b \in Seq(BootCall) :
        /\ InitCalls = a \o b
        /\ \A x : x \in Range(a) <=> \E f \in ToSet(MemMap) : x \in Range(EntryCalls(f))
        /\ \A x : x \in Range(b) <=> \E t \in ToSet(Sections) : x \in Range(SectionCalls(t))
  BY TwoParts
<1>3. Range(InitCalls) = Range(a) \cup Range(b) /\ InitCalls \in Seq(BootCall)
  BY <1>2, Concatenated
<1>4. r \in Range(EntryCalls(e))
  BY <1>1, EntryPages
<1>5. r \in Range(InitCalls)
  BY <1>2, <1>3, <1>4
<1>6. PICK n \in 1 .. Len(InitCalls) : InitCalls[n] = r
  BY <1>3, <1>5 DEF Range
<1>7. InitCalls[n].va = p
  BY <1>1, <1>6 DEF CallFor
<1>8. PICK m \in n .. Len(InitCalls) :
        InitCalls[m].va = p /\ Stored(p) = Word(InitCalls[m].pa, InitCalls[m].flags)
  BY <1>7, StoredByCall
<1>9. PICK x : x = InitCalls[m] /\ x \in Range(InitCalls)
  <2>1. m \in 1 .. Len(InitCalls)
    BY <1>6, <1>8
  <2>. QED  BY <1>3, <2>1 DEF Range
<1>10. CASE x \in Range(a)
  <2>1. PICK f \in ToSet(MemMap) : x \in Range(EntryCalls(f))
    BY <1>2, <1>10
  <2>2. PICK g \in f.base .. f.base + f.pages - 1 : x = CallFor(g, g, RightsOf(f))
    BY <2>1, EntryPages
  <2>3. g = p /\ x.pa = p /\ x.flags = RightsOf(f)
    BY <1>8, <1>9, <2>2 DEF CallFor
  <2>4. f = e
    BY <2>2, <2>3
  <2>. QED  BY <1>8, <1>9, <2>3, <2>4
<1>11. CASE x \in Range(b)
  <2>1. PICK t \in ToSet(Sections) : x \in Range(SectionCalls(t))
    BY <1>2, <1>11
  <2>2. PICK g \in AlignDown(t.start) .. AlignUp(t.end) - 1 :
          x = CallFor((g + HHDM) % WORD, g, t.flags)
    BY <2>1, SectionPages
  <2>3. (g + HHDM) % WORD = p
    BY <1>8, <1>9, <2>2 DEF CallFor
  <2>. QED  BY <2>2, <2>3
<1>. QED  BY <1>3, <1>9, <1>10, <1>11

\* After load_context the tables hold what init_mmu is to put there, each page of
\* the kernel with the rights of its section, the last one too if the section does
\* not fill it, whatever the memory map has said of it before (mmu.c:68-101), and
\* callers' map and unmap change none of it.  This is about the offset 0: with any
\* other load_context is not reached (OffsetStopsBoot).
THEOREM BootMapPersists == ASSUME Mappable PROVE Spec => []BootMapStays
<1>1. ASSUME WorkingMachine, TInv, loaded
      PROVE  BootMapStays
  <2>1. ASSUME NEW s \in ToSet(Sections), NEW p \in s.start \div PAGE_SIZE .. (s.end - 1) \div PAGE_SIZE
        PROVE  Stored((p + HHDM) % WORD) = Word(p, s.flags)
    <3>1. p \in AlignDown(s.start) .. AlignUp(s.end) - 1
      BY <2>1, PagesOfSection
    <3>. QED  BY <1>1, <3>1, SectionsPrevail
  <2>2. ASSUME NEW e \in ToSet(MemMap), NEW p \in e.base .. e.base + e.pages - 1,
               \A s \in ToSet(Sections) :
                 \A q \in s.start \div PAGE_SIZE .. (s.end - 1) \div PAGE_SIZE : (q + HHDM) % WORD # p,
               \A f \in ToSet(MemMap) : p \in f.base .. f.base + f.pages - 1 => f = e
        PROVE  Stored(p) = Word(p, {"present"} \cup IF e.usable THEN {"write"} ELSE {"noexec"})
    <3>1. \A s \in ToSet(Sections) : \A q \in AlignDown(s.start) .. AlignUp(s.end) - 1 :
            (q + HHDM) % WORD # p
      BY <2>2, PagesOfSection
    <3>2. Stored(p) = Word(p, RightsOf(e))
      BY <1>1, <2>2, <3>1, EntriesPrevail
    <3>. QED  BY <3>2 DEF RightsOf
  <2>. QED  BY <2>1, <2>2 DEF BootMapStays
<1>2. ~loaded => BootMapStays
  BY DEF BootMapStays
<1>3. Reachable => BootMapStays
  BY <1>1, <1>2, NothingThere DEF Reachable, WorkingMachine
<1>. QED  BY <1>3, TreeInvariance, PTL

=============================================================================
