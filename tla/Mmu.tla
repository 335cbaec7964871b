--------------------------------- MODULE Mmu ---------------------------------
(***************************************************************************)
(* The page tables of kernel/core/mm/mmu.c: init_mmu, map and unmap under  *)
(* mmu_lock, the walk that creates the tables on its way, the page         *)
(* allocator they take their pages from, and the processors that walk the  *)
(* tables at any moment and keep what they find in their TLBs.             *)
(*                                                                         *)
(* Addresses, virtual and physical, are numbers of pages.  Both kinds are  *)
(* the same integers to the code, and are here: what an access to an       *)
(* address reaches is said by Reach, first through the tables of the boot  *)
(* loader, which map physical memory at HHDM, then through those of mmu.c. *)
(*                                                                         *)
(* pmm_alloc_pages and pmm_free_pages are single steps, with the choice    *)
(* and the refusals of module Pmm, which works on direct map addresses.    *)
(***************************************************************************)
EXTENDS Integers, Sequences, SequencesExt, FiniteSets

CONSTANTS
  Cores,
  BootCore,    \* the core that runs init_mmu
  HHDM,        \* hhdm->offset, in pages
  WORD,        \* page numbers in an uintptr_t
  MASK,        \* page numbers that 0x000ffffffffff000 lets through
  Fanout,      \* entries in a table (512 in the code)
  Depth,       \* levels of tables (4 in the code)
  PAGE_SIZE,   \* bytes in a page
  MemMap,      \* the memory map: [base, pages, usable]
  Sections,    \* the kernel's sections: [start, end, flags], addresses of bytes
  Stale,       \* where the entries lead that a page may hold from its last owner
  OwnPages,    \* where callers map pages of the allocator
  DevicePages, \* where they map other memory
  Devices,     \* that memory
  Flags,       \* the flags they pass
  MaxOwned,    \* how many pages they have at once (a bound of the model)
  None         \* nothing: no call, no entry, no memory

\* The memory that the allocator manages, and all there is.
Ram == UNION {e.base .. e.base + e.pages - 1 : e \in {f \in ToSet(MemMap) : f.usable}}
Physical == UNION {e.base .. e.base + e.pages - 1 : e \in ToSet(MemMap)}

Levels == 0 .. Depth - 1
Slots == 0 .. Fanout - 1
VASpace == Fanout ^ Depth
CallerPages == OwnPages \cup DevicePages

Bits == {"present", "write", "all", "noexec"}

\* What ALIGN_DOWN and ALIGN_UP make of an address, in pages.
AlignDown(x) == x \div PAGE_SIZE
AlignUp_Down(x) == x \div PAGE_SIZE
AlignUp(x) == (x + PAGE_SIZE - 1) \div PAGE_SIZE

ASSUME MmuAssumption ==
  /\ BootCore \in Cores
  /\ HHDM \in Nat /\ {WORD, MASK, Fanout, Depth, PAGE_SIZE} \subseteq Nat \ {0}
  /\ VASpace <= WORD /\ HHDM + MASK <= WORD /\ MASK <= WORD \div 2
  /\ Physical \subseteq 1 .. MASK - 1
  /\ CallerPages \subseteq 0 .. WORD - 1
  /\ OwnPages \cap DevicePages = {} /\ CallerPages \cap Physical = {}
  /\ Devices \subseteq 0 .. MASK - 1 /\ Devices \cap Ram = {} /\ Stale \in 0 .. MASK - 1
  /\ Flags \subseteq SUBSET Bits

\* The direct map begins above every physical address, as the boot loader's
\* does, unless it is the identity.
ASSUME OffsetAssumption == HHDM = 0 \/ HHDM >= MASK

\* The memory map and the sections. No two sections share a page: linker.ld
\* leaves one free between them (linker.ld:27 and :46).
ASSUME MachineAssumption ==
  /\ MemMap \in Seq([base : Nat, pages : Nat, usable : BOOLEAN])
  /\ Sections \in Seq([start : Nat, end : Nat, flags : SUBSET Bits])
  /\ \A s \in ToSet(Sections) : AlignUp(s.end) <= WORD /\ "present" \in s.flags
  /\ \A s, t \in ToSet(Sections) :
       s # t => AlignUp(s.end) <= AlignDown(t.start) \/ AlignUp(t.end) <= AlignDown(s.start)

\* A power of a positive number is positive.
ASSUME PowerAssumption == \A l \in Levels : Fanout ^ l \in Nat \ {0}

ASSUME NoneAssumption ==
  /\ None \notin Nat /\ None \notin {"true", "false"}
  /\ None \notin [pa : Nat, flags : SUBSET Bits]
  /\ None \notin [op : {"map", "unmap"}, va : Nat, pa : Nat, flags : SUBSET Bits, free_pa : BOOLEAN]

VARIABLES
  mem,       \* mem[f][s]: slot s of the page of memory f, read as a table
  free,      \* what the allocator has, as direct map addresses
  page_map,  \* hypervisor_page_map
  loaded,    \* load_context has put cr3_paddr into cr3
  done,      \* init_mmu: how many of its calls of map have returned
  mmu_lock,
  pc, req, ptr, lvl, below, \* of each core: where it is, the arguments of its
                            \* call, pml_pointer, its level, below_pml
  result,    \* what its call is going to return, None before it is known
  tlb,       \* tlb[c][va]: the entry that core c remembers for page va
  held,      \* the pages callers own and have not mapped
  replaced,  \* the pages whose mapping map has overwritten (history)
  changed    \* changed[c]: the pages whose entries other cores have changed
             \* since c remembered them (history)

boot == <<page_map, loaded, done>>
locals == <<pc, req, ptr, lvl, below, result>>
seen == <<tlb, changed>>
owners == <<held, replaced>>
vars == <<mem, free, boot, mmu_lock, locals, seen, owners>>

Goto(c, where) == pc' = [pc EXCEPT ![c] = where]

Zero == [pa |-> 0, flags |-> {}]
Present(e) == "present" \in e.flags
ZeroPage == [s \in Slots |-> Zero]

\* The word pa | flags: the topmost bit of an address is PTE_BIT_EXECUTE_DISABLE.
Word(pa, flags) ==
  [pa |-> pa, flags |-> flags \cup (IF pa >= WORD \div 2 THEN {"noexec"} ELSE {})]

\* What a page holds that its last owner has written to: anything.
Garbage == {ZeroPage, [s \in Slots |-> Word(Stale, {"present", "write"})]}

-----------------------------------------------------------------------------
(* The processor *)

Canonical(a) == a < VASpace \div 2 \/ a >= WORD - VASpace \div 2
Slot(a, l) == (a \div (Fanout ^ l)) % Fanout

\* Where the entry s of the table in page f leads, if anywhere.
Below(f, s) == {mem[g][s].pa % MASK : g \in {h \in Ram \cap {f} : Present(mem[h][s])}}

\* The entry for page a, as memory has it.  table[l] has the table of level l
\* on the walk, if the walk gets that far.
Stored(a) ==
  LET table[l \in Levels] ==
        IF l = Depth - 1 THEN {page_map.cr3_paddr % MASK}
        ELSE UNION {Below(f, Slot(a, l + 1)) : f \in table[l + 1]}
      entries == {mem[f][Slot(a, 0)] : f \in table[0] \cap Ram}
  IN IF entries = {} THEN Zero ELSE CHOOSE e \in entries : TRUE

\* The entry that a processor's walk finds for page a.
Walk(a) == IF loaded /\ Canonical(a) /\ Present(Stored(a)) THEN Stored(a) ELSE None

\* The memory that an access to page a of the kernel reaches.
Reach(a) ==
  LET entry == Walk(a)
  IN IF loaded THEN IF entry = None THEN None ELSE entry.pa % MASK
     ELSE IF a - HHDM \in Physical THEN a - HHDM ELSE None

\* What a core does at page a, or the exception that leads to kpanic.
At(c, a, action) ==
  IF Reach(a) \in Ram THEN action
  ELSE Goto(c, "panic") /\ UNCHANGED <<mem, free, boot, mmu_lock, req, ptr, lvl, below, result, seen, owners>>

\* A core may walk at any time, and remember what it found.
Fill(c, va) ==
  /\ Walk(va) # None
  /\ tlb' = [tlb EXCEPT ![c][va] = Walk(va)]
  /\ changed' = [changed EXCEPT ![c] = @ \ {va}]
  /\ UNCHANGED <<mem, free, boot, mmu_lock, locals, owners>>

-----------------------------------------------------------------------------
(* The page allocator, for calls of one page *)

Run(a) == Cardinality({b \in free : a <= b /\ a .. b \subseteq free})
Starts == {a \in free : a - 1 \notin free}

\* The first page of the smallest block, of several the lowest.
BestFit ==
  CHOOSE a \in Starts :
    \A b \in Starts : Run(a) < Run(b) \/ (Run(a) = Run(b) /\ a <= b)

\* pmm_free_pages takes address a for invalid.
Invalid(a) == \A b \in free : a < b

-----------------------------------------------------------------------------
(* init_mmu *)

Init ==
  /\ mem = [f \in Ram |-> ZeroPage]
  /\ free = {(f + HHDM) % WORD : f \in Ram}
  /\ page_map = [pml4_address |-> 0, cr3_paddr |-> 0]
  /\ loaded = FALSE /\ done = 0 /\ mmu_lock = FALSE
  /\ pc = [c \in Cores |-> IF c = BootCore THEN "start" ELSE "idle"]
  /\ req = [c \in Cores |-> None]
  /\ ptr = [c \in Cores |-> 0] /\ lvl = [c \in Cores |-> 0]
  /\ below = [c \in Cores |-> 0]
  /\ result = [c \in Cores |-> None]
  /\ tlb = [c \in Cores |-> [va \in CallerPages |-> None]]
  /\ held = {} /\ replaced = {} /\ changed = [c \in Cores |-> {}]

\* Without a kernel address or a page there is a panic.
StartMmu(c) ==
  /\ pc[c] = "start"
  /\ \/ Goto(c, "panic") /\ UNCHANGED <<mem, free, page_map>>
     \/ /\ free # {}
        /\ page_map' = [cr3_paddr |-> BestFit, pml4_address |-> (BestFit + HHDM) % WORD]
        /\ free' = free \ {BestFit}
        /\ \E g \in Garbage : mem' = [mem EXCEPT ![BestFit - HHDM] = g]
        /\ Goto(c, "clear pml4")
  /\ UNCHANGED <<loaded, done, mmu_lock, req, ptr, lvl, below, result, seen, owners>>

ClearPml4(c) ==
  /\ pc[c] = "clear pml4"
  /\ At(c, page_map.pml4_address,
        /\ mem' = [mem EXCEPT ![Reach(page_map.pml4_address)] = ZeroPage]
        /\ Goto(c, "init")
        /\ UNCHANGED <<free, boot, mmu_lock, req, ptr, lvl, below, result, seen, owners>>)

Mapping(va, pa, flags) ==
  [op |-> "map", va |-> va % WORD, pa |-> pa % WORD, flags |-> flags, free_pa |-> FALSE]

Limit(e) == e.base + e.pages

\* The calls for one entry of the memory map, page by page.
EntryCalls(e) ==
  [n \in 1 .. Limit(e) - e.base |->
     Mapping(e.base + n - 1, e.base + n - 1,
             {"present"} \cup IF e.usable THEN {"write"} ELSE {"noexec"})]

\* The calls for one section of the kernel.
SectionCalls(s) ==
  [n \in 1 .. AlignUp(s.end) - AlignDown(s.start) |->
     LET addr == AlignDown(s.start) + n - 1 IN Mapping(addr + HHDM, addr, s.flags)]

InitCalls ==
  FlattenSeq([n \in 1 .. Len(MemMap) |-> EntryCalls(MemMap[n])])
    \o FlattenSeq([n \in 1 .. Len(Sections) |-> SectionCalls(Sections[n])])

InitMap(c) ==
  /\ pc[c] = "init" /\ done < Len(InitCalls)
  /\ req' = [req EXCEPT ![c] = InitCalls[done + 1]]
  /\ done' = done + 1
  /\ Goto(c, "lock")
  /\ UNCHANGED <<mem, free, page_map, loaded, mmu_lock, ptr, lvl, below, result, seen, owners>>

LoadContext(c) ==
  /\ pc[c] = "init" /\ done = Len(InitCalls)
  /\ loaded' = TRUE
  /\ Goto(c, "idle")
  /\ UNCHANGED <<mem, free, page_map, done, mmu_lock, req, ptr, lvl, below, result, seen, owners>>

-----------------------------------------------------------------------------
(* The callers of map and unmap *)

\* A caller gets a page of its own.
GetPage ==
  /\ loaded /\ free # {}
  /\ Cardinality(held \cup replaced) < MaxOwned
  /\ free' = free \ {BestFit}
  /\ held' = held \cup {BestFit - HHDM}
  /\ UNCHANGED <<mem, boot, mmu_lock, locals, seen, replaced>>

Requests ==
  {Mapping(m[1], m[2], m[3]) : m \in (OwnPages \X Ram \X Flags) \cup (DevicePages \X Devices \X Flags)}
    \cup {[op |-> "unmap", va |-> va, pa |-> 0, flags |-> {}, free_pa |-> va \in OwnPages]
            : va \in CallerPages}

\* What is mapped at OwnPages is a page the caller owned, and it is the
\* mapping that owns it from then on: unmap gives it back.
Call(c, r) ==
  /\ loaded /\ pc[c] = "idle"
  /\ r.op = "map" /\ r.va \in OwnPages => r.pa \in held
  /\ held' = IF r.op = "map" THEN held \ {r.pa} ELSE held
  /\ req' = [req EXCEPT ![c] = r]
  /\ Goto(c, "lock")
  /\ UNCHANGED <<mem, free, boot, mmu_lock, ptr, lvl, below, result, seen, replaced>>

-----------------------------------------------------------------------------
(* map and unmap *)

Lock_TestsNothing(c) ==
  /\ pc[c] = "lock"
  /\ mmu_lock' = TRUE
  /\ ptr' = [ptr EXCEPT ![c] = page_map.pml4_address]
  /\ lvl' = [lvl EXCEPT ![c] = Depth - 1]
  /\ Goto(c, "walk")
  /\ UNCHANGED <<mem, free, boot, req, below, result, seen, owners>>
Lock(c) ==
  /\ pc[c] = "lock" /\ ~mmu_lock
  /\ mmu_lock' = TRUE
  /\ ptr' = [ptr EXCEPT ![c] = page_map.pml4_address]
  /\ lvl' = [lvl EXCEPT ![c] = Depth - 1]
  /\ Goto(c, "walk")
  /\ UNCHANGED <<mem, free, boot, req, below, result, seen, owners>>

\* spinlock_lock goes on testing.
Spin(c) == pc[c] = "lock" /\ mmu_lock /\ UNCHANGED vars

\* pml4_index, pdpt_index, pd_index, pt_index
IndexOf(va, l) == (va \div (Fanout ^ l)) % Fanout
Entry(c) == mem[Reach(ptr[c])][IndexOf(req[c].va, lvl[c])]
Store(c, e) == mem' = [mem EXCEPT ![Reach(ptr[c])][IndexOf(req[c].va, lvl[c])] = e]

\* pml4_to_pt has a table to go through before it is at the page table.
Inner_OnceTooOften(c) == lvl[c] >= 0
Inner(c) == lvl[c] > 0

\* The next table, by the address the code uses for it.
Enter(c, table) ==
  /\ ptr' = [ptr EXCEPT ![c] = (table + HHDM) % WORD]
  /\ lvl' = [lvl EXCEPT ![c] = @ - 1]

\* get_below_pml: the table is there, or it is not and has to be, or unmap
\* returns false.
Descend(c) ==
  /\ pc[c] = "walk" /\ Inner(c)
  /\ At(c, ptr[c],
        /\ IF Present(Entry(c))
           THEN Enter(c, Entry(c).pa % MASK) /\ UNCHANGED <<pc, result>>
           ELSE IF req[c].op = "map"
           THEN Goto(c, "allocate") /\ UNCHANGED <<ptr, lvl, result>>
           ELSE /\ result' = [result EXCEPT ![c] = "false"]
                /\ Goto(c, "unlock") /\ UNCHANGED <<ptr, lvl>>
        /\ UNCHANGED <<mem, free, boot, mmu_lock, req, below, seen, owners>>)

AllocTable(c) ==
  /\ pc[c] = "allocate" /\ free # {}
  /\ below' = [below EXCEPT ![c] = BestFit]
  /\ free' = free \ {BestFit}
  /\ \E g \in Garbage : mem' = [mem EXCEPT ![BestFit - HHDM] = g]
  /\ Goto(c, "zero")
  /\ UNCHANGED <<boot, mmu_lock, req, ptr, lvl, result, seen, owners>>

\* kpanic, with mmu_lock held.
AllocFails(c) ==
  /\ pc[c] = "allocate" /\ free = {}
  /\ Goto(c, "panic")
  /\ UNCHANGED <<mem, free, boot, mmu_lock, req, ptr, lvl, below, result, seen, owners>>

ZeroTable_Forgotten(c) ==
  /\ pc[c] = "zero"
  /\ Goto(c, "link")
  /\ UNCHANGED <<mem, free, boot, mmu_lock, req, ptr, lvl, below, result, seen, owners>>
ZeroTable(c) ==
  /\ pc[c] = "zero"
  /\ LET a == (below[c] + HHDM) % WORD
     IN At(c, a,
           /\ mem' = [mem EXCEPT ![Reach(a)] = ZeroPage]
           /\ Goto(c, "link")
           /\ UNCHANGED <<free, boot, mmu_lock, req, ptr, lvl, below, result, seen, owners>>)

LinkTable(c) ==
  /\ pc[c] = "link"
  /\ Store(c, Word(below[c], {"present", "write", "all"}))
  /\ Enter(c, below[c])
  /\ below' = [below EXCEPT ![c] = 0]
  /\ Goto(c, "walk")
  /\ UNCHANGED <<free, boot, mmu_lock, req, result, seen, owners>>

\* Core c has changed the entry of its page.
Changed(c) ==
  changed' = [d \in Cores |->
                IF req[c].va \in CallerPages /\ d # c /\ tlb[d][req[c].va] # None
                THEN changed[d] \cup {req[c].va} ELSE changed[d]]

WriteEntry(c) ==
  /\ pc[c] = "walk" /\ ~Inner(c) /\ req[c].op = "map"
  /\ At(c, ptr[c],
        /\ Store(c, Word(req[c].pa, req[c].flags))
        /\ result' = [result EXCEPT ![c] = "true"]
        /\ replaced' = replaced \cup (IF req[c].va \in OwnPages THEN {Entry(c).pa} \cap Ram ELSE {})
        /\ Changed(c)
        /\ Goto(c, "flush")
        /\ UNCHANGED <<free, boot, mmu_lock, req, ptr, lvl, below, tlb, held>>)

\* if ( free_pa ) pmm_free_pages( ... ), which panics, or writes a header into
\* the page and takes it.
FreePage(c) ==
  /\ pc[c] = "walk" /\ ~Inner(c) /\ req[c].op = "unmap"
  /\ At(c, ptr[c],
        LET a == Entry(c).pa % MASK
        IN /\ IF req[c].free_pa /\ (Invalid(a) \/ Reach(a) = None)
              THEN Goto(c, "panic") /\ UNCHANGED free
              ELSE Goto(c, "erase") /\ free' = IF req[c].free_pa THEN free \cup {a} ELSE free
           /\ UNCHANGED <<mem, boot, mmu_lock, req, ptr, lvl, below, result, seen, owners>>)

EraseEntry_Forgotten(c) ==
  /\ pc[c] = "erase"
  /\ result' = [result EXCEPT ![c] = "true"]
  /\ Changed(c)
  /\ Goto(c, "flush")
  /\ UNCHANGED <<mem, free, boot, mmu_lock, req, ptr, lvl, below, tlb, owners>>
EraseEntry(c) ==
  /\ pc[c] = "erase"
  /\ Store(c, Zero)
  /\ result' = [result EXCEPT ![c] = "true"]
  /\ Changed(c)
  /\ Goto(c, "flush")
  /\ UNCHANGED <<free, boot, mmu_lock, req, ptr, lvl, below, tlb, owners>>

tlb_flush_Forgotten(c) ==
  /\ pc[c] = "flush"
  /\ Goto(c, "unlock")
  /\ UNCHANGED <<mem, free, boot, mmu_lock, req, ptr, lvl, below, result, seen, owners>>
tlb_flush(c) ==
  /\ pc[c] = "flush"
  /\ tlb' = [tlb EXCEPT ![c] = [va \in CallerPages |-> None]]
  /\ changed' = [changed EXCEPT ![c] = {}]
  /\ Goto(c, "unlock")
  /\ UNCHANGED <<mem, free, boot, mmu_lock, req, ptr, lvl, below, result, owners>>

Unlock_Forgotten(c) ==
  /\ pc[c] = "unlock"
  /\ Goto(c, IF loaded THEN "idle" ELSE "init")
  /\ req' = [req EXCEPT ![c] = None] /\ result' = [result EXCEPT ![c] = None]
  /\ ptr' = [ptr EXCEPT ![c] = 0] /\ lvl' = [lvl EXCEPT ![c] = 0]
  /\ UNCHANGED <<mem, free, boot, mmu_lock, below, seen, owners>>
Unlock(c) ==
  /\ pc[c] = "unlock"
  /\ mmu_lock' = FALSE
  /\ Goto(c, IF loaded THEN "idle" ELSE "init")
  /\ req' = [req EXCEPT ![c] = None] /\ result' = [result EXCEPT ![c] = None]
  /\ ptr' = [ptr EXCEPT ![c] = 0] /\ lvl' = [lvl EXCEPT ![c] = 0]
  /\ UNCHANGED <<mem, free, boot, below, seen, owners>>

Halt(c) == pc[c] = "panic" /\ UNCHANGED vars

-----------------------------------------------------------------------------

Step(c) ==
  \/ StartMmu(c) \/ ClearPml4(c) \/ InitMap(c) \/ LoadContext(c)
  \/ Lock(c) \/ Descend(c)
  \/ AllocTable(c) \/ AllocFails(c) \/ ZeroTable(c) \/ LinkTable(c)
  \/ WriteEntry(c) \/ FreePage(c) \/ EraseEntry(c) \/ tlb_flush(c) \/ Unlock(c)

Next ==
  \/ \E c \in Cores : Step(c) \/ Spin(c) \/ Halt(c)
  \/ \E c \in Cores, r \in Requests : Call(c, r)
  \/ \E c \in Cores, va \in CallerPages : Fill(c, va)
  \/ GetPage

\* A core in a function executes the next instruction.
Spec == Init /\ [][Next]_vars /\ \A c \in Cores : WF_vars(Step(c))

-----------------------------------------------------------------------------
(* What the tables hold *)

\* init_mmu has a cleared top table.
Booted == loaded \/ done > 0 \/ pc[BootCore] = "init"

\* The tables of each level, from the root down.
Tables ==
  LET t[l \in Levels] == IF l = Depth - 1 THEN {page_map.cr3_paddr % MASK}
                         ELSE UNION {Below(p[1], p[2]) : p \in t[l + 1] \X Slots}
  IN t

\* The core between pmm_free_pages and the clearing of the entry.
Freeing(c) == pc[c] = "erase" /\ req[c].free_pa

\* Page va may still be seen by core c although its entry is gone: c has not
\* flushed its TLB since, or is about to.
Outdated(c, va) ==
  \/ va \in changed[c]
  \/ pc[c] \in {"erase", "flush"} /\ req[c].va = va

-----------------------------------------------------------------------------
(* Properties *)

\* Every variable has its type.
TypeOK ==
  LET Words == 0 .. WORD - 1
      Entries == [pa : Words, flags : SUBSET Bits]
  IN /\ mem \in [Ram -> [Slots -> Entries]]
     /\ free \subseteq Words /\ held \subseteq Ram /\ replaced \subseteq Ram
     /\ page_map \in [pml4_address : Words, cr3_paddr : Words]
     /\ loaded \in BOOLEAN /\ mmu_lock \in BOOLEAN /\ done \in 0 .. Len(InitCalls)
     /\ \A c \in Cores :
          /\ pc[c] \in {"start", "clear pml4", "init", "idle", "lock", "walk", "allocate",
                        "zero", "link", "erase", "flush", "unlock", "panic"}
          /\ req[c] \in Requests \cup ToSet(InitCalls) \cup {None}
          /\ ptr[c] \in Words /\ lvl[c] \in Levels /\ below[c] \in Words
          /\ result[c] \in {None, "true", "false"}
          /\ tlb[c] \in [CallerPages -> Entries \cup {None}]
          /\ changed[c] \subseteq CallerPages

\* The tables form a tree: no table has two parents, or two levels, or is its
\* own ancestor, whatever the pages held when the allocator gave them out.
TablesFormATree ==
  LET table == Tables
  IN Booted =>
       /\ \A k, l \in Levels : k # l => table[k] \cap table[l] = {}
       /\ \A l \in 1 .. Depth - 1 :
            Cardinality(table[l - 1]) =
              Cardinality({p \in table[l] \X Slots : Below(p[1], p[2]) # {}})

\* Each page of memory has one use: it is free, a caller's, a table, about to
\* be one, about to be mapped, or mapped, and no table or page gets lost but
\* those that a caller maps another page over.  The page that unmap has freed
\* and not unmapped yet counts as free.
PagesHaveOneUse ==
  LET asking == {c \in Cores : /\ pc[c] \notin {"idle", "flush", "unlock"} /\ req[c] # None
                               /\ req[c].op = "map" /\ req[c].va \in OwnPages}
      table == Tables
      mapped == {va \in OwnPages : /\ Stored(va) # Zero
                                   /\ ~\E c \in Cores : Freeing(c) /\ req[c].va = va}
      uses == <<{a - HHDM : a \in free}, held, UNION {table[l] : l \in Levels},
                {below[c] - HHDM : c \in {d \in Cores : pc[d] \in {"zero", "link"}}},
                {req[c].pa : c \in asking}, {Stored(va).pa : va \in mapped}, replaced>>
  IN Booted => /\ UNION Range(uses) = Ram
               /\ \A m, n \in DOMAIN uses : m # n => uses[m] \cap uses[n] = {}

\* After load_context the tables hold what init_mmu is there to put into them,
\* whatever callers have mapped and unmapped since: each page with a byte of a
\* section, hhdm->offset above its link address, leads to the link address (and
\* not to where the kernel was loaded), with the rights of its section, the last
\* page too if the section does not fill it; and each page of the memory map
\* leads to itself, with the rights of its entry, if nothing else is mapped there.
BootMapStays ==
  LET InSection(s) == s.start \div PAGE_SIZE .. (s.end - 1) \div PAGE_SIZE
      InEntry(e) == e.base .. e.base + e.pages - 1
      Above(p) == (p + HHDM) % WORD
      Alone(p, e) == /\ \A s \in ToSet(Sections) : \A q \in InSection(s) : Above(q) # p
                     /\ \A f \in ToSet(MemMap) : p \in InEntry(f) => f = e
  IN loaded =>
       /\ \A s \in ToSet(Sections) : \A p \in InSection(s) :
            Stored(Above(p)) = Word(p, s.flags)
       /\ \A e \in ToSet(MemMap) : \A p \in InEntry(e) :
            Alone(p, e) =>
              Stored(p) = Word(p, {"present"} \cup IF e.usable THEN {"write"} ELSE {"noexec"})

\* When map or unmap has returned, its core does not remember what it
\* replaced; what it remembers wrongly, other cores have changed.
OwnTlbFresh ==
  \A c \in Cores, va \in CallerPages :
    tlb[c][va] \notin {None, Walk(va)} => Outdated(c, va)

\* A page that the allocator has, or has given to somebody else, can be
\* reached through a page that was unmapped only by a core that has not
\* flushed its TLB since, and through the tables only inside unmap.
FreedIsUnreachable ==
  LET Gone(e) == e # None /\ (e.pa \in held \/ e.pa + HHDM \in free)
  IN \A va \in OwnPages :
       /\ Gone(Walk(va)) => \E c \in Cores : Freeing(c) /\ req[c].va = va
       /\ \A c \in Cores :
            Gone(tlb[c][va]) => \/ Outdated(c, va)
                                \/ \E d \in Cores : Freeing(d) /\ req[d].va = va

AS == INSTANCE AddressSpace WITH
        Callers <- Cores,
        Pages   <- CallerPages,
        space   <- [va \in CallerPages |-> Walk(va)],
        call    <- [c \in Cores |-> IF loaded THEN req[c] ELSE None],
        result  <- [c \in Cores |-> IF loaded THEN result[c] ELSE None]

\* Whatever cores walk the tables, and whenever, they find what the calls of
\* map and unmap up to then say, and no table half made.
ImplementsAddressSpace == AS!Spec

\* mmu_lock is released, unless its holder panics.
ReleasedUnlessPanic == mmu_lock ~> (~mmu_lock \/ \E c \in Cores : pc[c] = "panic")

\* What the name at mmu.h:16, cr3_paddr, says of what load_context puts into
\* cr3: it is the physical address of a page.
Cr3IsPhysical == page_map.cr3_paddr # 0 => page_map.cr3_paddr \in Physical

=============================================================================
