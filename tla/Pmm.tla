--------------------------------- MODULE Pmm ---------------------------------
(***************************************************************************)
(* The physical memory manager, kernel/core/mm/pmm.c.                      *)
(*                                                                         *)
(* Free memory is a singly linked list of blocks.  The header of a block   *)
(* (struct free_block: size, next) lies in the first bytes of the block    *)
(* itself, so the list lives in the memory it manages and a caller that    *)
(* owns a page overwrites whatever header that page once held.             *)
(*                                                                         *)
(* Addresses are the virtual addresses of the higher-half direct map,      *)
(* which is what pmm.c links, returns and takes back.  next[NULL] is the   *)
(* cell pmm_info.freelist, so that "struct free_block **prev" is the       *)
(* address of the cell it points to: NULL for &pmm_info.freelist, b for    *)
(* &b->next.  Every iteration of a loop of the code is one step.           *)
(***************************************************************************)
EXTENDS Integers, Sequences, FiniteSets

CONSTANTS
  PAGE_SIZE,  \* bytes in a page
  WORD,       \* number of values of size_t and uintptr_t (2^64 in the code)
  HHDM,       \* hhdm->offset, the virtual address of physical address 0
  MaxAddr,    \* the highest virtual address of the machine
  MemMaps,    \* the memory maps the boot loader may hand over
  Counts,     \* the page counts callers pass
  Garbage     \* what memory holds before boot and after its owner wrote to it

NULL == 0

Addr == 0 .. MaxAddr
Cells == {a \in Addr \ {NULL} : a % PAGE_SIZE = 0}  \* where headers may lie

Entry == [base : 0 .. WORD - 1, length : 0 .. WORD - 1, usable : BOOLEAN]

\* size_t size = count * PAGE_SIZE
Bytes(n) == (n * PAGE_SIZE) % WORD

Extent(a, len) == a .. (a + len - 1)

AlignDown(x) == x - (x % PAGE_SIZE)
AlignedBase(e) == AlignDown((e.base + PAGE_SIZE - 1) % WORD)
AlignedLength(e) == AlignDown((e.length - (AlignedBase(e) - e.base)) % WORD)

\* The memory map entries that end up on the free list, and where.
Donated(e) == e.usable /\ AlignedLength(e) >= PAGE_SIZE
BlockOf(e) == AlignedBase(e) + HHDM
Donation(e) == Extent(BlockOf(e), AlignedLength(e))

ASSUME MachineAssumption ==
  /\ PAGE_SIZE \in Nat \ {0}
  /\ WORD \in Nat \ {0}
  /\ MaxAddr \in Nat
  /\ HHDM \in Nat \ {0}
  /\ HHDM % PAGE_SIZE = 0

\* The boot loader's promise: no usable byte is described twice, and all of
\* usable memory is inside the direct map.
ASSUME MemMapAssumption ==
  \A m \in MemMaps :
    /\ m \in Seq(Entry)
    /\ \A j \in 1 .. Len(m) :
         Donated(m[j]) => /\ BlockOf(m[j]) \in Cells
                          /\ Donation(m[j]) \subseteq Addr
    /\ \A j, k \in 1 .. Len(m) :
         j # k /\ Donated(m[j]) /\ Donated(m[k])
           => Donation(m[j]) \cap Donation(m[k]) = {}

\* What the callers of this kernel pass: at least one page, and no count whose
\* size in bytes wraps around.
ASSUME CountAssumption ==
  \A n \in Counts : n \in Nat \ {0} /\ n * PAGE_SIZE < WORD

ASSUME GarbageAssumption == Garbage \subseteq Addr

VARIABLES
  memmap,     \* memmap_request.response, <<>> when there is none
  next,       \* next[a]: field next of the header at a; next[NULL]: the list head
  size,       \* size[a]: field size of the header at a
  highest,    \* pmm_info.highest_address_usable
  counters,   \* pmm_info.page_counters
  pc,         \* the loop the code is in, "idle" between calls
  caller,     \* the function that runs, or ran last
  i,          \* init_pmm: the next entry of the memory map
  count,      \* argument of the call
  block,      \* the block being inserted
  prev, current, best, best_prev,  \* locals of the loops
  ret,        \* the value pmm_alloc_pages returned last
  message,    \* what kpanic was called with
  held        \* the addresses callers own: given out and not freed

heap == <<next, size>>
stats == <<highest, counters>>
scan == <<prev, current>>
pick == <<best, best_prev>>
call == <<caller, count, block>>
vars == <<memmap, heap, stats, pc, call, i, scan, pick, ret, message, held>>

-----------------------------------------------------------------------------

Init ==
  /\ memmap \in MemMaps
  /\ \E g \in Garbage :
       /\ next = [a \in Addr |-> IF a = NULL THEN NULL ELSE g]
       /\ size = [a \in Addr |-> g]
  /\ highest = 0
  /\ counters = [usable |-> 0, reserved |-> 0, total |-> 0, in_use |-> 0]
  /\ pc = "boot" /\ caller = "init"
  /\ i = 1
  /\ count = 0 /\ block = NULL
  /\ prev = NULL /\ current = NULL /\ best = NULL /\ best_prev = NULL
  /\ ret = NULL /\ message = "none"
  /\ held = {}

Panic(text) == pc' = "panic" /\ message' = text

\* A call has returned: its locals are gone.
Return ==
  /\ pc' = "idle"
  /\ block' = NULL /\ count' = 0
  /\ prev' = NULL /\ current' = NULL /\ best' = NULL /\ best_prev' = NULL

-----------------------------------------------------------------------------
(* insert_block_sorted and coalesce_free_list *)

\* prev = &current->next; current = current->next
Advance_Forgotten == prev' = current /\ UNCHANGED current
Advance == prev' = current /\ current' = next[current]

Before_IgnoresAddress(c, b) == c # NULL
Before(c, b) == c # NULL /\ c < b

\* The entry of insert_block_sorted(b): its two cursors start at the head.
EnterInsert(b) ==
  /\ pc' = "insert" /\ block' = b
  /\ prev' = NULL /\ current' = next[NULL]

InsertStep ==
  /\ pc = "insert"
  /\ Before(current, block)
  /\ Advance
  /\ UNCHANGED <<memmap, heap, stats, pc, call, i, pick, ret, message, held>>

\* block->next = current; *prev = block; and the return to the caller.
InsertLink ==
  /\ pc = "insert"
  /\ ~Before(current, block)
  /\ next' = [next EXCEPT ![block] = current, ![prev] = block]
  /\ IF caller = "init"
     THEN /\ pc' = "memmap"
          /\ prev' = NULL /\ current' = NULL /\ block' = NULL
     ELSE /\ pc' = "coalesce"
          /\ prev' = NULL /\ current' = next'[NULL] /\ block' = NULL
  /\ UNCHANGED <<memmap, size, stats, caller, count, i, pick, ret, message, held>>

Touches(b) == b + size[b] = next[b]

CoalesceMerge_MovesOn ==
  /\ pc = "coalesce"
  /\ current # NULL /\ next[current] # NULL
  /\ Touches(current)
  /\ size' = [size EXCEPT ![current] = @ + size[next[current]]]
  /\ next' = [next EXCEPT ![current] = next[next[current]]]
  /\ current' = next[next[current]]
  /\ UNCHANGED <<memmap, stats, pc, call, i, prev, pick, ret, message, held>>
CoalesceMerge ==
  /\ pc = "coalesce"
  /\ current # NULL /\ next[current] # NULL
  /\ Touches(current)
  /\ size' = [size EXCEPT ![current] = @ + size[next[current]]]
  /\ next' = [next EXCEPT ![current] = next[next[current]]]
  /\ UNCHANGED <<memmap, stats, pc, call, i, scan, pick, ret, message, held>>

CoalesceAdvance ==
  /\ pc = "coalesce"
  /\ current # NULL /\ next[current] # NULL
  /\ ~Touches(current)
  /\ current' = next[current]
  /\ UNCHANGED <<memmap, heap, stats, pc, call, i, prev, pick, ret, message, held>>

\* The last statement of init_pmm and of pmm_free_pages.
LastCount_InBytes ==
  IF caller = "init" THEN [counters EXCEPT !.total = highest \div PAGE_SIZE]
                     ELSE [counters EXCEPT !.in_use = @ - Bytes(count)]
LastCount ==
  IF caller = "init" THEN [counters EXCEPT !.total = highest \div PAGE_SIZE]
                     ELSE [counters EXCEPT !.in_use = @ - count]

CoalesceEnd ==
  /\ pc = "coalesce"
  /\ current = NULL \/ next[current] = NULL
  /\ counters' = LastCount
  /\ Return
  /\ UNCHANGED <<memmap, heap, highest, caller, i, ret, message, held>>

-----------------------------------------------------------------------------
(* init_pmm *)

InitPmm ==
  /\ pc = "boot"
  /\ IF memmap = <<>>
     THEN Panic("memmap") /\ UNCHANGED next
     ELSE /\ pc' = "memmap"
          /\ next' = [next EXCEPT ![NULL] = NULL]
          /\ UNCHANGED message
  /\ UNCHANGED <<memmap, size, stats, call, i, scan, pick, ret, held>>

\* An entry that gives no memory: counted as reserved, or too small.
MemmapSkip ==
  /\ pc = "memmap" /\ i <= Len(memmap)
  /\ ~Donated(memmap[i])
  /\ counters' = IF memmap[i].usable
                 THEN counters
                 ELSE [counters EXCEPT !.reserved = @ + memmap[i].length \div PAGE_SIZE]
  /\ i' = i + 1
  /\ UNCHANGED <<memmap, heap, highest, pc, call, scan, pick, ret, message, held>>

PageCount_Unaligned(e) == e.length \div PAGE_SIZE
PageCount(e) == AlignedLength(e) \div PAGE_SIZE

MemmapAdd ==
  /\ pc = "memmap" /\ i <= Len(memmap)
  /\ Donated(memmap[i])
  /\ LET e == memmap[i]
         end == AlignedBase(e) + AlignedLength(e)
     IN /\ highest' = IF end > highest THEN end ELSE highest
        /\ counters' = [counters EXCEPT !.usable = @ + PageCount(e)]
        /\ size' = [size EXCEPT ![BlockOf(e)] = AlignedLength(e)]
        /\ next' = [next EXCEPT ![BlockOf(e)] = NULL]
        /\ EnterInsert(BlockOf(e))
  /\ i' = i + 1
  /\ UNCHANGED <<memmap, caller, count, pick, ret, message, held>>

MemmapEnd ==
  /\ pc = "memmap" /\ i > Len(memmap)
  /\ pc' = "coalesce" /\ current' = next[NULL]
  /\ UNCHANGED <<memmap, heap, stats, call, i, prev, pick, ret, message, held>>

-----------------------------------------------------------------------------
(* pmm_alloc_pages *)

AllocCall(n) ==
  /\ pc = "idle"
  /\ pc' = "search" /\ caller' = "alloc" /\ count' = n
  /\ prev' = NULL /\ current' = next[NULL]
  /\ best' = NULL /\ best_prev' = NULL
  /\ UNCHANGED <<memmap, heap, stats, block, i, ret, message, held>>

Fits_Strictly(b) == size[b] > Bytes(count)
Fits(b) == size[b] >= Bytes(count)

\* Is the block at b to replace the best one found so far?
Better_OrEqual(b) == Fits(b) /\ (best = NULL \/ size[b] <= size[best])
Better(b) == Fits(b) /\ (best = NULL \/ size[b] < size[best])

SearchStep ==
  /\ pc = "search" /\ current # NULL
  /\ IF Better(current)
     THEN best' = current /\ best_prev' = prev
     ELSE UNCHANGED pick
  /\ Advance
  /\ UNCHANGED <<memmap, heap, stats, pc, call, i, ret, message, held>>

AllocNone ==
  /\ pc = "search" /\ current = NULL
  /\ best = NULL
  /\ ret' = NULL
  /\ Return
  /\ UNCHANGED <<memmap, heap, stats, caller, i, message, held>>

\* Where the part of block b that is not given out begins.
Rest_OnePageOn(b) == b + PAGE_SIZE
Rest(b) == b + Bytes(count)

\* The block leaves the list, or its tail takes its place in it.
AllocTake ==
  /\ pc = "search" /\ current = NULL
  /\ best # NULL
  /\ LET bytes == Bytes(count)
         rest == Rest(best)
     IN /\ IF size[best] > bytes
           THEN /\ size' = [size EXCEPT ![rest] = size[best] - bytes]
                /\ next' = [next EXCEPT ![rest] = next[best], ![best_prev] = rest]
           ELSE /\ next' = [next EXCEPT ![best_prev] = next[best]]
                /\ UNCHANGED size
        /\ held' = held \cup Extent(best, bytes)
  /\ counters' = [counters EXCEPT !.in_use = @ + count]
  /\ ret' = best
  /\ Return
  /\ UNCHANGED <<memmap, highest, caller, i, message>>

-----------------------------------------------------------------------------
(* pmm_free_pages *)

\* !pmm_info.freelist || ptr < pmm_info.freelist
Invalid(ptr) == next[NULL] = NULL \/ ptr < next[NULL]
Unaligned(ptr) == ptr % PAGE_SIZE # 0

\* Callers free memory they own, page by page or in longer runs, or the null
\* address: unmap() passes it for a page table entry that maps nothing.
MayFree(ptr, n) == ptr = NULL \/ Extent(ptr, Bytes(n)) \subseteq held

FreePanic(ptr, n) ==
  /\ pc = "idle"
  /\ MayFree(ptr, n)
  /\ \/ Invalid(ptr) /\ Panic("invalid")
     \/ ~Invalid(ptr) /\ Unaligned(ptr) /\ Panic("unaligned")
  /\ caller' = "free" /\ count' = n /\ block' = ptr
  /\ UNCHANGED <<memmap, heap, stats, i, scan, pick, ret, held>>

FreeCall(ptr, n) ==
  /\ pc = "idle"
  /\ MayFree(ptr, n)
  /\ ~Invalid(ptr) /\ ~Unaligned(ptr)
  /\ size' = [size EXCEPT ![ptr] = Bytes(n)]
  /\ next' = [next EXCEPT ![ptr] = NULL]
  /\ held' = held \ Extent(ptr, Bytes(n))
  /\ caller' = "free" /\ count' = n
  /\ EnterInsert(ptr)
  /\ UNCHANGED <<memmap, stats, i, pick, ret, message>>

-----------------------------------------------------------------------------
(* The callers, and kpanic's last loop *)

\* An owner writes to its page, over the bytes where a header may have been.
CallerWrites(a) ==
  /\ pc = "idle"
  /\ \E g \in Garbage :
       /\ next' = [next EXCEPT ![a] = g]
       /\ size' = [size EXCEPT ![a] = g]
  /\ UNCHANGED <<memmap, stats, pc, call, i, scan, pick, ret, message, held>>

Halt == pc = "panic" /\ UNCHANGED vars

Step ==
  \/ InitPmm \/ MemmapSkip \/ MemmapAdd \/ MemmapEnd
  \/ InsertStep \/ InsertLink
  \/ CoalesceMerge \/ CoalesceAdvance \/ CoalesceEnd
  \/ SearchStep \/ AllocNone \/ AllocTake

Calls ==
  \/ \E n \in Counts : AllocCall(n)
  \/ \E n \in Counts, ptr \in held \cup {NULL} : FreePanic(ptr, n) \/ FreeCall(ptr, n)
  \/ \E a \in held \cap Cells : CallerWrites(a)

Next == Step \/ Calls \/ Halt

\* The processor executes the next instruction of a function it is in; nobody
\* is obliged to call.
Spec == Init /\ [][Next]_vars /\ WF_vars(Step)

-----------------------------------------------------------------------------
(* The free list as a set of blocks *)

\* b is the first block of B above address a, NULL if there is none.
Follows(B, a, b) ==
  IF b = NULL THEN \A c \in B : c <= a
              ELSE b \in B /\ b > a /\ \A c \in B : c <= a \/ c >= b

\* The list that starts at pmm_info.freelist visits exactly the blocks of B,
\* in the order of their addresses, and ends.
Chain(B) == \A a \in B \cup {NULL} : Follows(B, a, next[a])

Block(b) == Extent(b, size[b])
FreeBytes(B) == UNION {Block(b) : b \in B}

\* The block that insert_block_sorted has been given and not linked yet.
Transit == IF pc = "insert" THEN Block(block) ELSE {}

\* What the first k entries of the memory map put at the kernel's disposal.
Usable(k) == UNION {Donation(memmap[j]) : j \in {l \in 1 .. k : Donated(memmap[l])}}

Disjoint(B) == \A a, b \in B : a < b => a + size[a] <= b
Separated(B) == \A a, b \in B : a < b => a + size[a] < b

Partition(B) ==
  /\ \A b \in B : size[b] > 0
  /\ Disjoint(B)
  /\ FreeBytes(B) \cap held = {}
  /\ FreeBytes(B) \cap Transit = {}
  /\ Transit \cap held = {}
  /\ FreeBytes(B) \cup Transit \cup held = Usable(i - 1)

-----------------------------------------------------------------------------
(* Properties *)

\* Every variable has its type; no counter of pmm_info falls below zero.
TypeOK ==
  /\ memmap \in MemMaps
  /\ next \in [Addr -> Addr] /\ size \in [Addr -> Nat]
  /\ highest \in Nat
  /\ counters \in [usable : Nat, reserved : Nat, total : Nat, in_use : Nat]
  /\ pc \in {"boot", "memmap", "insert", "coalesce", "search", "idle", "panic"}
  /\ caller \in {"init", "alloc", "free"}
  /\ i \in 1 .. Len(memmap) + 1
  /\ count \in Counts \cup {0}
  /\ block \in Addr /\ prev \in Addr /\ current \in Addr
  /\ best \in Addr /\ best_prev \in Addr /\ ret \in Addr
  /\ message \in {"none", "memmap", "invalid", "unaligned"}
  /\ held \subseteq Addr

\* At every instruction the usable bytes are split between the free list, the
\* block being inserted and the callers: none is lost, none is in two places,
\* and the list is acyclic and sorted by address.
MemoryPartition == \E B \in SUBSET Cells : Chain(B) /\ Partition(B)

\* Between calls no two blocks of the free list touch, whatever the order in
\* which they were inserted (coalesce_free_list has left nothing to merge).
FullyCoalesced ==
  pc = "idle" => \E B \in SUBSET Cells : Chain(B) /\ Separated(B)

\* pmm_info.page_counters agree with the memory itself: pages_usable with the
\* memory map, pages_in_use with what callers own (a page being freed counts
\* until the end of pmm_free_pages), and pages_total covers the usable pages.
Accounting ==
  LET leaving == IF caller = "free" /\ pc \in {"insert", "coalesce"}
                 THEN Bytes(count) ELSE 0
  IN /\ counters.usable * PAGE_SIZE = Cardinality(Usable(i - 1))
     /\ counters.in_use * PAGE_SIZE = Cardinality(held) + leaving
     /\ pc \in {"idle", "search"} => counters.total >= counters.usable

\* pmm_alloc_pages gives the smallest block that is large enough, the one with
\* the lowest address when there are several.
BestFit ==
  [][pc = "search" /\ pc' = "idle" /\ ret' # NULL =>
       \E B \in SUBSET Cells :
         LET Large == {b \in B : size[b] >= Bytes(count)}
         IN /\ Chain(B)
            /\ ret' \in Large
            /\ \A b \in Large : size[b] >= size[ret']
            /\ \A b \in Large : size[b] = size[ret'] => b >= ret']_vars

\* The allocator writes no header into memory a caller owns, although every
\* header it ever wrote was in memory of that kind.
OwnedUntouched ==
  [][pc # "idle" => \A a \in held \cap Cells : next'[a] = next[a] /\ size'[a] = size[a]]_vars

\* Every call returns or panics: the loops over the list end.
CallsReturn == pc \notin {"idle", "panic"} ~> pc \in {"idle", "panic"}

\* What kpanic's text at pmm.c:243 says, "Attempted to free invalid memory!":
\* the address was not one a caller owned.
InvalidPanicIsForInvalidMemory == message = "invalid" => block \notin held

=============================================================================
