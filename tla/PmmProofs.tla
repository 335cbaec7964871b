------------------------------ MODULE PmmProofs ------------------------------
(***************************************************************************)
(* Proofs about Pmm, for every machine, memory map and set of callers: it  *)
(* keeps its types and its list, it implements PageAllocator, and its      *)
(* counters agree with the memory.                                         *)
(***************************************************************************)
EXTENDS PmmInvariant, PmmRefinement, FiniteSetTheorems, WellFoundedInduction, TLAPS

-----------------------------------------------------------------------------
(* Arithmetic *)

\* The size of a request callers make does not wrap around.
LEMMA BytesOfCount ==
  ASSUME NEW n \in Counts
  PROVE  /\ n \in Nat \ {0}
         /\ Bytes(n) = n * PAGE_SIZE
         /\ Bytes(n) \in Nat \ {0}
<1>1. n \in Nat \ {0} /\ n * PAGE_SIZE < WORD /\ PAGE_SIZE \in Nat \ {0} /\ WORD \in Nat \ {0}
  BY CountAssumption, MachineAssumption
<1>2. n * PAGE_SIZE \in Nat \ {0}
  BY <1>1
<1>3. (n * PAGE_SIZE) % WORD = n * PAGE_SIZE
  BY <1>1, <1>2
<1>. QED  BY <1>1, <1>2, <1>3 DEF Bytes

\* A whole number of pages past a page boundary is a page boundary.
LEMMA PageBoundary ==
  ASSUME NEW a \in Nat, a % PAGE_SIZE = 0, NEW n \in Nat
  PROVE  (a + n * PAGE_SIZE) % PAGE_SIZE = 0
<1>1. PAGE_SIZE \in Nat \ {0}
  BY MachineAssumption
<1>2. PICK k \in Nat : a = k * PAGE_SIZE
  BY <1>1
<1>3. a + n * PAGE_SIZE = (k + n) * PAGE_SIZE
  BY <1>1, <1>2
<1>4. ((k + n) * PAGE_SIZE) % PAGE_SIZE = 0
  BY <1>1, <1>2
<1>. QED  BY <1>3, <1>4


\* The number of whole pages in a size, and the size of a difference of pages.
LEMMA PagesOf ==
  ASSUME NEW x \in Nat
  PROVE  x \div PAGE_SIZE \in Nat
<1>1. PAGE_SIZE \in Nat \ {0}
  BY MachineAssumption
<1>. QED  BY <1>1

LEMMA FewerPages ==
  \A m, n, rest \in Nat :
    m * PAGE_SIZE = rest + n * PAGE_SIZE
      => m - n \in Nat /\ (m - n) * PAGE_SIZE = rest
<1>. SUFFICES ASSUME NEW m \in Nat, NEW n \in Nat, NEW rest \in Nat,
                     m * PAGE_SIZE = rest + n * PAGE_SIZE
              PROVE  m - n \in Nat /\ (m - n) * PAGE_SIZE = rest
  OBVIOUS
<1>1. PAGE_SIZE \in Nat \ {0}
  BY MachineAssumption
<1>2. (m - n) * PAGE_SIZE = m * PAGE_SIZE - n * PAGE_SIZE
  BY <1>1
<1>3. (m - n) * PAGE_SIZE = rest
  BY <1>1, <1>2
<1>4. m - n < 0 => (m - n) * PAGE_SIZE < 0
  BY <1>1
<1>. QED  BY <1>3, <1>4

-----------------------------------------------------------------------------
(* The free list *)

\* Cells and addresses are numbers, and no cell is the null address.
LEMMA CellsAreAddresses ==
  /\ Addr \subseteq Nat
  /\ Cells \subseteq Addr \ {NULL}
  /\ NULL \in Addr
  /\ \A c \in Cells : c > 0 /\ c % PAGE_SIZE = 0
BY MachineAssumption DEF Addr, Cells, NULL

\* Blocks begin at positive addresses and have sizes.
LEMMA BlockTypes ==
  ASSUME TypeOK, NEW B \in SUBSET Cells
  PROVE  \A b \in B : b \in Addr /\ b \in Nat \ {0} /\ size[b] \in Nat /\ next[b] \in Addr
BY CellsAreAddresses DEF TypeOK

\* What a cell of the list points to is a higher block, or nothing.
LEMMA ChainNext ==
  ASSUME NEW B \in SUBSET Cells, Chain(B), NEW a \in B \cup {NULL}
  PROVE  /\ next[a] \in B \cup {NULL}
         /\ next[a] # NULL => next[a] \in B /\ next[a] > a /\ \A c \in B : c <= a \/ c >= next[a]
         /\ next[a] = NULL => \A c \in B : c <= a
BY DEF Chain, Follows

\* A byte is free when it lies in one of the blocks.
LEMMA FreeByte ==
  ASSUME NEW B \in SUBSET Cells, NEW x
  PROVE  x \in FreeBytes(B) <=> \E b \in B : x \in Block(b)
BY DEF FreeBytes

\* The list and the split of the memory do not depend on the cursors.
LEMMA SameMemory ==
  ASSUME NEW B \in SUBSET Cells, Chain(B), Partition(B),
         UNCHANGED <<next, size, held>>,
         Usable(i - 1)' = Usable(i - 1), Transit' = Transit
  PROVE  Chain(B)' /\ Partition(B)'
<1>1. Chain(B)'
  BY DEF Chain, Follows
<1>2. FreeBytes(B)' = FreeBytes(B)
  BY DEF FreeBytes, Block, Extent
<1>3. Disjoint(B)'
  BY DEF Partition, Disjoint
<1>4. \A b \in B : size'[b] > 0
  BY DEF Partition
<1>. QED  BY <1>1, <1>2, <1>3, <1>4 DEF Partition

\* The usable memory known so far does not change unless i does.
LEMMA SameUsable ==
  ASSUME UNCHANGED <<memmap, i>>
  PROVE  Usable(i - 1)' = Usable(i - 1)
BY DEF Usable

\* All usable memory is in the address space.
LEMMA UsableAddr ==
  ASSUME TypeOK
  PROVE  Usable(i - 1) \subseteq Addr
<1>1. Len(memmap) \in Nat /\ i \in 1 .. Len(memmap) + 1
  BY MemMapAssumption DEF TypeOK
<1>2. \A j \in 1 .. i - 1 : j \in 1 .. Len(memmap)
  BY <1>1
<1>3. \A j \in 1 .. i - 1 : Donated(memmap[j]) => Donation(memmap[j]) \subseteq Addr
  BY <1>2, MemMapAssumption DEF TypeOK
<1>. QED  BY <1>3 DEF Usable

-----------------------------------------------------------------------------
(* The initial states *)

\* In every initial state the list is empty and nobody owns memory.
LEMMA InitInv == Init => IInv
<1>. SUFFICES ASSUME Init PROVE IInv
  OBVIOUS
<1>1. memmap \in MemMaps /\ memmap \in Seq(Entry) /\ Len(memmap) \in Nat
  BY MemMapAssumption DEF Init
<1>2. TypeOK
  <2>1. next \in [Addr -> Addr] /\ size \in [Addr -> Nat]
    BY GarbageAssumption, CellsAreAddresses DEF Init
  <2>2. i \in 1 .. Len(memmap) + 1
    BY <1>1 DEF Init
  <2>3. counters \in [usable : Nat, reserved : Nat, total : Nat, in_use : Nat]
    BY DEF Init
  <2>. QED  BY <1>1, <2>1, <2>2, <2>3, CellsAreAddresses DEF Init, TypeOK
<1>3. next[NULL] = NULL
  BY CellsAreAddresses, GarbageAssumption DEF Init
<1>4. ControlInv
  BY <1>3 DEF Init, ControlInv
<1>5. InUseInv
  BY FS_EmptySet, MachineAssumption DEF Init, InUseInv, Leaving
<1>6. ListInv({})
  <2>1. Chain({})
    BY <1>3 DEF Chain, Follows
  <2>2. Usable(i - 1) = {}
    BY DEF Init, Usable
  <2>3. FreeBytes({}) = {}
    BY DEF FreeBytes
  <2>4. Partition({})
    BY <2>2, <2>3 DEF Init, Partition, Disjoint, Transit
  <2>. QED  BY <2>1, <2>4 DEF Init, ListInv, InsertInv, CoalesceInv, SearchInv
<1>. QED  BY <1>2, <1>4, <1>5, <1>6 DEF IInv

\* A step that leaves the variables alone leaves the invariant alone.
LEMMA StutterInv == IInv /\ UNCHANGED vars => IInv'
<1>. SUFFICES ASSUME IInv, UNCHANGED vars PROVE IInv'
  OBVIOUS
<1>. USE DEF vars, heap, stats, scan, pick, call
<1>1. PICK B \in SUBSET Cells : ListInv(B)
  BY DEF IInv
<1>2. TypeOK'
  BY DEF IInv, TypeOK
<1>3. ControlInv' /\ InUseInv'
  BY DEF IInv, ControlInv, InUseInv, Leaving
<1>4. ListInv(B)'
  <2>1. Chain(B)' /\ Partition(B)'
    BY <1>1, SameMemory, SameUsable DEF ListInv, Transit, Block, Extent
  <2>2. InsertInv(B)' /\ CoalesceInv(B)' /\ SearchInv(B)'
    BY <1>1 DEF ListInv, InsertInv, CoalesceInv, SearchInv, BestSoFar, Passed, Fits
  <2>3. pc' \in {"idle", "search"} => Separated(B)'
    BY <1>1 DEF ListInv, Separated
  <2>. QED  BY <2>1, <2>2, <2>3 DEF ListInv
<1>. QED  BY <1>2, <1>3, <1>4 DEF IInv

-----------------------------------------------------------------------------
(* Steps of insert_block_sorted and coalesce_free_list *)

LEMMA InsertStepInv == IInv /\ InsertStep => IInv'
<1>. SUFFICES ASSUME IInv, InsertStep PROVE IInv'
  OBVIOUS
<1>. USE DEF heap, stats, scan, pick, call
<1>1. PICK B \in SUBSET Cells : ListInv(B)
  BY DEF IInv
<1>2. current \in B /\ prev \in B \cup {NULL} /\ current = next[prev] /\ current < block
  BY <1>1, ChainNext DEF ListInv, InsertInv, InsertStep, Before
<1>3. TypeOK'
  BY <1>2, CellsAreAddresses DEF IInv, TypeOK, InsertStep, Advance
<1>4. ControlInv' /\ InUseInv'
  BY DEF IInv, ControlInv, InUseInv, Leaving, InsertStep, Advance
<1>5. ListInv(B)'
  <2>1. Chain(B)' /\ Partition(B)'
    BY <1>1, SameMemory, SameUsable DEF ListInv, InsertStep, Transit, Block, Extent
  <2>2. InsertInv(B)'
    BY <1>1, <1>2 DEF ListInv, InsertInv, InsertStep, Advance
  <2>. QED  BY <2>1, <2>2 DEF ListInv, CoalesceInv, SearchInv, InsertStep
<1>. QED  BY <1>3, <1>4, <1>5 DEF IInv

LEMMA CoalesceAdvanceInv == IInv /\ CoalesceAdvance => IInv'
<1>. SUFFICES ASSUME IInv, CoalesceAdvance PROVE IInv'
  OBVIOUS
<1>. USE DEF heap, stats, scan, pick, call
<1>1. PICK B \in SUBSET Cells : ListInv(B)
  BY DEF IInv
<1>0. \A b \in B : b \in Nat \ {0} /\ size[b] \in Nat
  BY BlockTypes DEF IInv
<1>2. /\ current \in B /\ next[current] \in B /\ next[current] > current
      /\ \A c \in B : c <= current \/ c >= next[current]
  BY <1>1, ChainNext DEF ListInv, CoalesceInv, CoalesceAdvance
<1>3. TypeOK'
  BY <1>2, CellsAreAddresses DEF IInv, TypeOK, CoalesceAdvance
<1>4. ControlInv' /\ InUseInv'
  BY DEF IInv, ControlInv, InUseInv, Leaving, CoalesceAdvance
<1>5. ListInv(B)'
  <2>1. Chain(B)' /\ Partition(B)'
    BY <1>1, SameMemory, SameUsable DEF ListInv, CoalesceAdvance, Transit
  <2>2. CoalesceInv(B)'
    <3>1. current + size[current] < next[current]
      BY <1>0, <1>1, <1>2
      DEF ListInv, Partition, Disjoint, CoalesceAdvance, Touches
    <3>2. ASSUME NEW a \in B, NEW b \in B, a < b, a < next[current]
          PROVE  a + size[a] < b
      <4>1. a <= current
        BY <1>0, <1>2, <3>2
      <4>2. CASE a = current
        BY <1>0, <1>2, <3>1, <3>2, <4>2
      <4>3. CASE a < current
        BY <1>1, <3>2, <4>3 DEF ListInv, CoalesceInv, CoalesceAdvance
      <4>. QED  BY <1>0, <1>2, <4>1, <4>2, <4>3
    <3>. QED  BY <1>0, <1>2, <3>2 DEF CoalesceInv, CoalesceAdvance
  <2>. QED  BY <2>1, <2>2 DEF ListInv, InsertInv, SearchInv, CoalesceAdvance
<1>. QED  BY <1>3, <1>4, <1>5 DEF IInv

LEMMA CoalesceEndInv == IInv /\ CoalesceEnd => IInv'
<1>. SUFFICES ASSUME IInv, CoalesceEnd PROVE IInv'
  OBVIOUS
<1>. USE DEF heap, stats, scan, pick, call
<1>1. PICK B \in SUBSET Cells : ListInv(B)
  BY DEF IInv
<1>2. caller \in {"init", "free"} /\ (caller = "free" => count \in Counts)
  BY DEF IInv, ControlInv, CoalesceEnd
<1>3. /\ caller = "free" => counters.in_use - count \in Nat
      /\ InUseInv'
  <2>1. Cardinality(held) \in Nat
    <3>1. IsFiniteSet(Addr)
      BY FS_Interval, MachineAssumption DEF Addr
    <3>. QED  BY <3>1, FS_Subset, FS_CardinalityType DEF IInv, TypeOK
  <2>2. CASE caller = "init"
    <3>1. counters'.in_use = counters.in_use
      BY <2>2 DEF IInv, TypeOK, CoalesceEnd, LastCount
    <3>2. held' = held /\ Leaving' = Leaving
      BY <2>2 DEF Leaving, CoalesceEnd, Return
    <3>. QED  BY <2>2, <3>1, <3>2 DEF IInv, InUseInv
  <2>3. CASE caller = "free"
    <3>1. count \in Nat /\ Bytes(count) = count * PAGE_SIZE /\ PAGE_SIZE \in Nat \ {0}
      BY <1>2, <2>3, BytesOfCount, MachineAssumption
    <3>2. counters.in_use * PAGE_SIZE = Cardinality(held) + count * PAGE_SIZE
      BY <2>3, <3>1 DEF IInv, InUseInv, Leaving, CoalesceEnd
    <3>3. counters.in_use \in Nat
      BY DEF IInv, TypeOK
    <3>4. counters.in_use - count \in Nat /\ (counters.in_use - count) * PAGE_SIZE = Cardinality(held)
      <4>. DEFINE m == counters.in_use
                  rest == Cardinality(held)
      <4>1. m \in Nat /\ count \in Nat /\ rest \in Nat /\ m * PAGE_SIZE = rest + count * PAGE_SIZE
        BY <2>1, <3>1, <3>2, <3>3
      <4>. HIDE DEF m, rest
      <4>2. m - count \in Nat /\ (m - count) * PAGE_SIZE = rest
        BY <4>1, FewerPages
      <4>. QED  BY <4>2 DEF m, rest
    <3>6. counters'.in_use = counters.in_use - count
      BY <2>3 DEF IInv, TypeOK, CoalesceEnd, LastCount
    <3>7. held' = held /\ Leaving' = 0
      BY DEF Leaving, CoalesceEnd, Return
    <3>. QED  BY <2>1, <3>4, <3>6, <3>7 DEF InUseInv
  <2>. QED  BY <1>2, <2>2, <2>3
<1>4. counters' \in [usable : Nat, reserved : Nat, total : Nat, in_use : Nat]
  <2>1. highest \div PAGE_SIZE \in Nat
    BY PagesOf DEF IInv, TypeOK
  <2>2. CASE caller = "init"
    BY <2>1, <2>2 DEF IInv, TypeOK, CoalesceEnd, LastCount
  <2>3. CASE caller = "free"
    BY <1>3, <2>3 DEF IInv, TypeOK, CoalesceEnd, LastCount
  <2>. QED  BY <1>2, <2>2, <2>3
<1>5. TypeOK'
  BY <1>4, CellsAreAddresses DEF IInv, TypeOK, CoalesceEnd, Return
<1>6. ControlInv'
  BY <1>2 DEF IInv, TypeOK, ControlInv, CoalesceEnd, LastCount, Return
<1>7. ListInv(B)'
  <2>1. Chain(B)' /\ Partition(B)'
    BY <1>1, SameMemory, SameUsable DEF ListInv, CoalesceEnd, Return, Transit
  <2>2. Separated(B)
    <3>1. CASE current = NULL
      BY <1>1, <3>1 DEF ListInv, CoalesceInv, Separated, CoalesceEnd
    <3>2. CASE current # NULL /\ next[current] = NULL
      <4>1. current \in B /\ \A c \in B : c <= current
        BY <1>1, <3>2, ChainNext DEF ListInv, CoalesceInv, CoalesceEnd
      <4>. QED  BY <1>1, <4>1, CellsAreAddresses DEF ListInv, CoalesceInv, Separated, CoalesceEnd
    <3>. QED  BY <3>1, <3>2 DEF CoalesceEnd
  <2>3. Separated(B)'
    BY <2>2 DEF Separated, CoalesceEnd
  <2>. QED  BY <2>1, <2>3 DEF ListInv, InsertInv, CoalesceInv, SearchInv, CoalesceEnd, Return
<1>. QED  BY <1>3, <1>5, <1>6, <1>7 DEF IInv

\* insert_block_sorted puts the block between the two blocks its address is
\* between.
LEMMA InsertLinkInv == IInv /\ InsertLink => IInv'
<1>. SUFFICES ASSUME IInv, InsertLink PROVE IInv'
  OBVIOUS
<1>. USE DEF heap, stats, scan, pick, call
<1>1. PICK B \in SUBSET Cells : ListInv(B)
  BY DEF IInv
<1>2. \A b \in B : b \in Addr /\ b \in Nat \ {0} /\ size[b] \in Nat
  BY BlockTypes DEF IInv
<1>3. /\ block \in Cells /\ block \in Addr /\ block \in Nat \ {0}
      /\ size[block] \in Nat /\ size[block] > 0
      /\ prev \in B \cup {NULL} /\ prev \in Addr /\ prev \in Nat /\ prev < block
      /\ current = next[prev] /\ current \in B \cup {NULL} /\ current \in Addr
  <2>1. block \in Cells /\ size[block] > 0 /\ prev \in B \cup {NULL} /\ prev < block /\ current = next[prev]
    BY <1>1 DEF ListInv, InsertInv, InsertLink
  <2>2. current \in B \cup {NULL}
    BY <1>1, <2>1, ChainNext DEF ListInv
  <2>3. block \in Addr /\ block \in Nat \ {0} /\ size[block] \in Nat
    BY <2>1, CellsAreAddresses DEF IInv, TypeOK
  <2>4. prev \in Addr /\ current \in Addr /\ prev \in Nat
    BY CellsAreAddresses DEF IInv, TypeOK
  <2>. QED  BY <2>1, <2>2, <2>3, <2>4
<1>4. /\ Transit = Extent(block, size[block])
      /\ \A b \in B : Extent(b, size[b]) \cap Transit = {} /\ size[b] > 0
  BY <1>1, FreeByte DEF ListInv, Partition, Transit, Block, InsertLink
<1>5. \A b \in B : b # block /\ (b < block => b + size[b] <= block)
                               /\ (block < b => block + size[block] <= b)
  <2>1. TAKE b \in B
  <2>2. block \in Extent(block, size[block]) /\ b \in Extent(b, size[b])
    BY <1>2, <1>3, <1>4 DEF Extent
  <2>3. block \notin Extent(b, size[b]) /\ b \notin Extent(block, size[block])
    BY <1>4, <2>2
  <2>. QED  BY <1>2, <1>3, <2>2, <2>3 DEF Extent
<1>6. current = NULL \/ current > block
  BY <1>2, <1>3, <1>5 DEF InsertLink, Before
<1>7. /\ next'[block] = current /\ next'[prev] = block
      /\ \A a \in Addr \ {block, prev} : next'[a] = next[a]
      /\ next' \in [Addr -> Addr]
  <2>1. next' = [next EXCEPT ![block] = current, ![prev] = block] /\ next \in [Addr -> Addr]
    BY DEF InsertLink, IInv, TypeOK
  <2>. QED  BY <1>3, <2>1
<1>0. PICK B1 \in SUBSET Cells : B1 = B \cup {block}
  BY <1>3
<1>8. Chain(B1)'
  <2>1. SUFFICES ASSUME NEW a \in B1 \cup {NULL} PROVE Follows(B1, a, next'[a])
    BY DEF Chain, Follows
  <2>2. Follows(B, prev, current)
    BY <1>0, <1>1, <1>3 DEF ListInv, Chain
  <2>3. CASE a = prev
    BY <1>0, <1>2, <1>3, <1>6, <1>7, <2>2, <2>3 DEF Follows, NULL
  <2>4. CASE a = block
    BY <1>0, <1>2, <1>3, <1>6, <1>7, <2>2, <2>4 DEF Follows, NULL
  <2>5. CASE a # prev /\ a # block
    <3>1. a \in B \cup {NULL} /\ a \in Nat /\ next'[a] = next[a] /\ Follows(B, a, next[a])
      BY <1>0, <1>1, <1>2, <1>7, <2>5, CellsAreAddresses DEF ListInv, Chain, NULL
    <3>2. CASE next[a] = NULL
      BY <1>0, <1>2, <1>3, <1>6, <2>2, <2>5, <3>1, <3>2 DEF Follows, NULL
    <3>3. CASE next[a] # NULL
      <4>1. PICK e \in B : next[a] = e /\ e > a /\ \A c \in B : c <= a \/ c >= e
        BY <3>1, <3>3 DEF Follows
      <4>2. a \in Nat /\ prev \in Nat /\ block \in Nat /\ e \in Nat \ {0} /\ a # prev /\ prev < block
        BY <1>2, <1>3, <2>5, <3>1
      <4>3. block <= a \/ block >= e
        <5>1. CASE a < prev
          <6>1. prev \in B
            BY <1>3, <4>2, <5>1 DEF NULL
          <6>. QED  BY <4>1, <4>2, <5>1, <6>1
        <5>2. CASE a > prev
          <6>1. current \in B /\ a >= current
            BY <1>2, <1>3, <2>2, <3>1, <4>2, <5>2 DEF Follows, NULL
          <6>. QED  BY <1>2, <1>6, <4>2, <6>1 DEF NULL
        <5>. QED  BY <4>2, <5>1, <5>2
      <4>. QED  BY <1>0, <3>1, <4>1, <4>2, <4>3 DEF Follows, NULL
    <3>. QED  BY <3>2, <3>3
  <2>. QED  BY <2>3, <2>4, <2>5
<1>9. Partition(B1)'
  <2>1. UNCHANGED <<size, held, memmap, i>> /\ Transit' = {}
    BY DEF InsertLink, Transit
  <2>2. Usable(i - 1)' = Usable(i - 1)
    BY <2>1, SameUsable
  <2>3. \A b \in B1 : size'[b] > 0
    BY <1>0, <1>1, <1>3, <2>1 DEF ListInv, Partition
  <2>4. Disjoint(B1)'
    BY <1>0, <1>1, <1>2, <1>3, <1>5, <2>1 DEF ListInv, Partition, Disjoint
  <2>5. FreeBytes(B1)' = FreeBytes(B) \cup Transit
    BY <1>0, <1>4, <2>1 DEF FreeBytes, Block, Extent
  <2>. QED  BY <1>0, <1>1, <2>1, <2>2, <2>3, <2>4, <2>5 DEF ListInv, Partition
<1>10. TypeOK'
  <2>1. next'[NULL] \in Addr
    BY <1>7, CellsAreAddresses
  <2>2. pc' \in {"memmap", "coalesce"} /\ block' \in Addr /\ prev' \in Addr /\ current' \in Addr
    BY <2>1, CellsAreAddresses DEF InsertLink
  <2>. QED  BY <1>7, <2>2 DEF IInv, TypeOK, InsertLink
<1>11. ControlInv' /\ InUseInv'
  BY DEF IInv, ControlInv, InUseInv, Leaving, InsertLink
<1>12. CoalesceInv(B1)'
  <2>1. SUFFICES ASSUME pc' = "coalesce" PROVE CoalesceInv(B1)'
    BY DEF CoalesceInv
  <2>2. current' = next'[NULL] /\ Follows(B1, NULL, current')
    BY <1>8, <2>1 DEF InsertLink, Chain, Follows
  <2>3. current' \in B1 /\ \A c \in B1 : c >= current'
    BY <1>0, <1>2, <1>3, <2>2 DEF Follows, NULL
  <2>. QED  BY <1>0, <1>2, <1>3, <2>3 DEF CoalesceInv, NULL
<1>13. ListInv(B1)'
  BY <1>8, <1>9, <1>12 DEF ListInv, InsertInv, SearchInv, InsertLink
<1>. QED  BY <1>10, <1>11, <1>13 DEF IInv

\* coalesce_free_list joins a block with the next one when the two touch.
LEMMA CoalesceMergeInv == IInv /\ CoalesceMerge => IInv'
<1>. SUFFICES ASSUME IInv, CoalesceMerge PROVE IInv'
  OBVIOUS
<1>. USE DEF heap, stats, scan, pick, call
<1>1. PICK B \in SUBSET Cells : ListInv(B)
  BY DEF IInv
<1>2. \A b \in B : b \in Addr /\ b \in Nat \ {0} /\ size[b] \in Nat /\ next[b] \in Addr
  BY BlockTypes DEF IInv
<1>a. PICK d : d = next[current]
  OBVIOUS
<1>b. PICK B1 \in SUBSET Cells : B1 = B \ {d}
  OBVIOUS
<1>3. /\ current \in B /\ d \in B /\ d > current /\ current + size[current] = d
      /\ \A c \in B : c <= current \/ c >= d
  BY <1>a, <1>1, ChainNext DEF ListInv, CoalesceInv, CoalesceMerge, Touches
<1>4. /\ next'[current] = next[d] /\ size'[current] = size[current] + size[d]
      /\ \A a \in Addr \ {current} : next'[a] = next[a] /\ size'[a] = size[a]
      /\ next' \in [Addr -> Addr] /\ size' \in [Addr -> Nat]
  <2>1. /\ next \in [Addr -> Addr] /\ size \in [Addr -> Nat]
        /\ next' = [next EXCEPT ![current] = next[d]]
        /\ size' = [size EXCEPT ![current] = size[current] + size[d]]
    BY <1>a DEF CoalesceMerge, IInv, TypeOK
  <2>. QED  BY <1>2, <1>3, <2>1
<1>5. current \in B1
  BY <1>b, <1>2, <1>3
<1>6. Chain(B1)'
  <2>1. SUFFICES ASSUME NEW a \in B1 \cup {NULL} PROVE Follows(B1, a, next'[a])
    BY DEF Chain, Follows
  <2>2. CASE a = current
    <3>1. Follows(B, d, next[d])
      BY <1>b, <1>1, <1>3 DEF ListInv, Chain
    <3>2. CASE next[d] = NULL
      BY <1>b, <1>2, <1>3, <1>4, <2>2, <3>1, <3>2 DEF Follows, NULL
    <3>3. CASE next[d] # NULL
      BY <1>b, <1>2, <1>3, <1>4, <2>2, <3>1, <3>3 DEF Follows, NULL
    <3>. QED  BY <3>2, <3>3
  <2>3. CASE a # current
    <3>1. a \in B \cup {NULL} /\ a \in Nat /\ next'[a] = next[a] /\ Follows(B, a, next[a])
      BY <1>b, <1>1, <1>2, <1>4, <2>3, CellsAreAddresses DEF ListInv, Chain, NULL
    <3>2. next[a] # d
      BY <1>b, <1>2, <1>3, <2>3, <3>1 DEF Follows, NULL
    <3>. QED  BY <1>b, <1>2, <3>1, <3>2 DEF Follows, NULL
  <2>. QED  BY <2>2, <2>3
<1>7. Partition(B1)'
  <2>1. UNCHANGED <<held, memmap, i>> /\ Transit' = Transit
    BY DEF CoalesceMerge, Transit
  <2>2. Usable(i - 1)' = Usable(i - 1)
    BY <2>1, SameUsable
  <2>3. \A b \in B1 : size'[b] > 0
    BY <1>b, <1>1, <1>2, <1>3, <1>4 DEF ListInv, Partition
  <2>4. Disjoint(B1)'
    <3>1. SUFFICES ASSUME NEW a \in B1, NEW b \in B1, a < b PROVE a + size'[a] <= b
      BY DEF Disjoint
    <3>2. \A x, y \in B : x < y => x + size[x] <= y
      BY <1>1 DEF ListInv, Partition, Disjoint
    <3>3. CASE a = current
      <4>1. d < b /\ d + size[d] <= b
        BY <1>b, <1>2, <1>3, <3>1, <3>2, <3>3
      <4>. QED  BY <1>b, <1>2, <1>3, <1>4, <3>3, <4>1
    <3>4. CASE a # current
      BY <1>b, <1>2, <1>4, <3>1, <3>2, <3>4
    <3>. QED  BY <3>3, <3>4
  <2>5. FreeBytes(B1)' = FreeBytes(B)
    <3>1. Extent(current, size'[current]) = Extent(current, size[current]) \cup Extent(d, size[d])
      BY <1>b, <1>2, <1>3, <1>4 DEF Extent
    <3>2. \A b \in B1 \ {current} : Extent(b, size'[b]) = Extent(b, size[b])
      BY <1>b, <1>2, <1>4
    <3>. QED  BY <1>b, <1>3, <1>5, <3>1, <3>2 DEF FreeBytes, Block
  <2>. QED  BY <1>b, <1>1, <2>1, <2>2, <2>3, <2>4, <2>5 DEF ListInv, Partition
<1>8. TypeOK'
  BY <1>4 DEF IInv, TypeOK, CoalesceMerge
<1>9. ControlInv' /\ InUseInv'
  BY DEF IInv, ControlInv, InUseInv, Leaving, CoalesceMerge
<1>10. CoalesceInv(B1)'
  <2>1. current' = current /\ current # NULL
    BY DEF CoalesceMerge
  <2>2. \A a, b \in B : a < b /\ a < current => a + size[a] < b
    BY <1>1 DEF ListInv, CoalesceInv, CoalesceMerge
  <2>. QED  BY <1>b, <1>2, <1>4, <1>5, <2>1, <2>2 DEF CoalesceInv
<1>11. ListInv(B1)'
  BY <1>b, <1>6, <1>7, <1>10 DEF ListInv, InsertInv, SearchInv, CoalesceMerge
<1>. QED  BY <1>8, <1>9, <1>11 DEF IInv

-----------------------------------------------------------------------------
(* Sets of bytes *)

\* A run of n bytes has n members.
LEMMA ExtentSize ==
  ASSUME NEW a \in Nat, NEW n \in Nat \ {0}
  PROVE  IsFiniteSet(Extent(a, n)) /\ Cardinality(Extent(a, n)) = n
<1>1. a \in Int /\ a + n - 1 \in Int /\ ~(a > a + n - 1) /\ (a + n - 1) - a + 1 = n
  OBVIOUS
<1>. QED  BY <1>1, FS_Interval DEF Extent

\* What callers own is finite.
LEMMA HeldFinite ==
  ASSUME TypeOK
  PROVE  IsFiniteSet(held) /\ Cardinality(held) \in Nat
<1>1. IsFiniteSet(Addr)
  BY FS_Interval, MachineAssumption DEF Addr
<1>. QED  BY <1>1, FS_Subset, FS_CardinalityType DEF TypeOK

-----------------------------------------------------------------------------
(* Steps of init_pmm *)

LEMMA InitPmmInv == IInv /\ InitPmm => IInv'
<1>. SUFFICES ASSUME IInv, InitPmm PROVE IInv'
  OBVIOUS
<1>. USE DEF heap, stats, scan, pick, call, Panic
<1>1. PICK B \in SUBSET Cells : ListInv(B)
  BY DEF IInv
<1>2. next' = next
  BY DEF IInv, TypeOK, ControlInv, InitPmm
<1>3. TypeOK'
  BY <1>2 DEF IInv, TypeOK, InitPmm
<1>4. ControlInv' /\ InUseInv'
  BY DEF IInv, ControlInv, InUseInv, Leaving, InitPmm
<1>5. ListInv(B)'
  <2>1. Chain(B)' /\ Partition(B)'
    BY <1>1, <1>2, SameMemory, SameUsable DEF ListInv, InitPmm, Transit
  <2>. QED  BY <2>1 DEF ListInv, InsertInv, CoalesceInv, SearchInv, InitPmm
<1>. QED  BY <1>3, <1>4, <1>5 DEF IInv

\* What the next entry of the memory map adds to the usable memory: its whole
\* pages, none of which an earlier entry described.
LEMMA NextEntry ==
  ASSUME TypeOK, i <= Len(memmap), memmap' = memmap, i' = i + 1
  PROVE  /\ memmap \in Seq(Entry) /\ memmap[i] \in Entry /\ Len(memmap) \in Nat
         /\ i' \in 1 .. Len(memmap) + 1
         /\ ~Donated(memmap[i]) => Usable(i - 1)' = Usable(i - 1)
         /\ Donated(memmap[i]) => /\ Usable(i - 1)' = Usable(i - 1) \cup Donation(memmap[i])
                                  /\ Usable(i - 1) \cap Donation(memmap[i]) = {}
<1>1. memmap \in Seq(Entry) /\ Len(memmap) \in Nat /\ i \in 1 .. Len(memmap)
  BY MemMapAssumption DEF TypeOK
<1>2. memmap[i] \in Entry
  BY <1>1
<1>3. Usable(i - 1)' = UNION {Donation(memmap[j]) : j \in {l \in 1 .. i : Donated(memmap[l])}}
  BY <1>1 DEF Usable
<1>4. Usable(i - 1) = UNION {Donation(memmap[j]) : j \in {l \in 1 .. i - 1 : Donated(memmap[l])}}
  BY DEF Usable
<1>5. 1 .. i = (1 .. i - 1) \cup {i}
  BY <1>1
<1>6. \A j \in 1 .. i - 1 : j \in 1 .. Len(memmap) /\ j # i
  BY <1>1
<1>7. Donated(memmap[i]) => \A j \in 1 .. i - 1 :
        Donated(memmap[j]) => Donation(memmap[j]) \cap Donation(memmap[i]) = {}
  BY <1>1, <1>6, MemMapAssumption DEF TypeOK
<1>8. i' \in 1 .. Len(memmap) + 1
  BY <1>1
<1>9. ~Donated(memmap[i]) => Usable(i - 1)' = Usable(i - 1)
  BY <1>3, <1>4, <1>5
<1>10. Donated(memmap[i]) => Usable(i - 1)' = Usable(i - 1) \cup Donation(memmap[i])
  BY <1>3, <1>4, <1>5
<1>11. Donated(memmap[i]) => Usable(i - 1) \cap Donation(memmap[i]) = {}
  BY <1>4, <1>7
<1>. QED  BY <1>1, <1>2, <1>8, <1>9, <1>10, <1>11

LEMMA MemmapSkipInv == IInv /\ MemmapSkip => IInv'
<1>. SUFFICES ASSUME IInv, MemmapSkip PROVE IInv'
  OBVIOUS
<1>. USE DEF heap, stats, scan, pick, call
<1>1. PICK B \in SUBSET Cells : ListInv(B)
  BY DEF IInv
<1>2. memmap[i] \in Entry /\ i' \in 1 .. Len(memmap) + 1 /\ Usable(i - 1)' = Usable(i - 1)
  BY NextEntry DEF IInv, MemmapSkip
<1>3. /\ counters' \in [usable : Nat, reserved : Nat, total : Nat, in_use : Nat]
      /\ counters'.in_use = counters.in_use
  <2>1. memmap[i].length \div PAGE_SIZE \in Nat
    <3>1. memmap[i].length \in Nat
      BY <1>2, MachineAssumption DEF Entry
    <3>. QED  BY <3>1, PagesOf
  <2>2. CASE memmap[i].usable
    <3>1. counters' = counters
      BY <2>2 DEF MemmapSkip
    <3>. QED  BY <3>1 DEF IInv, TypeOK
  <2>3. CASE ~memmap[i].usable
    <3>1. PICK k \in Nat : k = memmap[i].length \div PAGE_SIZE
      BY <2>1
    <3>2. counters' = [counters EXCEPT !.reserved = @ + k]
      BY <2>3, <3>1 DEF MemmapSkip
    <3>3. counters \in [usable : Nat, reserved : Nat, total : Nat, in_use : Nat]
      BY DEF IInv, TypeOK
    <3>. QED  BY <3>2, <3>3
  <2>. QED  BY <2>2, <2>3
<1>4. TypeOK'
  BY <1>2, <1>3 DEF IInv, TypeOK, MemmapSkip
<1>5. ControlInv' /\ InUseInv'
  BY <1>3 DEF IInv, ControlInv, InUseInv, Leaving, MemmapSkip
<1>6. ListInv(B)'
  <2>1. Chain(B)' /\ Partition(B)'
    BY <1>1, <1>2, SameMemory DEF ListInv, MemmapSkip, Transit
  <2>. QED  BY <2>1 DEF ListInv, InsertInv, CoalesceInv, SearchInv, MemmapSkip
<1>. QED  BY <1>4, <1>5, <1>6 DEF IInv

LEMMA MemmapEndInv == IInv /\ MemmapEnd => IInv'
<1>. SUFFICES ASSUME IInv, MemmapEnd PROVE IInv'
  OBVIOUS
<1>. USE DEF heap, stats, scan, pick, call
<1>1. PICK B \in SUBSET Cells : ListInv(B)
  BY DEF IInv
<1>2. next[NULL] \in Addr
  BY CellsAreAddresses DEF IInv, TypeOK
<1>3. TypeOK'
  BY <1>2 DEF IInv, TypeOK, MemmapEnd
<1>4. ControlInv' /\ InUseInv'
  BY DEF IInv, ControlInv, InUseInv, Leaving, MemmapEnd
<1>5. ListInv(B)'
  <2>1. Chain(B)' /\ Partition(B)'
    BY <1>1, SameMemory, SameUsable DEF ListInv, MemmapEnd, Transit
  <2>2. current' \in B \cup {NULL} /\ (current' = NULL => B = {})
        /\ (current' # NULL => \A c \in B : c >= current')
    <3>1. \A c \in B : c \in Nat \ {0}
      BY BlockTypes DEF IInv
    <3>2. Follows(B, NULL, current') /\ current' = next[NULL]
      BY <1>1 DEF ListInv, Chain, MemmapEnd
    <3>. QED  BY <3>1, <3>2 DEF Follows, NULL
  <2>3. CoalesceInv(B)'
    <3>1. \A c \in B : c \in Nat \ {0}
      BY BlockTypes DEF IInv
    <3>. QED  BY <2>2, <3>1 DEF CoalesceInv, NULL
  <2>. QED  BY <2>1, <2>3 DEF ListInv, InsertInv, SearchInv, MemmapEnd
<1>. QED  BY <1>3, <1>4, <1>5 DEF IInv

\* Rounding down to a page gives a number.
LEMMA AlignDownNat ==
  ASSUME NEW x \in Nat
  PROVE  AlignDown(x) \in Nat
<1>1. PAGE_SIZE \in Nat \ {0}
  BY MachineAssumption
<1>2. x % PAGE_SIZE \in Nat /\ x % PAGE_SIZE <= x
  BY <1>1
<1>. QED  BY <1>2 DEF AlignDown

LEMMA AlignedTypes ==
  ASSUME NEW e \in Entry
  PROVE  AlignedBase(e) \in Nat /\ AlignedLength(e) \in Nat
<1>1. e.base \in Nat /\ e.length \in Nat /\ WORD \in Nat \ {0} /\ PAGE_SIZE \in Nat \ {0}
  BY MachineAssumption DEF Entry
<1>2. (e.base + PAGE_SIZE - 1) % WORD \in Nat
  BY <1>1
<1>3. AlignedBase(e) \in Nat
  BY <1>2, AlignDownNat DEF AlignedBase
<1>4. (e.length - (AlignedBase(e) - e.base)) % WORD \in Nat
  BY <1>1, <1>3
<1>. QED  BY <1>3, <1>4, AlignDownNat DEF AlignedLength

LEMMA MemmapAddInv == IInv /\ MemmapAdd => IInv'
<1>. SUFFICES ASSUME IInv, MemmapAdd PROVE IInv'
  OBVIOUS
<1>. USE DEF heap, stats, scan, pick, call, EnterInsert
<1>1. PICK B \in SUBSET Cells : ListInv(B)
  BY DEF IInv
<1>2. /\ memmap \in Seq(Entry) /\ memmap[i] \in Entry /\ Len(memmap) \in Nat
      /\ i \in 1 .. Len(memmap) /\ i' \in 1 .. Len(memmap) + 1
      /\ Usable(i - 1)' = Usable(i - 1) \cup Donation(memmap[i])
      /\ Usable(i - 1) \cap Donation(memmap[i]) = {}
  <2>1. TypeOK /\ i <= Len(memmap) /\ memmap' = memmap /\ i' = i + 1 /\ Donated(memmap[i])
    BY DEF IInv, MemmapAdd
  <2>2. i \in 1 .. Len(memmap) + 1
    BY DEF IInv, TypeOK
  <2>3. Len(memmap) \in Nat /\ i \in 1 .. Len(memmap)
    BY <2>1, <2>2, NextEntry
  <2>. QED  BY <2>1, <2>3, NextEntry
<1>3. PICK b : b = BlockOf(memmap[i])
  OBVIOUS
<1>4. PICK n : n = AlignedLength(memmap[i])
  OBVIOUS
<1>5. /\ b \in Cells /\ b \in Addr /\ b \in Nat \ {0} /\ n \in Nat \ {0}
      /\ Donation(memmap[i]) = Extent(b, n) /\ Extent(b, n) \subseteq Addr
  <2>1. b \in Cells /\ Extent(b, n) \subseteq Addr /\ Donation(memmap[i]) = Extent(b, n)
    BY <1>2, <1>3, <1>4, MemMapAssumption DEF IInv, TypeOK, MemmapAdd, Donation
  <2>2. n \in Nat \ {0}
    BY <1>2, <1>4, AlignedTypes, MachineAssumption DEF MemmapAdd, Donated
  <2>. QED  BY <2>1, <2>2, CellsAreAddresses
<1>6. /\ caller = "init" /\ held = {} /\ counters.in_use = 0
      /\ Transit = {} /\ FreeBytes(B) \cup Transit \cup held = Usable(i - 1)
  BY <1>1 DEF IInv, ControlInv, ListInv, Partition, Transit, MemmapAdd
<1>7. b \in Extent(b, n) /\ b \notin B
  <2>1. b \in Extent(b, n)
    BY <1>5 DEF Extent
  <2>2. b \notin FreeBytes(B)
    BY <1>2, <1>5, <1>6, <2>1
  <2>3. \A c \in B : c \in FreeBytes(B)
    BY <1>1, BlockTypes DEF IInv, ListInv, Partition, FreeBytes, Block, Extent
  <2>. QED  BY <2>1, <2>2, <2>3
<1>8. /\ next' = [next EXCEPT ![b] = NULL] /\ size' = [size EXCEPT ![b] = n]
      /\ pc' = "insert" /\ block' = b /\ prev' = NULL /\ current' = next[NULL]
      /\ UNCHANGED <<memmap, caller, count, pick, ret, message, held>>
  BY <1>3, <1>4 DEF MemmapAdd
<1>9. /\ next' \in [Addr -> Addr] /\ size' \in [Addr -> Nat] /\ next[NULL] \in Addr
      /\ size'[b] = n
      /\ \A a \in Addr \ {b} : next'[a] = next[a] /\ size'[a] = size[a]
  BY <1>5, <1>8, CellsAreAddresses DEF IInv, TypeOK
<1>10. highest' \in Nat
  <2>1. AlignedBase(memmap[i]) + AlignedLength(memmap[i]) \in Nat
    BY <1>2, AlignedTypes
  <2>. QED  BY <2>1 DEF IInv, TypeOK, MemmapAdd
<1>11. /\ counters' \in [usable : Nat, reserved : Nat, total : Nat, in_use : Nat]
       /\ counters'.in_use = 0
  <2>1. PageCount(memmap[i]) \in Nat
    BY <1>2, AlignedTypes, PagesOf DEF PageCount
  <2>2. PICK k \in Nat : k = PageCount(memmap[i])
    BY <2>1
  <2>3. counters' = [counters EXCEPT !.usable = @ + k]
    BY <2>2 DEF MemmapAdd
  <2>4. counters \in [usable : Nat, reserved : Nat, total : Nat, in_use : Nat]
    BY DEF IInv, TypeOK
  <2>. QED  BY <1>6, <2>3, <2>4
<1>12. TypeOK'
  BY <1>2, <1>5, <1>8, <1>9, <1>10, <1>11, CellsAreAddresses DEF IInv, TypeOK
<1>13. ControlInv' /\ InUseInv'
  <2>1. Leaving = 0 /\ Leaving' = 0
    BY <1>6, <1>8 DEF Leaving
  <2>2. ControlInv'
    BY <1>6, <1>8, <1>11 DEF ControlInv
  <2>. QED  BY <1>6, <1>8, <1>11, <2>1, <2>2 DEF IInv, InUseInv
<1>14. ListInv(B)'
  <2>1. \A c \in B \cup {NULL} : c \in Addr \ {b}
    BY <1>5, <1>7, CellsAreAddresses DEF NULL
  <2>2. Chain(B)'
    BY <1>1, <1>9, <2>1 DEF ListInv, Chain, Follows
  <2>3. FreeBytes(B)' = FreeBytes(B)
    BY <1>9, <2>1 DEF FreeBytes, Block, Extent
  <2>4. Transit' = Extent(b, n)
    BY <1>8, <1>9 DEF Transit, Block, Extent
  <2>5. Disjoint(B)' /\ \A c \in B : size'[c] > 0
    BY <1>1, <1>9, <2>1 DEF ListInv, Partition, Disjoint
  <2>6. Partition(B)'
    BY <1>2, <1>5, <1>6, <1>8, <2>3, <2>4, <2>5 DEF Partition
  <2>7. InsertInv(B)'
    BY <1>5, <1>8, <1>9, <2>1 DEF InsertInv, NULL
  <2>. QED  BY <1>8, <2>2, <2>6, <2>7 DEF ListInv, CoalesceInv, SearchInv
<1>. QED  BY <1>12, <1>13, <1>14 DEF IInv

-----------------------------------------------------------------------------
(* Steps of pmm_alloc_pages *)

LEMMA AllocCallInv ==
  ASSUME NEW n \in Counts
  PROVE  IInv /\ AllocCall(n) => IInv'
<1>. SUFFICES ASSUME IInv, AllocCall(n) PROVE IInv'
  OBVIOUS
<1>. USE DEF heap, stats, scan, pick, call
<1>1. PICK B \in SUBSET Cells : ListInv(B)
  BY DEF IInv
<1>2. next[NULL] \in Addr
  BY CellsAreAddresses DEF IInv, TypeOK
<1>3. TypeOK'
  BY <1>2, CellsAreAddresses DEF IInv, TypeOK, AllocCall
<1>4. ControlInv' /\ InUseInv'
  BY DEF IInv, ControlInv, InUseInv, Leaving, AllocCall
<1>5. ListInv(B)'
  <2>1. Chain(B)' /\ Partition(B)'
    BY <1>1, SameMemory, SameUsable DEF ListInv, AllocCall, Transit
  <2>2. Separated(B)'
    BY <1>1 DEF ListInv, Separated, AllocCall
  <2>3. SearchInv(B)'
    <3>1. \A b \in B : b \in Nat \ {0}
      BY BlockTypes DEF IInv
    <3>2. current' = next'[NULL] /\ current' \in B \cup {NULL} /\ Follows(B, NULL, current')
      BY <1>1, ChainNext DEF ListInv, Chain, AllocCall
    <3>3. \A b \in B : ~(current' = NULL \/ b < current')
      BY <3>1, <3>2 DEF Follows, NULL
    <3>. QED  BY <3>2, <3>3 DEF SearchInv, BestSoFar, Passed, AllocCall
  <2>. QED  BY <2>1, <2>2, <2>3 DEF ListInv, InsertInv, CoalesceInv, AllocCall
<1>. QED  BY <1>3, <1>4, <1>5 DEF IInv

LEMMA AllocNoneInv == IInv /\ AllocNone => IInv'
<1>. SUFFICES ASSUME IInv, AllocNone PROVE IInv'
  OBVIOUS
<1>. USE DEF heap, stats, scan, pick, call, Return
<1>1. PICK B \in SUBSET Cells : ListInv(B)
  BY DEF IInv
<1>2. TypeOK'
  BY CellsAreAddresses DEF IInv, TypeOK, AllocNone
<1>3. ControlInv' /\ InUseInv'
  BY DEF IInv, ControlInv, InUseInv, Leaving, AllocNone
<1>4. ListInv(B)'
  <2>1. Chain(B)' /\ Partition(B)'
    BY <1>1, SameMemory, SameUsable DEF ListInv, AllocNone, Transit
  <2>2. Separated(B)'
    BY <1>1 DEF ListInv, Separated, AllocNone
  <2>. QED  BY <2>1, <2>2 DEF ListInv, InsertInv, CoalesceInv, SearchInv, AllocNone
<1>. QED  BY <1>2, <1>3, <1>4 DEF IInv

\* The search has then seen one block more, and still holds the best fit.
LEMMA SearchStepInv == IInv /\ SearchStep => IInv'
<1>. SUFFICES ASSUME IInv, SearchStep PROVE IInv'
  OBVIOUS
<1>. USE DEF heap, stats, scan, pick, call, Advance
<1>1. PICK B \in SUBSET Cells : ListInv(B)
  BY DEF IInv
<1>2. \A b \in B : b \in Addr /\ b \in Nat \ {0} /\ size[b] \in Nat
  BY BlockTypes DEF IInv
<1>3. /\ count \in Counts /\ current \in B /\ prev \in B \cup {NULL}
      /\ next[prev] = current /\ BestSoFar(B)
  BY <1>1 DEF ListInv, SearchInv, SearchStep
<1>4. /\ next[current] \in Addr /\ next[current] \in B \cup {NULL}
      /\ Follows(B, current, next[current])
  BY <1>1, <1>3, CellsAreAddresses, ChainNext DEF ListInv, Chain, IInv, TypeOK
<1>5. /\ prev' = current /\ current' = next[current] /\ count' = count
      /\ IF Better(current) THEN best' = current /\ best_prev' = prev
                            ELSE best' = best /\ best_prev' = best_prev
      /\ UNCHANGED <<memmap, next, size, highest, counters, pc, caller, block, i, ret, message, held>>
  BY DEF SearchStep
<1>6. TypeOK'
  BY <1>4, <1>5 DEF IInv, TypeOK
<1>7. ControlInv' /\ InUseInv'
  BY <1>5 DEF IInv, ControlInv, InUseInv, Leaving
<1>8. \A b \in B : Passed(b)' <=> Passed(b) \/ b = current
  <2>1. \A b \in B : current = NULL \/ b < current \/ b = current <=> b <= current
    BY <1>2, <1>3 DEF NULL
  <2>2. \A b \in B : b <= current <=> next[current] = NULL \/ b < next[current]
    <3>1. CASE next[current] = NULL
      BY <1>4, <3>1 DEF Follows
    <3>2. CASE next[current] # NULL
      BY <1>2, <1>3, <1>4, <3>2 DEF Follows
    <3>. QED  BY <3>1, <3>2
  <2>. QED  BY <1>5, <2>1, <2>2 DEF Passed
<1>9. /\ ~Passed(current) /\ \A b \in B : Fits(b)' <=> Fits(b)
      /\ \A b \in B : Passed(b) => b < current
  BY <1>2, <1>3, <1>5 DEF Passed, Fits, NULL
<1>10. SearchInv(B)'
  <2>1. BestSoFar(B)'
    <3>1. CASE Better(current)
      <4>1. best' = current /\ best_prev' = prev /\ best' # NULL /\ Fits(current)
        BY <1>2, <1>3, <1>5, <3>1 DEF Better, NULL
      <4>2. \A b \in B : Passed(b) /\ Fits(b) => size[b] > size[current]
        BY <1>2, <1>3, <3>1 DEF Better, BestSoFar
      <4>3. \A b \in B : b = current => Passed(b)' /\ Fits(b)'
        BY <1>3, <1>8, <1>9, <4>1
      <4>4. \A b \in B : (Passed(b) /\ Fits(b))' =>
               size'[b] >= size'[current] /\ (size'[b] = size'[current] => b >= current)
        BY <1>2, <1>3, <1>5, <1>8, <1>9, <4>2
      <4>. QED  BY <1>3, <1>5, <4>1, <4>3, <4>4 DEF BestSoFar, Passed, Fits
    <3>2. CASE ~Better(current)
      <4>1. best' = best /\ best_prev' = best_prev
        BY <1>5, <3>2
      <4>2. CASE best = NULL
        BY <1>3, <1>8, <1>9, <3>2, <4>1, <4>2 DEF BestSoFar, Better
      <4>3. CASE best # NULL
        <5>1. /\ best \in B /\ Passed(best) /\ Fits(best) /\ best < current
              /\ best_prev \in B \cup {NULL} /\ next[best_prev] = best
          BY <1>3, <1>9, <4>3 DEF BestSoFar
        <5>2. Fits(current) => size[current] >= size[best]
          BY <1>2, <1>3, <3>2, <4>3, <5>1 DEF Better
        <5>3. \A b \in B : b = best => Passed(b)' /\ Fits(b)'
          BY <1>8, <1>9, <5>1
        <5>4. \A b \in B : (Passed(b) /\ Fits(b))' =>
                 size'[b] >= size'[best] /\ (size'[b] = size'[best] => b >= best)
          <6>1. TAKE b \in B
          <6>2. CASE b = current
            BY <1>2, <1>3, <1>5, <1>9, <5>1, <5>2, <6>2
          <6>3. CASE b # current
            BY <1>3, <1>5, <1>8, <1>9, <4>3, <6>3 DEF BestSoFar
          <6>. QED  BY <6>2, <6>3
        <5>. QED  BY <1>5, <4>1, <4>3, <5>1, <5>3, <5>4 DEF BestSoFar, Passed, Fits
      <4>. QED  BY <4>2, <4>3
    <3>. QED  BY <3>1, <3>2
  <2>. QED  BY <1>3, <1>4, <1>5, <2>1 DEF SearchInv
<1>11. ListInv(B)'
  <2>1. Chain(B)' /\ Partition(B)'
    BY <1>1, <1>5, SameMemory, SameUsable DEF ListInv, Transit, SearchStep
  <2>2. Separated(B)'
    BY <1>1, <1>5 DEF ListInv, Separated, SearchStep
  <2>. QED  BY <1>5, <1>10, <2>1, <2>2 DEF ListInv, InsertInv, CoalesceInv, SearchStep
<1>. QED  BY <1>6, <1>7, <1>11 DEF IInv

\* Taking a block out of the list, or putting its tail in its place.
LEMMA AllocTakeInv == IInv /\ AllocTake => IInv'
<1>. SUFFICES ASSUME IInv, AllocTake PROVE IInv'
  OBVIOUS
<1>. USE DEF heap, stats, scan, pick, call, Return
<1>1. PICK B \in SUBSET Cells : ListInv(B)
  BY DEF IInv
<1>2. \A b \in B : b \in Cells /\ b \in Addr /\ b \in Nat \ {0} /\ size[b] \in Nat /\ next[b] \in Addr
  BY BlockTypes DEF IInv
<1>3. PICK c : c = best
  OBVIOUS
<1>4. PICK p : p = best_prev
  OBVIOUS
<1>5. PICK n : n = Bytes(count)
  OBVIOUS
<1>6. /\ count \in Counts /\ c \in B /\ c # NULL /\ size[c] >= n
      /\ p \in B \cup {NULL} /\ p \in Addr /\ p \in Nat /\ next[p] = c
  <2>1. count \in Counts /\ c \in B /\ c # NULL /\ size[c] >= n
        /\ p \in B \cup {NULL} /\ next[p] = c
    BY <1>1, <1>3, <1>4, <1>5 DEF ListInv, SearchInv, BestSoFar, Fits, AllocTake
  <2>. QED  BY <1>2, <2>1, CellsAreAddresses
<1>7. n \in Nat \ {0} /\ n = count * PAGE_SIZE /\ count \in Nat \ {0}
  BY <1>5, <1>6, BytesOfCount
<1>8. PICK r : r = c + n
  OBVIOUS
<1>9. /\ pc = "search" /\ caller = "alloc"
      /\ held' = held \cup Extent(c, n)
      /\ counters' = [counters EXCEPT !.in_use = @ + count]
      /\ ret' = c /\ pc' = "idle"
      /\ block' = NULL /\ count' = 0
      /\ prev' = NULL /\ current' = NULL /\ best' = NULL /\ best_prev' = NULL
      /\ UNCHANGED <<memmap, highest, caller, i, message>>
      /\ IF size[c] > n
         THEN /\ size' = [size EXCEPT ![r] = size[c] - n]
              /\ next' = [next EXCEPT ![r] = next[c], ![p] = r]
         ELSE /\ next' = [next EXCEPT ![p] = next[c]]
              /\ size' = size
  BY <1>3, <1>4, <1>5, <1>8 DEF AllocTake, Rest, IInv, ControlInv
<1>10. /\ Separated(B) /\ Chain(B)
       /\ \A b \in B : size[b] > 0 /\ Extent(b, size[b]) \subseteq FreeBytes(B)
       /\ FreeBytes(B) \cap held = {} /\ FreeBytes(B) \cup held = Usable(i - 1)
  BY <1>1, <1>9 DEF ListInv, Partition, Transit, FreeBytes, Block
<1>11. \A b \in B : /\ b < c => b + size[b] < c
                    /\ b > c => c + size[c] < b
  BY <1>6, <1>10 DEF Separated
<1>12. p < c /\ \A b \in B : b <= p \/ b >= c
  <2>1. Follows(B, p, c)
    BY <1>6, <1>10 DEF Chain
  <2>. QED  BY <1>6, <2>1 DEF Follows
<1>13. Follows(B, c, next[c])
  BY <1>6, <1>10 DEF Chain
<1>14. Extent(c, n) \subseteq Extent(c, size[c]) /\ Extent(c, n) \cap held = {}
  <2>1. Extent(c, n) \subseteq Extent(c, size[c])
    BY <1>2, <1>6, <1>7 DEF Extent
  <2>. QED  BY <1>6, <1>10, <2>1
<1>15. Extent(c, n) \subseteq Addr
  <2>1. held \cup FreeBytes(B) \subseteq Addr
    <3>1. Usable(i - 1) \subseteq Addr
      BY UsableAddr DEF IInv
    <3>. QED  BY <1>10, <3>1
  <2>. QED  BY <1>6, <1>10, <1>14, <2>1
<1>16. \A a \in B \cup {NULL} : a # p => next[a] # c
  <2>1. SUFFICES ASSUME NEW a \in B \cup {NULL}, a # p, next[a] = c PROVE FALSE
    OBVIOUS
  <2>2. Follows(B, a, c) /\ a \in Nat
    BY <1>2, <1>10, <2>1 DEF Chain, NULL
  <2>3. a < c /\ \A b \in B : b <= a \/ b >= c
    BY <1>6, <2>2 DEF Follows
  <2>. QED  BY <1>2, <1>6, <1>12, <2>1, <2>2, <2>3 DEF NULL
<1>17. counters'.in_use = counters.in_use + count
       /\ counters' \in [usable : Nat, reserved : Nat, total : Nat, in_use : Nat]
  <2>1. counters \in [usable : Nat, reserved : Nat, total : Nat, in_use : Nat]
    BY DEF IInv, TypeOK
  <2>. QED  BY <1>7, <1>9, <2>1
<1>18. InUseInv'
  <2>1. IsFiniteSet(held) /\ Cardinality(held) \in Nat
    BY HeldFinite DEF IInv
  <2>2. IsFiniteSet(Extent(c, n)) /\ Cardinality(Extent(c, n)) = n
    BY <1>2, <1>6, <1>7, ExtentSize
  <2>3. held \cap Extent(c, n) = {}
    BY <1>14
  <2>4. Cardinality(held \cup Extent(c, n)) = Cardinality(held) + n
    <3>1. Cardinality(held \cup Extent(c, n))
            = Cardinality(held) + Cardinality(Extent(c, n)) - Cardinality(held \cap Extent(c, n))
      BY <2>1, <2>2, FS_Union
    <3>2. Cardinality(held \cap Extent(c, n)) = 0
      BY <2>3, FS_EmptySet
    <3>. QED  BY <1>7, <2>1, <2>2, <3>1, <3>2
  <2>5. counters.in_use * PAGE_SIZE = Cardinality(held) /\ Leaving' = 0
    BY <1>9, <2>1 DEF IInv, InUseInv, Leaving
  <2>6. (counters.in_use + count) * PAGE_SIZE = Cardinality(held) + n
    <3>1. counters.in_use \in Nat /\ PAGE_SIZE \in Nat
      BY MachineAssumption DEF IInv, TypeOK
    <3>2. \A x, y, z \in Nat : (x + y) * z = x * z + y * z
      OBVIOUS
    <3>3. (counters.in_use + count) * PAGE_SIZE = counters.in_use * PAGE_SIZE + count * PAGE_SIZE
      BY <1>7, <3>1, <3>2
    <3>. QED  BY <1>7, <2>5, <3>3
  <2>. QED  BY <1>7, <1>9, <1>17, <2>1, <2>4, <2>5, <2>6 DEF InUseInv
<1>19. ControlInv'
  BY <1>9 DEF ControlInv
<1>20. Usable(i - 1)' = Usable(i - 1) /\ Transit = {} /\ Transit' = {}
       /\ FreeBytes(B) \cup held = Usable(i - 1)
  BY <1>9, <1>10, SameUsable DEF Transit
<1>21. ASSUME NEW C \in SUBSET Cells, Chain(C)', Separated(C)', \A b \in C : size'[b] \in Nat \ {0},
              FreeBytes(C)' = FreeBytes(B) \ Extent(c, n)
       PROVE  ListInv(C)'
  <2>1. Disjoint(C)'
    <3>1. \A b \in C : b \in Nat
      BY CellsAreAddresses
    <3>. QED  BY <1>21, <3>1 DEF Separated, Disjoint
  <2>2. FreeBytes(C)' \cup Transit' \cup held' = Usable(i - 1)'
    <3>1. Extent(c, n) \subseteq FreeBytes(B)
      BY <1>6, <1>10, <1>14
    <3>. QED  BY <1>9, <1>20, <1>21, <3>1
  <2>3. FreeBytes(C)' \cap held' = {}
    BY <1>9, <1>10, <1>21
  <2>4. Partition(C)'
    BY <1>20, <1>21, <2>1, <2>2, <2>3 DEF Partition
  <2>. QED  BY <1>9, <1>21, <2>4 DEF ListInv, InsertInv, CoalesceInv, SearchInv
<1>22. ASSUME NEW b \in B \ {c}
       PROVE  Extent(b, size[b]) \cap Extent(c, size[c]) = {}
  <2>1. b \in Nat /\ c \in Nat /\ size[b] \in Nat /\ size[c] \in Nat
    BY <1>2, <1>6
  <2>2. b + size[b] < c \/ c + size[c] < b
    BY <1>11, <2>1
  <2>. QED  BY <2>1, <2>2 DEF Extent
<1>23. ASSUME size[c] > n
       PROVE  next' \in [Addr -> Addr] /\ size' \in [Addr -> Nat] /\ \E C \in SUBSET Cells : ListInv(C)'
  <2>1. PICK C : C = (B \ {c}) \cup {r}
    OBVIOUS
  <2>2. r \in Nat \ {0} /\ r > c /\ r < c + size[c] /\ r \in Addr /\ r \in Cells
    <3>1. r \in Nat \ {0} /\ r > c /\ r < c + size[c]
      BY <1>2, <1>6, <1>7, <1>8, <1>23
    <3>2. r \in Addr
      <4>1. r \in Extent(c, size[c])
        BY <1>2, <1>6, <3>1 DEF Extent
      <4>2. Usable(i - 1) \subseteq Addr
        BY UsableAddr DEF IInv
      <4>. QED  BY <1>6, <1>10, <4>1, <4>2
    <3>3. r % PAGE_SIZE = 0
      BY <1>2, <1>6, <1>7, <1>8, PageBoundary, CellsAreAddresses
    <3>. QED  BY <3>1, <3>2, <3>3 DEF Cells, NULL
  <2>3. /\ r \notin B /\ r # p
        /\ \A b \in B : b <= c \/ (b > r /\ c + size[c] < b)
    <3>1. r # p
      BY <1>2, <1>6, <1>12, <2>2
    <3>2. ASSUME NEW b \in B PROVE b # r /\ (b <= c \/ (b > r /\ c + size[c] < b))
      <4>1. b > c => c + size[c] < b
        BY <1>11
      <4>2. b \in Nat /\ c \in Nat /\ size[c] \in Nat
        BY <1>2, <1>6
      <4>. QED  BY <2>2, <4>1, <4>2
    <3>. QED  BY <3>1, <3>2
  <2>4. /\ next' \in [Addr -> Addr] /\ size' \in [Addr -> Nat]
        /\ next'[r] = next[c] /\ next'[p] = r /\ size'[r] = size[c] - n
        /\ \A a \in Addr \ {r, p} : next'[a] = next[a]
        /\ \A a \in Addr \ {r} : size'[a] = size[a]
    <3>1. next \in [Addr -> Addr] /\ size \in [Addr -> Nat]
      BY DEF IInv, TypeOK
    <3>2. size[c] - n \in Nat
      BY <1>2, <1>6, <1>7
    <3>. QED  BY <1>2, <1>6, <1>9, <1>23, <2>2, <2>3, <3>1, <3>2
  <2>5. C \in SUBSET Cells
    BY <2>1, <2>2
  <2>6. Chain(C)'
    <3>1. SUFFICES ASSUME NEW a \in C \cup {NULL} PROVE Follows(C, a, next'[a])
      BY DEF Chain, Follows
    <3>2. CASE a = p
      BY <1>2, <1>6, <1>12, <2>1, <2>2, <2>3, <2>4, <3>2 DEF Follows, NULL
    <3>3. CASE a = r
      <4>1. PICK e : e = next[c]
        OBVIOUS
      <4>2. next'[a] = e /\ Follows(B, c, e)
        BY <1>13, <2>4, <3>3, <4>1
      <4>3. \A b \in B : b \in Nat /\ (b <= c => b <= a)
        BY <1>2, <1>6, <2>2, <3>3
      <4>4. CASE e = NULL
        <5>1. \A b \in C : b <= a
          BY <2>1, <2>2, <3>3, <4>2, <4>3, <4>4 DEF Follows
        <5>. QED  BY <4>2, <4>4, <5>1 DEF Follows
      <4>5. CASE e # NULL
        <5>1. e \in B /\ e > c /\ \A b \in B : b <= c \/ b >= e
          BY <4>2, <4>5 DEF Follows
        <5>2. e > a /\ e \in C
          BY <1>2, <1>6, <2>1, <2>2, <2>3, <3>3, <5>1
        <5>3. \A b \in C : b <= a \/ b >= e
          BY <2>1, <2>2, <3>3, <4>3, <5>1
        <5>. QED  BY <4>2, <4>5, <5>2, <5>3 DEF Follows
      <4>. QED  BY <4>4, <4>5
    <3>4. CASE a # p /\ a # r
      <4>1. /\ a \in B \cup {NULL} /\ a \in Nat /\ a # c
            /\ next'[a] = next[a] /\ next[a] # c /\ Follows(B, a, next[a])
        BY <1>2, <1>6, <1>10, <1>16, <2>1, <2>4, <3>1, <3>4, CellsAreAddresses DEF Chain, NULL
      <4>2. PICK e : e = next[a]
        OBVIOUS
      <4>3. CASE e = NULL
        <5>1. a > c
          BY <1>2, <1>6, <4>1, <4>2, <4>3 DEF Follows, NULL
        <5>2. a \in B /\ a > r
          BY <1>2, <1>6, <2>3, <4>1, <5>1 DEF NULL
        <5>. QED  BY <1>2, <2>1, <2>2, <4>1, <4>2, <4>3, <5>2 DEF Follows
      <4>4. CASE e # NULL
        <5>1. e \in B /\ e \in C /\ e \in Nat /\ e > a /\ \A b \in B : b <= a \/ b >= e
          BY <1>2, <2>1, <4>1, <4>2, <4>4 DEF Follows
        <5>2. r <= a \/ r >= e
          <6>1. CASE a > c
            <7>1. a \in B
              BY <1>2, <1>6, <4>1, <6>1 DEF NULL
            <7>. QED  BY <1>2, <1>6, <2>2, <2>3, <4>1, <6>1, <7>1
          <6>2. CASE a < c
            BY <1>2, <1>6, <2>2, <4>1, <5>1, <6>2
          <6>. QED  BY <1>2, <1>6, <4>1, <6>1, <6>2
        <5>. QED  BY <2>1, <4>1, <4>2, <4>4, <5>1, <5>2 DEF Follows
      <4>. QED  BY <4>3, <4>4
    <3>. QED  BY <3>2, <3>3, <3>4
  <2>7. Separated(C)'
    <3>1. SUFFICES ASSUME NEW a \in C, NEW b \in C, a < b PROVE a + size'[a] < b
      BY DEF Separated
    <3>2. CASE a = r
      BY <1>2, <1>6, <1>7, <1>8, <2>1, <2>2, <2>3, <2>4, <3>1, <3>2
    <3>3. CASE b = r
      <4>1. a \in B /\ a < c
        BY <1>2, <1>6, <2>1, <2>2, <2>3, <3>1, <3>3
      <4>2. a + size[a] < c /\ size'[a] = size[a]
        BY <1>2, <1>11, <2>3, <2>4, <4>1
      <4>. QED  BY <1>2, <1>6, <2>2, <3>3, <4>1, <4>2
    <3>4. CASE a # r /\ b # r
      BY <1>2, <1>10, <2>1, <2>4, <3>1, <3>4 DEF Separated
    <3>. QED  BY <3>2, <3>3, <3>4
  <2>8. \A b \in C : size'[b] \in Nat \ {0}
    <3>1. size[c] - n \in Nat \ {0}
      BY <1>2, <1>6, <1>7, <1>23
    <3>. QED  BY <1>2, <1>10, <2>1, <2>4, <3>1
  <2>9. FreeBytes(C)' = FreeBytes(B) \ Extent(c, n)
    <3>1. Extent(r, size'[r]) = Extent(c, size[c]) \ Extent(c, n)
      BY <1>2, <1>6, <1>7, <1>8, <1>23, <2>2, <2>4 DEF Extent
    <3>2. \A b \in B \ {c} : Extent(b, size'[b]) = Extent(b, size[b])
                            /\ Extent(b, size[b]) \cap Extent(c, size[c]) = {}
      <4>1. TAKE b \in B \ {c}
      <4>2. Extent(b, size'[b]) = Extent(b, size[b])
        BY <1>2, <2>3, <2>4
      <4>3. Extent(b, size[b]) \cap Extent(c, size[c]) = {}
        BY <1>22
      <4>. QED  BY <4>2, <4>3
    <3>. SUFFICES ASSUME NEW x PROVE x \in FreeBytes(C)' <=> x \in FreeBytes(B) /\ x \notin Extent(c, n)
      OBVIOUS
    <3>3. x \in FreeBytes(C)' <=> \E b \in C : x \in Extent(b, size'[b])
      BY DEF FreeBytes, Block, Extent
    <3>4. x \in FreeBytes(C)' <=> x \in Extent(r, size'[r]) \/ \E b \in B \ {c} : x \in Extent(b, size[b])
      BY <2>1, <2>3, <3>2, <3>3
    <3>5. x \in FreeBytes(B) <=> x \in Extent(c, size[c]) \/ \E b \in B \ {c} : x \in Extent(b, size[b])
      BY <1>6 DEF FreeBytes, Block
    <3>6. x \in Extent(c, n) => ~\E b \in B \ {c} : x \in Extent(b, size[b])
      BY <1>14, <3>2
    <3>. QED  BY <3>1, <3>4, <3>5, <3>6
  <2>10. ListInv(C)'
    BY <1>21, <2>5, <2>6, <2>7, <2>8, <2>9
  <2>. QED  BY <2>4, <2>5, <2>10
<1>24. ASSUME ~(size[c] > n)
       PROVE  next' \in [Addr -> Addr] /\ size' \in [Addr -> Nat] /\ \E C \in SUBSET Cells : ListInv(C)'
  <2>1. PICK C \in SUBSET Cells : C = B \ {c}
    OBVIOUS
  <2>2. size[c] = n
    BY <1>2, <1>6, <1>7, <1>24
  <2>3. /\ next' \in [Addr -> Addr] /\ size' = size /\ size' \in [Addr -> Nat]
        /\ next'[p] = next[c] /\ \A a \in Addr \ {p} : next'[a] = next[a]
    <3>1. next \in [Addr -> Addr] /\ size \in [Addr -> Nat]
      BY DEF IInv, TypeOK
    <3>. QED  BY <1>2, <1>6, <1>9, <1>24, <3>1
  <2>4. Chain(C)'
    <3>1. SUFFICES ASSUME NEW a \in C \cup {NULL} PROVE Follows(C, a, next'[a])
      BY DEF Chain, Follows
    <3>2. CASE a = p
      <4>1. CASE next[c] = NULL
        BY <1>2, <1>6, <1>12, <1>13, <2>1, <2>3, <3>2, <4>1 DEF Follows, NULL
      <4>2. CASE next[c] # NULL
        <5>1. PICK e : e = next[c]
          OBVIOUS
        <5>2. next'[a] = e /\ e # NULL /\ e \in B /\ e > c /\ \A b \in B : b <= c \/ b >= e
          BY <1>13, <2>3, <3>2, <4>2, <5>1 DEF Follows
        <5>3. e \in C /\ e > a
          BY <1>2, <1>6, <1>12, <2>1, <3>2, <5>2
        <5>4. \A b \in C : b <= a \/ b >= e
          BY <1>2, <1>6, <1>12, <2>1, <3>2, <5>2
        <5>. QED  BY <5>2, <5>3, <5>4 DEF Follows
      <4>. QED  BY <4>1, <4>2
    <3>3. CASE a # p
      <4>1. next'[a] = next[a] /\ next[a] # c /\ Follows(B, a, next[a])
        BY <1>2, <1>10, <1>16, <2>1, <2>3, <3>1, <3>3, CellsAreAddresses DEF Chain
      <4>. QED  BY <2>1, <4>1 DEF Follows
    <3>. QED  BY <3>2, <3>3
  <2>5. Separated(C)' /\ \A b \in C : size'[b] \in Nat \ {0}
    BY <1>2, <1>10, <2>1, <2>3 DEF Separated
  <2>6. FreeBytes(C)' = FreeBytes(B) \ Extent(c, n)
    <3>1. \A b \in B \ {c} : Extent(b, size[b]) \cap Extent(c, size[c]) = {}
      BY <1>22
    <3>. SUFFICES ASSUME NEW x PROVE x \in FreeBytes(C)' <=> x \in FreeBytes(B) /\ x \notin Extent(c, n)
      OBVIOUS
    <3>2. x \in FreeBytes(C)' <=> \E b \in B \ {c} : x \in Extent(b, size[b])
      BY <2>1, <2>3 DEF FreeBytes, Block, Extent
    <3>3. x \in FreeBytes(B) <=> x \in Extent(c, size[c]) \/ \E b \in B \ {c} : x \in Extent(b, size[b])
      BY <1>6 DEF FreeBytes, Block
    <3>4. x \in Extent(c, size[c]) => ~\E b \in B \ {c} : x \in Extent(b, size[b])
      BY <3>1
    <3>. QED  BY <2>2, <3>2, <3>3, <3>4
  <2>7. ListInv(C)'
    BY <1>21, <2>4, <2>5, <2>6
  <2>. QED  BY <2>1, <2>3, <2>7
<1>25. next' \in [Addr -> Addr] /\ size' \in [Addr -> Nat] /\ \E C \in SUBSET Cells : ListInv(C)'
  BY <1>23, <1>24, Zenon
<1>26. TypeOK'
  BY <1>2, <1>6, <1>9, <1>15, <1>17, <1>25, CellsAreAddresses DEF IInv, TypeOK
<1>. QED  BY <1>18, <1>19, <1>25, <1>26 DEF IInv

-----------------------------------------------------------------------------
(* Calls of pmm_free_pages, and what callers do with their memory *)

\* A page boundary in memory a caller owns is not a block of the list.
LEMMA HeldIsNotListed ==
  ASSUME TypeOK, NEW B \in SUBSET Cells, Partition(B)
  PROVE  \A a \in held : a \notin B
<1>1. \A b \in B : b \in FreeBytes(B)
  BY BlockTypes DEF Partition, FreeBytes, Block, Extent
<1>. QED  BY <1>1 DEF Partition

LEMMA FreePanicInv ==
  ASSUME NEW n \in Counts, NEW ptr \in held \cup {NULL}
  PROVE  IInv /\ FreePanic(ptr, n) => IInv'
<1>. SUFFICES ASSUME IInv, FreePanic(ptr, n) PROVE IInv'
  OBVIOUS
<1>. USE DEF heap, stats, scan, pick, call, Panic
<1>1. PICK B \in SUBSET Cells : ListInv(B)
  BY DEF IInv
<1>2. PICK q \in Addr : q = ptr
  BY CellsAreAddresses DEF IInv, TypeOK
<1>3. /\ pc = "idle" /\ pc' = "panic" /\ message' \in {"invalid", "unaligned"}
      /\ caller' = "free" /\ count' = n /\ block' = q
      /\ UNCHANGED <<memmap, heap, stats, i, scan, pick, ret, held>>
  BY <1>2 DEF FreePanic
<1>4. TypeOK'
  BY <1>3 DEF IInv, TypeOK
<1>5. ControlInv'
  BY <1>3 DEF IInv, ControlInv
<1>6. InUseInv'
  BY <1>3 DEF IInv, InUseInv, Leaving
<1>7. ListInv(B)'
  <2>1. Chain(B)' /\ Partition(B)'
    BY <1>1, <1>3, SameMemory, SameUsable DEF ListInv, Transit
  <2>. QED  BY <1>3, <2>1 DEF ListInv, InsertInv, CoalesceInv, SearchInv
<1>. QED  BY <1>4, <1>5, <1>6, <1>7 DEF IInv

\* The freed run leaves its owner and is on its way into the list.
LEMMA FreeCallInv ==
  ASSUME NEW n \in Counts, NEW ptr \in held \cup {NULL}
  PROVE  IInv /\ FreeCall(ptr, n) => IInv'
<1>. SUFFICES ASSUME IInv, FreeCall(ptr, n) PROVE IInv'
  OBVIOUS
<1>. USE DEF heap, stats, scan, pick, call, EnterInsert
<1>1. PICK B \in SUBSET Cells : ListInv(B)
  BY DEF IInv
<1>2. PICK b \in Addr : b = ptr
  BY CellsAreAddresses DEF IInv, TypeOK
<1>3. PICK m : m = Bytes(n)
  OBVIOUS
<1>4. m \in Nat \ {0} /\ m = n * PAGE_SIZE /\ n \in Nat \ {0}
  BY <1>3, BytesOfCount
<1>5. /\ pc = "idle" /\ pc' = "insert" /\ caller' = "free" /\ count' = n
      /\ block' = b /\ prev' = NULL /\ current' = next[NULL]
      /\ size' = [size EXCEPT ![b] = m] /\ next' = [next EXCEPT ![b] = NULL]
      /\ held' = held \ Extent(b, m)
      /\ UNCHANGED <<memmap, highest, counters, i, best, best_prev, ret, message>>
  BY <1>2, <1>3 DEF FreeCall
<1>6. next[NULL] \in B /\ next[NULL] \in Nat \ {0} /\ next[NULL] \in Addr
  <2>1. next[NULL] # NULL
    BY DEF FreeCall, Invalid
  <2>2. next[NULL] \in B
    BY <1>1, <2>1, ChainNext DEF ListInv
  <2>. QED  BY <2>2, BlockTypes DEF IInv
<1>7. b \in Cells /\ b \in Nat \ {0} /\ Extent(b, m) \subseteq held /\ b \in held /\ b \notin B
  <2>1. b >= next[NULL] /\ b % PAGE_SIZE = 0
    BY <1>2, <1>6, CellsAreAddresses DEF FreeCall, Invalid, Unaligned
  <2>2. b \in Nat \ {0}
    BY <1>6, <2>1, CellsAreAddresses
  <2>3. b \in Cells
    BY <2>1, <2>2 DEF Cells, NULL
  <2>4. Extent(b, m) \subseteq held
    BY <1>2, <1>3, <2>2 DEF FreeCall, MayFree, NULL
  <2>5. b \in Extent(b, m)
    BY <1>4, <2>2 DEF Extent
  <2>. QED  BY <1>1, <2>2, <2>3, <2>4, <2>5, HeldIsNotListed DEF IInv, ListInv
<1>8. /\ next' \in [Addr -> Addr] /\ size' \in [Addr -> Nat] /\ size'[b] = m
      /\ \A a \in Addr \ {b} : next'[a] = next[a] /\ size'[a] = size[a]
  BY <1>4, <1>5, CellsAreAddresses DEF IInv, TypeOK
<1>9. TypeOK'
  <2>1. prev' \in Addr /\ current' \in Addr /\ block' \in Addr
    BY <1>5, <1>6, CellsAreAddresses
  <2>. QED  BY <1>5, <1>8, <2>1 DEF IInv, TypeOK
<1>10. ControlInv'
  BY <1>5 DEF ControlInv
<1>11. InUseInv'
  <2>1. IsFiniteSet(held) /\ Cardinality(held) \in Nat
    BY HeldFinite DEF IInv
  <2>2. Cardinality(Extent(b, m)) = m
    BY <1>4, <1>7, ExtentSize
  <2>3. Cardinality(held \ Extent(b, m)) = Cardinality(held) - m
    <3>1. Cardinality(held \ Extent(b, m)) = Cardinality(held) - Cardinality(held \cap Extent(b, m))
      BY <2>1, FS_Difference
    <3>2. held \cap Extent(b, m) = Extent(b, m)
      BY <1>7
    <3>. QED  BY <2>2, <3>1, <3>2
  <2>4. counters.in_use * PAGE_SIZE = Cardinality(held)
    BY <1>5, <2>1 DEF IInv, InUseInv, Leaving
  <2>5. Leaving' = m /\ counters' = counters
    BY <1>3, <1>5 DEF Leaving, Bytes
  <2>. QED  BY <1>4, <1>5, <2>1, <2>3, <2>4, <2>5 DEF InUseInv
<1>12. ListInv(B)'
  <2>1. \A a \in B \cup {NULL} : a \in Addr \ {b}
    BY <1>7, CellsAreAddresses DEF NULL
  <2>2. Chain(B)'
    BY <1>1, <1>8, <2>1 DEF ListInv, Chain, Follows
  <2>3. FreeBytes(B)' = FreeBytes(B)
    BY <1>8, <2>1 DEF FreeBytes, Block, Extent
  <2>4. Transit = {} /\ Transit' = Extent(b, m)
    BY <1>5, <1>8 DEF Transit, Block, Extent
  <2>5. Disjoint(B)' /\ \A c \in B : size'[c] > 0
    BY <1>1, <1>8, <2>1 DEF ListInv, Partition, Disjoint
  <2>6. Usable(i - 1)' = Usable(i - 1)
    BY <1>5, SameUsable
  <2>7. FreeBytes(B) \cap held = {} /\ FreeBytes(B) \cup held = Usable(i - 1)
    BY <1>1, <2>4 DEF ListInv, Partition
  <2>8. Partition(B)'
    BY <1>5, <1>7, <2>3, <2>4, <2>5, <2>6, <2>7 DEF Partition
  <2>9. InsertInv(B)'
    BY <1>4, <1>5, <1>7, <1>8, <2>1 DEF InsertInv, NULL
  <2>. QED  BY <1>5, <2>2, <2>8, <2>9 DEF ListInv, CoalesceInv, SearchInv
<1>. QED  BY <1>9, <1>10, <1>11, <1>12 DEF IInv

\* What a caller writes to its page can be no header of the list.
LEMMA CallerWritesInv ==
  ASSUME NEW a \in held \cap Cells
  PROVE  IInv /\ CallerWrites(a) => IInv'
<1>. SUFFICES ASSUME IInv, CallerWrites(a) PROVE IInv'
  OBVIOUS
<1>. USE DEF heap, stats, scan, pick, call
<1>1. PICK B \in SUBSET Cells : ListInv(B)
  BY DEF IInv
<1>2. PICK q \in Addr : q = a
  BY CellsAreAddresses
<1>3. PICK g \in Garbage : next' = [next EXCEPT ![q] = g] /\ size' = [size EXCEPT ![q] = g]
  BY <1>2 DEF CallerWrites
<1>4. /\ pc = "idle"
      /\ UNCHANGED <<memmap, stats, pc, call, i, scan, pick, ret, message, held>>
  BY DEF CallerWrites
<1>5. g \in Addr /\ g \in Nat
  BY GarbageAssumption, CellsAreAddresses
<1>6. /\ next' \in [Addr -> Addr] /\ size' \in [Addr -> Nat]
      /\ \A c \in Addr \ {q} : next'[c] = next[c] /\ size'[c] = size[c]
  BY <1>3, <1>5 DEF IInv, TypeOK
<1>7. \A c \in B \cup {NULL} : c \in Addr \ {q}
  <2>1. q \notin B
    BY <1>1, <1>2, HeldIsNotListed DEF IInv, ListInv
  <2>. QED  BY <1>2, <2>1, CellsAreAddresses
<1>8. TypeOK'
  BY <1>4, <1>6 DEF IInv, TypeOK
<1>9. ControlInv' /\ InUseInv'
  BY <1>4 DEF IInv, ControlInv, InUseInv, Leaving
<1>10. ListInv(B)'
  <2>1. Chain(B)'
    BY <1>1, <1>6, <1>7 DEF ListInv, Chain, Follows
  <2>2. FreeBytes(B)' = FreeBytes(B)
    BY <1>6, <1>7 DEF FreeBytes, Block, Extent
  <2>3. Disjoint(B)' /\ Separated(B)' /\ \A c \in B : size'[c] > 0
    BY <1>1, <1>4, <1>6, <1>7 DEF ListInv, Partition, Disjoint, Separated
  <2>4. Usable(i - 1)' = Usable(i - 1) /\ Transit = {} /\ Transit' = {}
    BY <1>4, SameUsable DEF Transit
  <2>5. Partition(B)'
    BY <1>1, <1>4, <2>2, <2>3, <2>4 DEF ListInv, Partition
  <2>. QED  BY <1>4, <2>1, <2>3, <2>5 DEF ListInv, InsertInv, CoalesceInv, SearchInv
<1>. QED  BY <1>8, <1>9, <1>10 DEF IInv

-----------------------------------------------------------------------------
(* The theorems *)

\* Every step of pmm.c and every action of its callers keeps the invariant.
LEMMA NextInv == IInv /\ [Next]_vars => IInv'
<1>. SUFFICES ASSUME IInv, [Next]_vars PROVE IInv'
  OBVIOUS
<1>1. CASE Step
  BY <1>1, InitPmmInv, MemmapSkipInv, MemmapAddInv, MemmapEndInv, InsertStepInv, InsertLinkInv,
     CoalesceMergeInv, CoalesceAdvanceInv, CoalesceEndInv, SearchStepInv, AllocNoneInv, AllocTakeInv
  DEF Step
<1>2. CASE Calls
  BY <1>2, AllocCallInv, FreePanicInv, FreeCallInv, CallerWritesInv DEF Calls
<1>3. CASE Halt \/ UNCHANGED vars
  BY <1>3, StutterInv DEF Halt
<1>. QED  BY <1>1, <1>2, <1>3 DEF Next

\* The invariant holds in every state pmm.c can reach.
THEOREM Invariance == Spec => []IInv
<1>1. Init => IInv
  BY InitInv
<1>2. IInv /\ [Next]_vars => IInv'
  BY NextInv
<1>. QED  BY <1>1, <1>2, PTL DEF Spec

\* The variables keep their types; in particular pages_in_use never falls
\* below zero, whatever runs of pages callers free.
THEOREM TypeCorrect == Spec => []TypeOK
<1>1. IInv => TypeOK
  BY DEF IInv
<1>. QED  BY <1>1, Invariance, PTL

\* No usable byte is lost and none is in two places, at every instruction of
\* insert_block_sorted, coalesce_free_list, pmm_alloc_pages and pmm_free_pages.
THEOREM MemoryIsPartitioned == Spec => []MemoryPartition
<1>1. IInv => MemoryPartition
  BY DEF IInv, ListInv, MemoryPartition
<1>. QED  BY <1>1, Invariance, PTL

\* coalesce_free_list leaves nothing to merge: between calls no two blocks of
\* the list touch.
THEOREM ListStaysCoalesced == Spec => []FullyCoalesced
<1>1. IInv => FullyCoalesced
  BY DEF IInv, ListInv, FullyCoalesced
<1>. QED  BY <1>1, Invariance, PTL

\* pmm_alloc_pages gives the smallest block that fits, and the lowest one when
\* several have that size.
THEOREM AllocationIsBestFit == Spec => BestFit
<1>. DEFINE A == pc = "search" /\ pc' = "idle" /\ ret' # NULL =>
                   \E B \in SUBSET Cells :
                     LET Large == {b \in B : size[b] >= Bytes(count)}
                     IN /\ Chain(B)
                        /\ ret' \in Large
                        /\ \A b \in Large : size[b] >= size[ret']
                        /\ \A b \in Large : size[b] = size[ret'] => b >= ret'
<1>1. IInv /\ [Next]_vars => A
  <2>. SUFFICES ASSUME IInv, Next, pc = "search", pc' = "idle", ret' # NULL PROVE A
    BY DEF vars
  <2>1. AllocTake
    BY DEF Next, Step, Calls, Halt, vars, InitPmm, MemmapSkip, MemmapAdd, MemmapEnd, InsertStep,
           InsertLink, CoalesceMerge, CoalesceAdvance, CoalesceEnd, SearchStep, AllocNone,
           AllocCall, FreePanic, FreeCall, CallerWrites
  <2>2. PICK B \in SUBSET Cells : ListInv(B)
    BY DEF IInv
  <2>3. Chain(B) /\ BestSoFar(B) /\ best # NULL /\ current = NULL /\ ret' = best
    BY <2>1, <2>2 DEF ListInv, SearchInv, AllocTake
  <2>. QED  BY <2>2, <2>3 DEF BestSoFar, Passed, Fits
<1>2. IInv /\ [Next]_vars => [A]_vars
  BY <1>1
<1>. QED  BY <1>2, Invariance, PTL DEF Spec, BestFit

\* No step of pmm.c writes a header into memory a caller owns.
THEOREM OwnersAreLeftAlone == Spec => OwnedUntouched
<1>. DEFINE A == pc # "idle" => \A a \in held \cap Cells : next'[a] = next[a] /\ size'[a] = size[a]
<1>1. IInv /\ [Next]_vars => A
  <2>. SUFFICES ASSUME IInv, [Next]_vars, pc # "idle", NEW a \in held \cap Cells
                PROVE  next'[a] = next[a] /\ size'[a] = size[a]
    OBVIOUS
  <2>. USE DEF heap, stats, scan, pick, call
  <2>1. PICK B \in SUBSET Cells : ListInv(B)
    BY DEF IInv
  <2>2. /\ next \in [Addr -> Addr] /\ size \in [Addr -> Nat]
        /\ a \in Addr /\ a # NULL /\ a \notin B
    BY <2>1, CellsAreAddresses, HeldIsNotListed DEF IInv, TypeOK, ListInv
  <2>3. CASE InsertLink
    <3>1. block # a
      <4>1. Transit \cap held = {} /\ Transit = Extent(block, size[block])
        BY <2>1, <2>3 DEF ListInv, Partition, Transit, Block, InsertLink
      <4>2. block \in Cells /\ size[block] \in Nat /\ size[block] > 0
        BY <2>1, <2>2, <2>3, CellsAreAddresses DEF ListInv, InsertInv, InsertLink
      <4>3. block \in Extent(block, size[block])
        BY <4>2, CellsAreAddresses DEF Extent
      <4>. QED  BY <4>1, <4>3
    <3>2. prev # a
      BY <2>1, <2>2, <2>3 DEF ListInv, InsertInv, InsertLink
    <3>. QED  BY <2>2, <2>3, <3>1, <3>2 DEF InsertLink
  <2>4. CASE CoalesceMerge
    <3>1. current # a
      BY <2>1, <2>2, <2>4 DEF ListInv, CoalesceInv, CoalesceMerge
    <3>. QED  BY <2>2, <2>4, <3>1 DEF CoalesceMerge
  <2>5. CASE AllocTake
    <3>1. /\ best \in B /\ best_prev \in B \cup {NULL} /\ count \in Counts
          /\ size[best] >= Bytes(count) /\ best \in Nat /\ size[best] \in Nat
      <4>1. best \in B /\ best_prev \in B \cup {NULL} /\ count \in Counts /\ size[best] >= Bytes(count)
        BY <2>1, <2>5 DEF ListInv, SearchInv, BestSoFar, Fits, AllocTake
      <4>. QED  BY <4>1, BlockTypes DEF IInv
    <3>2. best_prev # a
      BY <2>2, <3>1
    <3>3. size[best] > Bytes(count) => Rest(best) # a
      <4>1. SUFFICES ASSUME size[best] > Bytes(count) PROVE Rest(best) \notin held
        OBVIOUS
      <4>2. Bytes(count) \in Nat \ {0}
        BY <3>1, BytesOfCount
      <4>3. Rest(best) \in Extent(best, size[best])
        BY <3>1, <4>1, <4>2 DEF Rest, Extent
      <4>4. Rest(best) \in FreeBytes(B)
        BY <3>1, <4>3 DEF FreeBytes, Block
      <4>. QED  BY <2>1, <4>4 DEF ListInv, Partition
    <3>4. CASE size[best] > Bytes(count)
      <4>1. \A x, y, v, w : (x # a /\ y # a) => [next EXCEPT ![x] = v, ![y] = w][a] = next[a]
        BY <2>2
      <4>. QED  BY <2>2, <2>5, <3>2, <3>3, <3>4, <4>1 DEF AllocTake
    <3>5. CASE ~(size[best] > Bytes(count))
      BY <2>2, <2>5, <3>2, <3>5 DEF AllocTake
    <3>. QED  BY <3>4, <3>5
  <2>6. CASE InitPmm \/ MemmapAdd
    <3>1. CASE InitPmm
      BY <2>2, <3>1 DEF InitPmm
    <3>2. CASE MemmapAdd
      BY <3>2 DEF IInv, ControlInv, MemmapAdd
    <3>. QED  BY <2>6, <3>1, <3>2
  <2>7. CASE MemmapSkip \/ MemmapEnd \/ InsertStep \/ CoalesceAdvance \/ CoalesceEnd
             \/ SearchStep \/ AllocNone
    BY <2>7 DEF MemmapSkip, MemmapEnd, InsertStep, CoalesceAdvance, CoalesceEnd, SearchStep, AllocNone
  <2>8. CASE Calls
    BY <2>8 DEF Calls, AllocCall, FreePanic, FreeCall, CallerWrites
  <2>9. CASE Halt \/ UNCHANGED vars
    BY <2>9 DEF Halt, vars
  <2>. QED  BY <2>3, <2>4, <2>5, <2>6, <2>7, <2>8, <2>9 DEF Next, Step
<1>2. IInv /\ [Next]_vars => [A]_vars
  BY <1>1
<1>. QED  BY <1>2, Invariance, PTL DEF Spec, OwnedUntouched

-----------------------------------------------------------------------------
(* Least and greatest elements *)

\* Every set of naturals that is not empty has a least element.
LEMMA LeastElement ==
  ASSUME NEW T \in SUBSET Nat, T # {}
  PROVE  \E x \in T : \A y \in T : x <= y
<1>. DEFINE R == {p \in Nat \X Nat : p[1] < p[2]}
<1>1. IsWellFoundedOn(R, Nat)
  BY NatLessThanWellFounded DEF OpToRel
<1>. HIDE DEF R
<1>2. \E x \in T : \A y \in T : ~(<<y, x>> \in R)
  BY <1>1, WFMin
<1>3. \A x, y \in T : ~(<<y, x>> \in R) => x <= y
  BY DEF R
<1>. QED  BY <1>2, <1>3

\* One with a bound has a greatest element.
LEMMA GreatestElement ==
  ASSUME NEW m \in Nat, NEW T \in SUBSET (0 .. m), T # {}
  PROVE  \E x \in T : \A y \in T : y <= x
<1>1. PICK d : d = {m - x : x \in T}
  OBVIOUS
<1>2. \A x \in T : m - x \in Nat
  OBVIOUS
<1>7. d \in SUBSET Nat
  BY <1>1, <1>2
<1>8. d # {}
  BY <1>1
<1>3. PICK z \in d : \A y \in d : z <= y
  BY <1>7, <1>8, LeastElement
<1>4. PICK x \in T : z = m - x
  BY <1>1
<1>5. \A y \in T : m - y \in d /\ y \in Nat /\ x \in Nat
  BY <1>1
<1>6. \A y \in T : y <= x
  BY <1>3, <1>4, <1>5
<1>. QED  BY <1>6

-----------------------------------------------------------------------------
(* The list determines the blocks on it *)

\* A block of the list has a cell of the list that points to it.
LEMMA Predecessor ==
  ASSUME NEW A \in SUBSET Cells, Chain(A), NEW x \in A
  PROVE  \E p \in A \cup {NULL} : p < x /\ next[p] = x
<1>1. /\ MaxAddr \in Nat /\ \A a \in A \cup {NULL} : a \in 0 .. MaxAddr /\ a \in Nat
      /\ x > NULL /\ NULL \in Nat
  BY CellsAreAddresses, MachineAssumption DEF Addr, NULL
<1>2. PICK T : T = {a \in A \cup {NULL} : a < x}
  OBVIOUS
<1>3. T \in SUBSET (0 .. MaxAddr) /\ NULL \in T
  BY <1>1, <1>2
<1>4. PICK p \in T : \A a \in T : a <= p
  BY <1>1, <1>3, GreatestElement
<1>5. p \in A \cup {NULL} /\ p < x /\ Follows(A, p, next[p])
  BY <1>2, <1>4 DEF Chain
<1>6. next[p] # NULL
  BY <1>1, <1>5 DEF Follows
<1>7. next[p] \in A /\ next[p] > p /\ next[p] <= x
  BY <1>1, <1>5, <1>6 DEF Follows
<1>8. next[p] = x
  BY <1>1, <1>2, <1>4, <1>7
<1>. QED  BY <1>5, <1>8

\* Two sets of blocks that the list visits are the same.
LEMMA ChainUnique ==
  ASSUME NEW A \in SUBSET Cells, NEW B \in SUBSET Cells, Chain(A), Chain(B)
  PROVE  A = B
<1>. SUFFICES ASSUME A # B PROVE FALSE
  OBVIOUS
<1>1. PICK T : T = (A \ B) \cup (B \ A)
  OBVIOUS
<1>2. T \in SUBSET Nat /\ T # {}
  BY <1>1, CellsAreAddresses
<1>3. PICK x \in T : \A y \in T : x <= y
  BY <1>2, LeastElement
<1>4. \A a : a \in Nat /\ a < x => (a \in A <=> a \in B)
  BY <1>1, <1>2, <1>3
<1>5. ASSUME NEW C \in SUBSET Cells, NEW D \in SUBSET Cells, Chain(C), Chain(D),
             x \in C, x \notin D,
             \A a : a \in Nat /\ a < x => (a \in C <=> a \in D)
      PROVE  FALSE
  <2>1. PICK p \in C \cup {NULL} : p < x /\ next[p] = x
    BY <1>5, Predecessor
  <2>2. p \in D \cup {NULL} /\ x # NULL
    BY <1>5, <2>1, CellsAreAddresses DEF NULL
  <2>. QED  BY <1>5, <2>1, <2>2, ChainNext
<1>. QED  BY <1>1, <1>3, <1>4, <1>5

\* The list that the refinement chooses is the one there is.
LEMMA FreeListIs ==
  ASSUME NEW B \in SUBSET Cells, Chain(B)
  PROVE  FreeList = B
<1>1. FreeList \in SUBSET Cells /\ Chain(FreeList)
  BY DEF FreeList
<1>. QED  BY <1>1, ChainUnique

-----------------------------------------------------------------------------
(* What the abstract allocator sees *)

\* init_pmm has gone through the whole memory map before anybody can allocate.
BootDone == Status # "boot" \/ pc = "coalesce" => i = Len(memmap) + 1

\* Nothing is booted at first.
LEMMA BootDoneInit == Init => BootDone
<1>. SUFFICES ASSUME Init PROVE BootDone
  OBVIOUS
<1>. QED  BY DEF Init, BootDone, Status

\* When init_pmm ends, it has read the whole memory map.
LEMMA BootDoneNext == IInv /\ BootDone /\ [Next]_vars => BootDone'
<1>. SUFFICES ASSUME IInv, BootDone, [Next]_vars PROVE BootDone'
  OBVIOUS
<1>. USE DEF heap, stats, scan, pick, call, vars
<1>1. CASE InitPmm
  <2>1. i = 1 /\ caller = "init" /\ UNCHANGED <<memmap, i, caller>>
    BY <1>1 DEF InitPmm, IInv, ControlInv
  <2>2. memmap = <<>> => Len(memmap) = 0
    OBVIOUS
  <2>. QED  BY <1>1, <2>1, <2>2 DEF InitPmm, BootDone, Status, Panic
<1>2. CASE MemmapSkip \/ MemmapAdd
  <2>1. caller = "init" /\ caller' = "init" /\ pc' \in {"memmap", "insert"}
    BY <1>2 DEF MemmapSkip, MemmapAdd, EnterInsert, IInv, ControlInv
  <2>. QED  BY <2>1 DEF BootDone, Status
<1>3. CASE MemmapEnd
  <2>1. i = Len(memmap) + 1
    <3>1. memmap \in Seq(Entry) /\ i \in 1 .. Len(memmap) + 1
      BY MemMapAssumption DEF IInv, TypeOK
    <3>. QED  BY <1>3, <3>1 DEF MemmapEnd
  <2>. QED  BY <1>3, <2>1 DEF MemmapEnd, BootDone
<1>4. CASE InsertStep \/ InsertLink \/ CoalesceMerge \/ CoalesceAdvance \/ CoalesceEnd
  BY <1>4 DEF InsertStep, InsertLink, CoalesceMerge, CoalesceAdvance, CoalesceEnd, Return,
              BootDone, Status
<1>5. CASE SearchStep \/ AllocNone \/ AllocTake
  BY <1>5 DEF SearchStep, AllocNone, AllocTake, Return, BootDone, Status, IInv, ControlInv
<1>6. CASE Calls
  <2>1. pc = "idle" /\ UNCHANGED <<memmap, i>>
    BY <1>6 DEF Calls, AllocCall, FreePanic, FreeCall, CallerWrites
  <2>. QED  BY <2>1 DEF BootDone, Status
<1>7. CASE Halt \/ UNCHANGED vars
  BY <1>7 DEF Halt, BootDone, Status
<1>. QED  BY <1>1, <1>2, <1>3, <1>4, <1>5, <1>6, <1>7 DEF Next, Step

\* The refinement mapping of PageAllocator's variable free.
FreeSeen == IF Status = "boot" THEN {} ELSE FreeBytes(FreeList) \cup Transit

All == Usable(Len(memmap))

\* What is free is all that nobody owns.
FreeIsTheRest ==
  /\ FreeSeen = IF Status = "boot" THEN {} ELSE All \ held
  /\ Status # "boot" => held \subseteq All

\* The partition says what the abstract free memory is.
LEMMA FreeSeenIs == IInv /\ BootDone => FreeIsTheRest
<1>. SUFFICES ASSUME IInv, BootDone, Status # "boot"
              PROVE  FreeBytes(FreeList) \cup Transit = All \ held /\ held \subseteq All
  BY DEF FreeIsTheRest, FreeSeen
<1>1. PICK B \in SUBSET Cells : ListInv(B)
  BY DEF IInv
<1>2. FreeList = B
  BY <1>1, FreeListIs DEF ListInv
<1>3. i - 1 = Len(memmap)
  <2>1. Len(memmap) \in Nat
    BY MemMapAssumption DEF IInv, TypeOK
  <2>. QED  BY <2>1 DEF BootDone
<1>. QED  BY <1>1, <1>2, <1>3 DEF ListInv, Partition, All

-----------------------------------------------------------------------------
(* The steps *)

\* A step that only the list sees: the abstract state stays.
Unseen ==
  /\ UNCHANGED <<memmap, held, ret>>
  /\ Status' = Status
  /\ (IF pc = "search" THEN count ELSE 0)' = IF pc = "search" THEN count ELSE 0

\* Such a step is a stutter of the abstract allocator.
LEMMA UnseenStep ==
  ASSUME FreeIsTheRest, FreeIsTheRest', Unseen
  PROVE  UNCHANGED PA!avars
<1>1. All' = All
  BY DEF All, Usable, Unseen
<1>2. FreeSeen' = FreeSeen
  BY <1>1 DEF FreeIsTheRest, Unseen
<1>. QED  BY <1>1, <1>2 DEF PA!avars, Unseen, FreeSeen, All

\* A run of free bytes lies in one block: blocks do not touch.
LEMMA RunInOneBlock ==
  ASSUME TypeOK, NEW B \in SUBSET Cells, Separated(B), NEW b \in B, NEW a \in Block(b),
         NEW n \in Nat \ {0}, Extent(a, n) \subseteq FreeBytes(B)
  PROVE  size[b] >= n
<1>1. \A c \in B : c \in Nat /\ size[c] \in Nat
  BY BlockTypes
<1>2. a \in Nat /\ b <= a /\ a < b + size[b]
  BY <1>1 DEF Block, Extent
<1>. SUFFICES ASSUME size[b] < n PROVE FALSE
  BY <1>1
<1>3. PICK e \in Nat : e = b + size[b]
  BY <1>1
<1>4. e \in Extent(a, n)
  BY <1>1, <1>2, <1>3 DEF Extent
<1>5. PICK c \in B : e \in Block(c)
  BY <1>4, FreeByte
<1>6. c <= e /\ e < c + size[c]
  BY <1>1, <1>3, <1>5 DEF Block, Extent
<1>7. c # b
  BY <1>1, <1>3, <1>6
<1>8. CASE c < b
  BY <1>1, <1>3, <1>6, <1>8 DEF Separated
<1>9. CASE b < c
  BY <1>1, <1>3, <1>6, <1>9 DEF Separated
<1>. QED  BY <1>1, <1>7, <1>8, <1>9

\* The run of the abstract allocator for a call is the extent of its bytes.
LEMMA RunIsExtent ==
  ASSUME NEW n \in Counts, NEW a
  PROVE  PA!Run(a, n) = Extent(a, Bytes(n))
BY BytesOfCount DEF PA!Run, Extent

\* The end of init_pmm, and its panics, are Boot.
LEMMA BootStep ==
  ASSUME IInv, FreeIsTheRest, FreeIsTheRest',
         InitPmm \/ (CoalesceEnd /\ caller = "init")
  PROVE  PA!Boot \/ UNCHANGED PA!avars
<1>1. UNCHANGED <<memmap, held, ret, caller>> /\ caller = "init" /\ held = {} /\ All' = All
  BY DEF InitPmm, CoalesceEnd, IInv, ControlInv, All, Usable, call
<1>2. CASE InitPmm /\ memmap # <<>>
  <2>1. Unseen
    BY <1>1, <1>2 DEF Unseen, InitPmm, Status
  <2>. QED  BY <2>1, UnseenStep
<1>3. CASE InitPmm /\ memmap = <<>>
  <2>1. Status = "boot" /\ Status' = "panic" /\ pc = "boot" /\ pc' = "panic"
    BY <1>1, <1>3 DEF InitPmm, Panic, Status
  <2>2. All = {}
    BY <1>3 DEF All, Usable
  <2>3. FreeSeen = {} /\ FreeSeen' = {}
    BY <1>1, <2>1, <2>2 DEF FreeIsTheRest
  <2>. QED  BY <1>1, <2>1, <2>3 DEF PA!Boot, FreeSeen, All
<1>4. CASE CoalesceEnd
  <2>1. Status = "boot" /\ Status' = "ready" /\ pc = "coalesce" /\ pc' = "idle"
    BY <1>1, <1>4 DEF CoalesceEnd, Return, Status
  <2>2. FreeSeen' = All
    BY <1>1, <2>1 DEF FreeIsTheRest
  <2>. QED  BY <1>1, <2>1, <2>2 DEF PA!Boot, FreeSeen, All
<1>. QED  BY <1>2, <1>3, <1>4

\* The beginning of pmm_alloc_pages is Ask.
LEMMA AskStep ==
  ASSUME IInv, FreeIsTheRest, FreeIsTheRest', NEW n \in Counts, AllocCall(n)
  PROVE  PA!Ask(n) \/ UNCHANGED PA!avars
<1>1. /\ UNCHANGED <<memmap, held, ret>> /\ All' = All
      /\ pc = "idle" /\ pc' = "search" /\ count' = n /\ caller' = "alloc"
      /\ Status = "ready" /\ Status' = "ready"
  BY DEF AllocCall, All, Usable, Status
<1>2. FreeSeen' = FreeSeen
  BY <1>1 DEF FreeIsTheRest
<1>. QED  BY <1>1, <1>2 DEF PA!Ask, FreeSeen, All

\* The end of a search that has found a block is Give.
LEMMA GiveStep ==
  ASSUME IInv, FreeIsTheRest, FreeIsTheRest', AllocTake
  PROVE  \E a \in Addr : PA!Give(a)
<1>1. PICK B \in SUBSET Cells : ListInv(B)
  BY DEF IInv
<1>2. /\ UNCHANGED <<memmap, caller>> /\ All' = All
      /\ pc = "search" /\ pc' = "idle" /\ caller = "alloc" /\ ret' = best
      /\ held' = held \cup Extent(best, Bytes(count))
      /\ Status = "ready" /\ Status' = "ready"
  BY DEF AllocTake, Return, All, Usable, Status, IInv, ControlInv
<1>3. count \in Counts /\ best \in B /\ size[best] >= Bytes(count)
  BY <1>1 DEF AllocTake, ListInv, SearchInv, BestSoFar, Fits
<1>4. best \in Addr /\ best \in Nat /\ size[best] \in Nat /\ count \in Nat \ {0}
      /\ Bytes(count) \in Nat
  BY <1>3, BlockTypes, BytesOfCount DEF IInv
<1>5. Extent(best, Bytes(count)) \subseteq All \ held
  <2>1. Extent(best, Bytes(count)) \subseteq Block(best)
    BY <1>3, <1>4 DEF Block, Extent
  <2>2. Block(best) \subseteq FreeBytes(FreeList)
    BY <1>1, <1>3, FreeListIs DEF ListInv, FreeBytes
  <2>3. FreeBytes(FreeList) \subseteq All \ held
    BY <1>2 DEF FreeIsTheRest, FreeSeen
  <2>. QED  BY <2>1, <2>2, <2>3
<1>6. FreeSeen = All \ held /\ FreeSeen' = FreeSeen \ Extent(best, Bytes(count))
  BY <1>2 DEF FreeIsTheRest
<1>7. PA!Run(best, count) = Extent(best, Bytes(count))
  BY <1>3, RunIsExtent
<1>8. PA!Give(best)
  BY <1>2, <1>4, <1>5, <1>6, <1>7 DEF PA!Give, FreeSeen, All
<1>. QED  BY <1>4, <1>8

\* The end of one that has not is Refuse.
LEMMA RefuseStep ==
  ASSUME IInv, FreeIsTheRest, FreeIsTheRest', AllocNone
  PROVE  PA!Refuse
<1>1. PICK B \in SUBSET Cells : ListInv(B)
  BY DEF IInv
<1>2. /\ UNCHANGED <<memmap, held, caller>> /\ All' = All
      /\ pc = "search" /\ pc' = "idle" /\ caller = "alloc" /\ ret' = NULL
      /\ Status = "ready" /\ Status' = "ready"
  BY DEF AllocNone, Return, All, Usable, Status, IInv, ControlInv
<1>3. /\ count \in Counts /\ Separated(B) /\ \A b \in B : ~Fits(b)
      /\ Transit = {} /\ FreeList = B
  BY <1>1, <1>2, FreeListIs DEF AllocNone, ListInv, SearchInv, BestSoFar, Passed, Transit
<1>4. FreeSeen' = FreeSeen /\ FreeSeen = FreeBytes(B)
  BY <1>2, <1>3 DEF FreeIsTheRest, FreeSeen
<1>5. ASSUME NEW a \in FreeBytes(B), Extent(a, Bytes(count)) \subseteq FreeBytes(B) PROVE FALSE
  <2>1. PICK b \in B : a \in Block(b)
    BY FreeByte
  <2>2. Bytes(count) \in Nat \ {0} /\ TypeOK
    BY <1>3, BytesOfCount DEF IInv
  <2>3. size[b] >= Bytes(count)
    BY <1>3, <1>5, <2>1, <2>2, RunInOneBlock
  <2>. QED  BY <1>3, <2>3 DEF Fits
<1>6. \A a : PA!Run(a, count) = Extent(a, Bytes(count))
  BY <1>3, RunIsExtent
<1>7. count # 0
  BY <1>3, BytesOfCount
<1>. QED  BY <1>2, <1>4, <1>5, <1>6, <1>7 DEF PA!Refuse, FreeSeen, All, NULL

\* The beginning of pmm_free_pages is TakeBack.
LEMMA TakeBackStep ==
  ASSUME IInv, FreeIsTheRest, FreeIsTheRest',
         NEW n \in Counts, NEW ptr \in held \cup {NULL}, FreeCall(ptr, n)
  PROVE  \E a \in Addr : PA!TakeBack(a, n)
<1>1. PICK B \in SUBSET Cells : ListInv(B)
  BY DEF IInv
<1>2. ptr # NULL
  <2>1. next[NULL] # NULL /\ ~(NULL < next[NULL]) => next[NULL] \notin Nat
    BY DEF NULL
  <2>2. next[NULL] \in Nat
    BY CellsAreAddresses DEF IInv, TypeOK
  <2>. QED  BY <2>1, <2>2 DEF FreeCall, Invalid
<1>3. /\ UNCHANGED <<memmap, ret>> /\ All' = All
      /\ pc = "idle" /\ pc' = "insert" /\ caller' = "free"
      /\ Extent(ptr, Bytes(n)) \subseteq held /\ held' = held \ Extent(ptr, Bytes(n))
      /\ Status = "ready" /\ Status' = "ready"
  BY <1>2 DEF FreeCall, EnterInsert, MayFree, All, Usable, Status
<1>4. ptr \in Addr /\ held \subseteq All
  BY <1>2, <1>3 DEF IInv, TypeOK, FreeIsTheRest
<1>5. FreeSeen' = FreeSeen \cup Extent(ptr, Bytes(n))
  BY <1>3, <1>4 DEF FreeIsTheRest
<1>6. PA!Run(ptr, n) = Extent(ptr, Bytes(n))
  BY RunIsExtent
<1>7. PA!TakeBack(ptr, n)
  BY <1>3, <1>5, <1>6 DEF PA!TakeBack, FreeSeen, All
<1>. QED  BY <1>4, <1>7

\* Its panics are Stop.
LEMMA StopStep ==
  ASSUME IInv, FreeIsTheRest, FreeIsTheRest',
         NEW n \in Counts, NEW ptr \in held \cup {NULL}, FreePanic(ptr, n)
  PROVE  PA!Stop
<1>1. /\ UNCHANGED <<memmap, held, ret>> /\ All' = All
      /\ pc = "idle" /\ pc' = "panic" /\ Status = "ready" /\ Status' = "panic"
  BY DEF FreePanic, Panic, All, Usable, Status
<1>2. FreeSeen' = FreeSeen
  BY <1>1 DEF FreeIsTheRest
<1>. QED  BY <1>1, <1>2 DEF PA!Stop, FreeSeen, All

\* Every step of pmm.c is a step of the abstract allocator or unseen by it.
LEMMA AllocatorStep ==
  ASSUME IInv, FreeIsTheRest, FreeIsTheRest', [Next]_vars
  PROVE  PA!Next \/ UNCHANGED PA!avars
<1>. USE DEF heap, stats, scan, pick, call
<1>1. CASE InitPmm \/ (CoalesceEnd /\ caller = "init")
  BY <1>1, BootStep DEF PA!Next
<1>2. CASE MemmapSkip \/ MemmapAdd \/ MemmapEnd
  <2>1. caller = "init"
    BY <1>2 DEF MemmapSkip, MemmapAdd, MemmapEnd, IInv, ControlInv
  <2>2. Unseen
    BY <1>2, <2>1 DEF MemmapSkip, MemmapAdd, MemmapEnd, EnterInsert, Unseen, Status
  <2>. QED  BY <2>2, UnseenStep
<1>3. CASE InsertStep \/ InsertLink \/ CoalesceMerge \/ CoalesceAdvance
           \/ (CoalesceEnd /\ caller # "init")
  <2>1. Unseen
    BY <1>3 DEF InsertStep, InsertLink, CoalesceMerge, CoalesceAdvance, CoalesceEnd, Return,
                Unseen, Status
  <2>. QED  BY <2>1, UnseenStep
<1>4. CASE SearchStep
  <2>1. Unseen
    BY <1>4 DEF SearchStep, Unseen, Status
  <2>. QED  BY <2>1, UnseenStep
<1>5. CASE AllocNone \/ AllocTake
  BY <1>5, RefuseStep, GiveStep DEF PA!Next
<1>6. CASE Calls
  <2>1. ASSUME NEW n \in Counts, AllocCall(n) PROVE PA!Next \/ UNCHANGED PA!avars
    BY <2>1, AskStep DEF PA!Next
  <2>2. ASSUME NEW n \in Counts, NEW ptr \in held \cup {NULL}, FreePanic(ptr, n) PROVE PA!Next
    BY <2>2, StopStep DEF PA!Next
  <2>3. ASSUME NEW n \in Counts, NEW ptr \in held \cup {NULL}, FreeCall(ptr, n) PROVE PA!Next
    BY <2>3, TakeBackStep DEF PA!Next
  <2>4. ASSUME NEW a \in held \cap Cells, CallerWrites(a) PROVE UNCHANGED PA!avars
    <3>1. Unseen
      BY <2>4 DEF CallerWrites, Unseen, Status
    <3>. QED  BY <3>1, UnseenStep
  <2>. QED  BY <1>6, <2>1, <2>2, <2>3, <2>4 DEF Calls
<1>7. CASE Halt \/ UNCHANGED vars
  <2>1. Unseen
    BY <1>7 DEF Halt, vars, Unseen, Status
  <2>. QED  BY <2>1, UnseenStep
<1>. QED  BY <1>1, <1>2, <1>3, <1>4, <1>5, <1>6, <1>7 DEF Next, Step

\* pmm.c implements an allocator whose calls take effect at once and which
\* refuses a request only when no run of free bytes is long enough.
THEOREM PmmImplementsTheAllocator == Spec => ImplementsPageAllocator
<1>1. Init => PA!Init
  <2>. SUFFICES ASSUME Init PROVE PA!Init
    OBVIOUS
  <2>1. pc = "boot" /\ caller = "init" /\ held = {} /\ ret = 0 /\ Status = "boot"
    BY DEF Init, Status, NULL
  <2>2. All \in SUBSET Addr
    BY MemMapAssumption DEF Init, All, Usable
  <2>. QED  BY <2>1, <2>2 DEF PA!Init, All
<1>2. Spec => []BootDone
  BY BootDoneInit, BootDoneNext, Invariance, PTL DEF Spec
<1>3. Spec => []FreeIsTheRest
  BY <1>2, FreeSeenIs, Invariance, PTL
<1>4. IInv /\ FreeIsTheRest /\ FreeIsTheRest' /\ [Next]_vars => [PA!Next]_PA!avars
  BY AllocatorStep
<1>. QED  BY <1>1, <1>3, <1>4, Invariance, PTL DEF Spec, ImplementsPageAllocator, PA!Spec

-----------------------------------------------------------------------------
(* The counters *)

\* An entry gives whole pages.
LEMMA WholePages ==
  ASSUME NEW e \in Entry, Donated(e)
  PROVE  /\ PageCount(e) \in Nat
         /\ PageCount(e) * PAGE_SIZE = AlignedLength(e)
         /\ AlignedLength(e) \in Nat \ {0} /\ AlignedBase(e) \in Nat
<1>1. PAGE_SIZE \in Nat \ {0}
  BY MachineAssumption
<1>2. AlignedLength(e) \in Nat \ {0} /\ AlignedBase(e) \in Nat
  BY <1>1, AlignedTypes DEF Donated
<1>3. PICK x \in Int : AlignedLength(e) = x - (x % PAGE_SIZE)
  <2>1. e.length \in Nat /\ WORD \in Nat \ {0}
    BY MachineAssumption DEF Entry
  <2>2. (e.length - (AlignedBase(e) - e.base)) % WORD \in Int
    BY <1>2, <2>1 DEF Entry
  <2>. QED  BY <2>2 DEF AlignedLength, AlignDown
<1>4. x - (x % PAGE_SIZE) = (x \div PAGE_SIZE) * PAGE_SIZE /\ x \div PAGE_SIZE \in Int
  BY <1>1
<1>5. \A k \in Int : (k * PAGE_SIZE) \div PAGE_SIZE = k
  BY <1>1
<1>6. PageCount(e) = x \div PAGE_SIZE
  BY <1>3, <1>4, <1>5 DEF PageCount
<1>7. PageCount(e) \in Nat
  BY <1>2, PagesOf DEF PageCount
<1>. QED  BY <1>2, <1>3, <1>4, <1>6, <1>7

\* What pages_usable and highest_address_usable have to do with the memory map.
CountersInv ==
  /\ counters.usable * PAGE_SIZE = Cardinality(Usable(i - 1))
  /\ Usable(i - 1) \subseteq Extent(HHDM, highest)
  /\ Status = "ready" => counters.total = highest \div PAGE_SIZE

\* The usable memory can be counted.
LEMMA UsableFinite ==
  ASSUME TypeOK
  PROVE  IsFiniteSet(Usable(i - 1)) /\ Cardinality(Usable(i - 1)) \in Nat
<1>1. IsFiniteSet(Addr)
  BY FS_Interval, MachineAssumption DEF Addr
<1>. QED  BY <1>1, UsableAddr, FS_Subset, FS_CardinalityType

\* A longer extent contains a shorter one.
LEMMA LongerExtent ==
  ASSUME NEW a \in Nat, NEW m \in Nat, NEW n \in Nat, m <= n
  PROVE  Extent(a, m) \subseteq Extent(a, n)
BY DEF Extent

\* An entry that is added keeps the counters right.
LEMMA CountersAdd ==
  ASSUME IInv, CountersInv, MemmapAdd
  PROVE  CountersInv'
<1>. DEFINE e == memmap[i]
            len == AlignedLength(e)
<1>1. /\ e \in Entry /\ Donated(e)
      /\ Usable(i - 1)' = Usable(i - 1) \cup Donation(e)
      /\ Usable(i - 1) \cap Donation(e) = {}
  BY NextEntry DEF MemmapAdd, IInv
<1>2. /\ PageCount(e) \in Nat /\ PageCount(e) * PAGE_SIZE = len
      /\ len \in Nat \ {0} /\ AlignedBase(e) \in Nat /\ BlockOf(e) \in Nat
      /\ HHDM \in Nat /\ PAGE_SIZE \in Nat \ {0}
  BY <1>1, WholePages, MachineAssumption DEF BlockOf
<1>3. /\ counters' = [counters EXCEPT !.usable = @ + PageCount(e)]
      /\ highest' = IF AlignedBase(e) + len > highest THEN AlignedBase(e) + len ELSE highest
      /\ Status' = "boot"
  BY DEF MemmapAdd, EnterInsert, Status, IInv, ControlInv
<1>4. counters.usable \in Nat /\ counters'.usable = counters.usable + PageCount(e)
      /\ highest \in Nat
  BY <1>3 DEF IInv, TypeOK
<1>5. IsFiniteSet(Donation(e)) /\ Cardinality(Donation(e)) = len
  BY <1>2, ExtentSize DEF Donation
<1>6. Cardinality(Usable(i - 1)') = Cardinality(Usable(i - 1)) + len
  <2>1. IsFiniteSet(Usable(i - 1)) /\ Cardinality(Usable(i - 1)) \in Nat
    BY UsableFinite DEF IInv
  <2>2. Cardinality(Usable(i - 1) \cup Donation(e))
          = Cardinality(Usable(i - 1)) + Cardinality(Donation(e))
              - Cardinality(Usable(i - 1) \cap Donation(e))
    BY <1>5, <2>1, FS_Union
  <2>3. Cardinality(Usable(i - 1) \cap Donation(e)) = 0
    BY <1>1, FS_EmptySet
  <2>4. Cardinality(Usable(i - 1)') = Cardinality(Usable(i - 1) \cup Donation(e))
    BY <1>1
  <2>5. Cardinality(Usable(i - 1) \cup Donation(e)) = Cardinality(Usable(i - 1)) + len - 0
    BY <1>5, <2>2, <2>3
  <2>. HIDE DEF len
  <2>. QED  BY <1>2, <2>1, <2>4, <2>5
<1>7. counters'.usable * PAGE_SIZE = Cardinality(Usable(i - 1)')
  <2>1. (counters.usable + PageCount(e)) * PAGE_SIZE
          = counters.usable * PAGE_SIZE + PageCount(e) * PAGE_SIZE
    BY <1>2, <1>4
  <2>. QED  BY <1>2, <1>4, <1>6, <2>1 DEF CountersInv
<1>8. Usable(i - 1)' \subseteq Extent(HHDM, highest')
  <2>1. highest' \in Nat /\ highest' >= highest /\ highest' >= AlignedBase(e) + len
    BY <1>2, <1>3, <1>4
  <2>2. Extent(HHDM, highest) \subseteq Extent(HHDM, highest')
    BY <1>2, <1>4, <2>1, LongerExtent
  <2>3. Donation(e) \subseteq Extent(HHDM, highest')
    BY <1>2, <2>1 DEF Donation, BlockOf, Extent
  <2>. QED  BY <1>1, <2>2, <2>3 DEF CountersInv
<1>. QED  BY <1>3, <1>7, <1>8 DEF CountersInv

\* A step that leaves pages_usable, the highest address and the part of the
\* memory map that has been read alone.
LEMMA CountersKept ==
  ASSUME CountersInv, Usable(i - 1)' = Usable(i - 1), UNCHANGED highest,
         counters'.usable = counters.usable,
         Status' = "ready" => \/ counters'.total = highest \div PAGE_SIZE
                              \/ Status = "ready" /\ counters'.total = counters.total
  PROVE  CountersInv'
BY DEF CountersInv

\* Every step does.
LEMMA CountersNext == IInv /\ CountersInv /\ [Next]_vars => CountersInv'
<1>. SUFFICES ASSUME IInv, CountersInv, [Next]_vars PROVE CountersInv'
  OBVIOUS
<1>. USE DEF heap, stats, scan, pick, call
<1>0. counters \in [usable : Nat, reserved : Nat, total : Nat, in_use : Nat]
  BY DEF IInv, TypeOK
<1>1. CASE MemmapAdd
  BY <1>1, CountersAdd
<1>2. CASE MemmapSkip
  <2>1. Usable(i - 1)' = Usable(i - 1) /\ Status' = "boot"
    BY <1>2, NextEntry DEF MemmapSkip, IInv, ControlInv, Status
  <2>2. UNCHANGED highest /\ counters'.usable = counters.usable
    BY <1>0, <1>2 DEF MemmapSkip
  <2>. QED  BY <2>1, <2>2, CountersKept
<1>3. CASE CoalesceEnd
  <2>1. UNCHANGED <<memmap, i, highest, caller>> /\ counters' = LastCount
    BY <1>3 DEF CoalesceEnd
  <2>2. Usable(i - 1)' = Usable(i - 1)
    BY <2>1, SameUsable
  <2>3. counters'.usable = counters.usable
    BY <1>0, <2>1 DEF LastCount
  <2>4. IF caller = "init" THEN counters'.total = highest \div PAGE_SIZE
                           ELSE counters'.total = counters.total /\ Status = "ready"
    BY <1>0, <1>3, <2>1 DEF LastCount, Status, CoalesceEnd
  <2>. QED  BY <2>1, <2>2, <2>3, <2>4, CountersKept
<1>4. CASE AllocTake
  <2>1. UNCHANGED <<memmap, i, highest>> /\ counters' = [counters EXCEPT !.in_use = @ + count]
    BY <1>4 DEF AllocTake
  <2>2. Usable(i - 1)' = Usable(i - 1)
    BY <2>1, SameUsable
  <2>3. counters'.usable = counters.usable /\ counters'.total = counters.total
    BY <1>0, <2>1
  <2>4. Status = "ready"
    BY <1>4 DEF AllocTake, Status, IInv, ControlInv
  <2>. QED  BY <2>1, <2>2, <2>3, <2>4, CountersKept
<1>5. CASE \/ InitPmm \/ MemmapEnd \/ InsertStep \/ InsertLink \/ CoalesceMerge \/ CoalesceAdvance
           \/ SearchStep \/ AllocNone \/ Calls \/ Halt \/ UNCHANGED vars
  <2>1. UNCHANGED <<memmap, i, highest, counters>>
    BY <1>5 DEF InitPmm, MemmapEnd, InsertStep, InsertLink, CoalesceMerge, CoalesceAdvance,
                SearchStep, AllocNone, Calls, AllocCall, FreePanic, FreeCall, CallerWrites, Halt, vars
  <2>2. Usable(i - 1)' = Usable(i - 1)
    BY <2>1, SameUsable
  <2>3. Status' = "ready" => Status = "ready"
    BY <1>5 DEF InitPmm, Panic, MemmapEnd, InsertStep, InsertLink, CoalesceMerge, CoalesceAdvance,
                SearchStep, AllocNone, Return, Calls, AllocCall, FreePanic, FreeCall, CallerWrites,
                Halt, vars, Status, IInv, ControlInv
  <2>. QED  BY <2>1, <2>2, <2>3, CountersKept
<1>. QED  BY <1>1, <1>2, <1>3, <1>4, <1>5 DEF Next, Step

\* They are right at first.
LEMMA CountersInit == Init => CountersInv
<1>. SUFFICES ASSUME Init PROVE CountersInv
  OBVIOUS
<1>1. Usable(i - 1) = {} /\ Status = "boot" /\ counters.usable = 0
  BY DEF Init, Usable, Status
<1>2. Cardinality({}) = 0 /\ 0 * PAGE_SIZE = 0
  BY FS_EmptySet, MachineAssumption
<1>. QED  BY <1>1, <1>2 DEF CountersInv

\* pages_usable counts the memory map, pages_in_use what callers own, and
\* pages_total covers the usable pages.
THEOREM CountersAgree == Spec => []Accounting
<1>1. IInv /\ CountersInv => Accounting
  <2>. SUFFICES ASSUME IInv, CountersInv PROVE Accounting
    OBVIOUS
  <2>1. ASSUME pc \in {"idle", "search"} PROVE counters.total >= counters.usable
    <3>1. counters.total = highest \div PAGE_SIZE
      BY <2>1 DEF CountersInv, Status, IInv, ControlInv
    <3>2. highest \in Nat /\ counters.usable \in Nat /\ PAGE_SIZE \in Nat \ {0} /\ HHDM \in Nat
      BY MachineAssumption DEF IInv, TypeOK
    <3>3. counters.usable * PAGE_SIZE <= highest
      <4>1. CASE highest = 0
        <5>1. Usable(i - 1) = {}
          BY <3>2, <4>1 DEF CountersInv, Extent
        <5>2. Cardinality(Usable(i - 1)) = 0
          BY <5>1, FS_EmptySet
        <5>. QED  BY <4>1, <5>2 DEF CountersInv
      <4>2. CASE highest # 0
        <5>1. IsFiniteSet(Extent(HHDM, highest)) /\ Cardinality(Extent(HHDM, highest)) = highest
          BY <3>2, <4>2, ExtentSize
        <5>2. Cardinality(Usable(i - 1)) <= highest
          BY <5>1, FS_Subset DEF CountersInv
        <5>. QED  BY <5>2 DEF CountersInv
      <4>. QED  BY <4>1, <4>2
    <3>4. \A m, n \in Nat : m * PAGE_SIZE <= n => m <= n \div PAGE_SIZE
      BY <3>2
    <3>. QED  BY <3>1, <3>2, <3>3, <3>4
  <2>. QED  BY <2>1 DEF Accounting, CountersInv, IInv, InUseInv, Leaving
<1>2. Spec => []CountersInv
  BY CountersInit, CountersNext, Invariance, PTL DEF Spec
<1>. QED  BY <1>1, <1>2, Invariance, PTL

==============================================================================
