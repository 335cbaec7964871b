# ZenithHV in TLA+

Specifications of the kernel of ZenithHV, a bare-metal hypervisor in C that at
this commit boots through Limine, sets up descriptor tables, a physical memory
manager and page tables, and shuts down. All modules are written from the code
under `src/kernel`; line numbers in comments refer to it. TLC checks small
instances, TLAPS proves the central theorems for all of them.

## The system

| Component | State | Operations | Right when |
|---|---|---|---|
| Physical memory manager, `core/mm/pmm.c` | the free list, whose nodes lie in the free pages; `pmm_info` | `init_pmm`, `pmm_alloc_pages`, `pmm_free_pages` | free and owned memory partition what the boot loader gave; nothing a caller owns is written; a request that fits is granted |
| Page tables, `core/mm/mmu.c` | the tables in pages of the memory manager, `mmu_lock`, cr3, the TLBs | `init_mmu`, `map`, `unmap`, `load_context` | the walk finds what was mapped; a page is freed after nobody can reach it |
| Locks, `smp/lock.c` | a flag, the interrupt state of the holder | `spinlock_*`, `irq_lock`, `irq_unlock` | exclusion between cores and with handlers; no handler waits for what it interrupted; interrupts restored |
| Handlers, `arch/x86_64/intr.c` | `realHandler[256]`, the descriptor table | `init_idt`, `register_handler`, the default handler | a vector is given away once, and the caller knows to whom |
| Interrupt entry, `arch/x86_64/intr.S` | registers and stack of the interrupted code | one entry per vector, `isr_handler_stub` | the handler sees the right frame; the interrupted code notices nothing |
| Panic, `core/kpanic.inl` | none | `kpanic`, `capture_regs` | it reports the registers there were; it stops the core |
| Output, `core/printf.c` | none of its own | `fprintf` and its wrappers | it prints what the format says and counts it |
| String library, `std/string.c` | the position of `strtok` | copying, searching, tokens, classes of characters, numbers | does what the names promise, and writes where its caller has room (`strncpy` does not) |
| Boot, `core/_start.c` | none | calls the initialisations in order | not modelled |
| GDT, port access, terminal, headers, build | - | tables, single instructions, declarations | not modelled |

How they interact: `_start` calls `init_tty`, `init_gdt`, `init_idt`,
`init_pmm`, `init_mmu`. The page tables take their pages from the memory manager
and give them back (`unmap(va, true)`), under `mmu_lock`. `register_handler`
holds an irq lock, the only one at this commit; the stub calls what it put into
the table. Everybody calls `kpanic`, which prints through `printf` and never
returns: a lock its caller holds stays taken. The boot loader's memory map and
direct map offset are inputs.

What is hard here: the allocator's nodes live in the memory it gives out, so
callers overwrite them; interrupts arrive between any two instructions and
their handlers take the lock of the code they interrupted; the lock carries a
piece of state of its holder that is read after it is free; exceptions come
through trap gates that leave interrupts on, in the middle of anything.
`PROJECT.json` lists each hazard at its line with the properties that catch it.

At this commit only the boot processor runs kernel code, `load_idt` has no
caller and neither has `register_handler`. The lock is written for several cores
(`kernel/smp`; the README of the repository starts QEMU with four), so IrqLock
and Handlers have a set of them, and callers that call at any time.

## Modules

**Pmm** is `pmm.c` with one action per iteration of each loop and one per
branch. `next` and `size` are the fields of `struct free_block` at every
address; `next[NULL]` is `pmm_info.freelist`, so the code's `prev` (the address
of the cell to be changed) is an address too. Before boot, and whenever an owner
writes to its page (`CallerWrites`), these fields hold garbage. `pc` says which
loop runs; `held` is the memory callers own, which only the calls change.
Addresses and sizes wrap at `WORD`. `caller` distinguishes the two functions
that share `insert_block_sorted` and `coalesce_free_list`, whose last statement
(`LastCount`) differs. **PageAllocator** states what it promises: a set of free
bytes, and requests that are granted or refused in one step; **PmmRefinement**
maps Pmm to it (an allocation takes effect when it returns, a free when it
begins). **PmmInvariant** is the inductive invariant, **PmmProofs** has the
proofs, **MCPmm** the memory maps TLC uses.

**IrqLock** is `irq_lock` and `irq_unlock`, a step for each statement that reads
or writes shared state, executed by *contexts*: a core and a nesting level.
`Interrupt` and `Iret` are the processor's part, for interrupt gates.
`overtaken` is a history variable that only the properties read.

**Handlers** extends IrqLock with the critical section of `register_handler` in
two steps (the comparison and the assignment), the dispatch through the table,
exceptions at any instruction, and panics. A panicking context never goes on;
its core takes interrupts until the `cli` at the end of `kpanic`, as the
code's does. `halted` stands for that `cli` and the loop after it.
**HandlerTable** is the atomic table it implements; **HandlersProofs** proves that,
and before it the safety properties of IrqLock.

**Mmu** is `mmu.c`: `init_mmu` as the list of its calls of `map` between the
clearing of the top table and `load_context`, and `map` and `unmap` with a step
for each access to a table, the allocator, the lock or the TLB. `pml4_to_pt` is
one loop over the levels, where the code has the same call written three times;
`ptr`, `lvl` and `below` are its `pml_pointer`, the level that pointer is at,
and `below_pml`. Addresses are counted in pages, so `AlignDown` and `AlignUp`
are where bytes become pages. The code keeps both kinds of addresses in a
`uintptr_t`; `Reach` says what an access to one arrives at, through the boot
loader's tables before `load_context` and through the tables in `mem` after it,
so that a table the code looks for in the wrong place is a fault (`At`), which is
a panic. A page from the allocator holds garbage, which includes entries that
look valid. `Fill` is a processor walking the tables at any moment and
remembering what it found, as processors do. `pmm_alloc_pages(1)` and
`pmm_free_pages(.., 1)` are single steps here, with the choice of block, the
refusals and the header written into the freed page that Pmm has in detail; what
Pmm shows about several steps is not repeated. Two variables are
histories that only properties read: `replaced` and `changed`. **AddressSpace**
is what it promises: a function from pages to entries, changed by each call in
one step. **MmuProofs** proves what `mmu_lock` does and what writing an entry does
to a tree of tables, and **MmuInvariantProofs** the invariant of Mmu and its
properties; **MCMmu** has the machines TLC uses.

**InterruptStub** is `intr.S` as a program: a sequence of instructions that an
interpreter executes on registers and a stack, so that the order of pushes and
pops, the offset 168 and the 48 and 16 bytes dropped are the source's own.
The value of a register is the nesting depth of the code that set it, so that a register
restored from the wrong word is seen. `saved` is a history of what was
interrupted. The rest of the processor's part (alignment of the stack, frame,
error codes) is the architecture's. **InterruptStubProofs** proves its properties
for every set of vectors and any depth of nesting. **PanicReport** adds what
`kpanic` reports.

**Printf** is `fprintf` with one action per character of the format or per
directive, on sequences of characters, with types of 4, 6 and 8 bits. The
callback may refuse any character; that of `vsprintf` (`buffered`) never does,
and a terminator follows its output. Two's complement is assumed where the code
negates the most negative number and where the `int` of a width overflows (`AsInt`);
the count of characters is not bounded. **PrintfProofs** proves what it returns, for
any format and any width of the types, and that the numbers it prints read back.

**Strings** has the functions of `string.c` as operators on a memory, a sequence
of bytes whose indices are addresses. Each returns what the code returns, or
the memory it leaves; a read outside of the memory has no value, so that a
function that goes too far stops TLC. `Until` is the code's loop, and `Copy` its
copying one byte after the other, on which `memmove` depends. Where an
overflow is undefined the processor's wrapping is taken (`Wrap`), and for the
negation of the least number both what it leaves and what an optimised
unsigned division does (`Negated`). The three copies of `atoi`, `itoa` and
`strtol` for int, long and long long differ in the number of values only.
**StringCalls** makes the calls, with arguments the C standard allows; only
`strtok` has state (`last`), so any callers go on calling it in any order.
`text` and `tokens` are histories of what was passed and returned.
**StringCallsProofs** proves that copies are exact, that tokens come once and in
order and that answers are right, in any memory, and **RecursionLemmas** what the loops `Until` and
`FoldLeft` compute; **MCStrings** has the memories.

## Runs

| Run | Shows |
|---|---|
| `Pmm` | partition of memory, coalescing, counters, best fit, owners undisturbed, loops end; Pmm implements PageAllocator, in particular no request is refused while a run of free bytes is long enough; the invariant of the proofs |
| `PmmInvalidFree` (violation) | a page its caller owns is refused as invalid |
| `IrqLock` | exclusion, no self-deadlock, release, restored interrupts unless overtaken |
| `IrqLockRestore` (violation) | interrupts are not always restored |
| `Handlers` | `register_handler` is an atomic test-and-set; only a fault inside it keeps the lock |
| `InterruptStub` | resumption, frame, alignment under nesting |
| `StubRegisters` (violation) | three fields of the frame are swapped |
| `PanicReport` (violation) | R8 of a kernel panic is uninitialised |
| `Mmu` | the tables form a tree; every page has one use; what `init_mmu` maps stays mapped; no stale TLB entry of the core's own; freed pages are out of reach but for what is stated; Mmu implements AddressSpace; the lock is released unless its holder panics |
| `MmuCr3` (violation) | `cr3_paddr` is not a physical address |
| `Printf` | count, refusal, terminator, termination, and numbers that can be read back |
| `Strings` | copies leave exactly the right bytes, also when they overlap, and no other byte is written but the one behind the buffer of `strncpy`; searches and comparisons answer for the whole string; the tokens of the text begun last come once and in order; `itoa` prints what reads as its argument, `atoi` and, for numbers with a minus, `strtol` read what the text says (`NumbersAreRight` lists what is not claimed) |

Bounds. *Pmm*: six memory maps of at most five pages of two bytes (none; only
reserved and unaligned; a hole, listed from the top; four pages listed out of
order that merge; unaligned and too small entries; one page apart from three),
requests of one to three pages. Insertion, both merges and the choice between
equal fits need several blocks with gaps between them. A page below the lowest free
block cannot be given back (pmm.c:241), so that the gaps of a run come from the memory
map and from pages freed above it: with the last map three blocks are free between
calls, the lone page and two of one page each above it, which the other maps do not reach.
*IrqLock*: two cores, handlers two deep; a third level behaves as the second,
because only the relation between a context and the one it interrupted matters.
*Handlers*: two cores, one level of handlers, one vector two callers compete
for and two routines. *InterruptStub*: two levels and the vectors 2 (any
instruction), 3 (no error code), 14 and 30 (error code, the last of the list)
and 33 (interrupt gate), from aligned and unaligned stacks, with interrupts on
and off. *Printf*: every combination of flags, three widths, length and
specifier, the arguments at the boundaries of the types, formats that end
early or have several directives, and widths of two and three digits that reach the
limit of `int`, which has 6 bits here, and wrap around. Deadlock is checked in every run.
*Mmu*: two cores, three levels of tables with sixteen entries, so that `init_mmu`
needs a top table and two more at each of the two levels below it: for memory at the
bottom of the address space and for the kernel at the top, where `linker.ld` links it
(`HigherHalf`), two sections of less than a page. Callers map a page of their own and
a device, each of which needs one more table that both cores may want at once. Eight
pages of memory are usable. Six have no neighbour and are given out first: five become
tables in `init_mmu`, and the sixth can be freed while the
block at the bottom is not used up, which is the only case in which
`pmm_free_pages` takes it. With two pages owned (`MaxOwned`) and one table
created, the next table finds no memory, under the lock. All flags contain
`present`, as those of every caller in the repository do. An entry that a page
holds from its last owner leads to one address (`Stale`), a page of memory.

In `Mmu` the direct map offset is 0. This is a restriction and not a bound: with any
other the code does not get this far. On a machine set up by Limine these things
fail, one behind the other:

- The first `memset` of `init_mmu` (mmu.c:61) is a fault: `pmm_alloc_pages` returns
  an address of the direct map, and `init_mmu` adds the offset to it once more. The
  model panics there too (`ClearPml4`), and `OffsetStopsBoot` proves that it does for
  every offset but 0. `MmuCr3` is a run with such an offset.
- Were that put right at mmu.c:55, `get_below_pml` does the same again (mmu.c:112-118), and
  `unmap` passes a physical address to `pmm_free_pages` (mmu.c:174), which expects one
  of the direct map.
- `init_mmu` maps each page of memory at its own address, and none where the direct map
  was (mmu.c:75-77): after `load_context` neither the tables nor the list of the
  allocator could be reached any more.
- The sections, whose link addresses are at the top of the address space, are mapped
  `hhdm->offset` above those, and to the link address where the physical one belongs
  (mmu.c:86-96); `kernel_address`, which would tell it, is read and not used. As an
  address that high has the bit of `PTE_BIT_EXECUTE_DISABLE`, the text is not even
  executable at that place (`Word`).

So the passing run and the theorems on Mmu say how the tables, the lock, the
allocator and the TLBs work together in this code where direct map and identity map
are the same, and nothing about a kernel that runs: no property claims that the kernel
or its data are mapped where it uses them. `BootMapStays` claims only that what `init_mmu` has
mapped is what the lines above say, and that no later call changes it.

*Strings*: all memories of five bytes out of 0, a delimiter and a byte above 127,
followed by a terminator and the delimiters, so that any two strings, empty,
equal, overlapping or one inside the other, occur; lengths up to 4; all
characters from -128 to 255 for the classes; every number of types of 7 and 9
bits printed in bases 2, 10, 16 and 36, and every text of up to four characters
(blank, signs, digits of several bases) read in eight bases, legal or not. In 7 bits
two-digit numbers reach both limits, and three digits go past them.

Fairness. Pmm and Printf: weak fairness of the code's own steps, because a
processor executes the next instruction; callers need not call. IrqLock,
Handlers and Mmu: weak fairness for each core as a whole. That gives no core a right to
the lock, as `xchg` in a loop gives none: the properties say that the lock
is released, not that everybody gets it. Interrupts are never obliged to come.

## What the code does differently from what it says

Five runs end in a violation, on purpose; the entries under `findings` in
`PROJECT.json` quote the lines. In short: `pmm_free_pages` takes every address
below the lowest free block for invalid; `irq_unlock` reads `lock->flags` after
it has given the lock away; the stub and `struct registers_ctx` disagree on rdi,
rsi and rbp; `capture_regs`
stores r8 into the field of r9; `init_mmu` puts a direct map address into
`cr3_paddr`.
Not among the runs, because nothing in the repository says otherwise or
because another property is about it: what else fails on the way through `init_mmu`
is listed under *Bounds*; `strncpy` of a string shorter than n writes n + 1 bytes, the
last one behind the caller's buffer (`CopiesAreExact` claims nothing of that byte,
`Overrun`); `fprintf` reads a width into an `int` that may overflow; `strtol` takes every number without a minus for
one that overflows; `itoa` of the least number may print none, and in other bases
than 10 negative numbers get digits below `0` (`NumbersAreRight`
says which cases it leaves out). And the stub's list of vectors with an error code lacks 21 and
29, for which processors newer than the list push one; with 21 in `Vectors` the
property `ProcessorFieldsFit` of InterruptStub is violated.

## Proofs

`PmmProofs` (for every page size, word size, address space, direct map offset
and every set of memory maps and page counts that satisfies the assumptions of
Pmm): the invariant `IInv` of PmmInvariant is inductive, and implies
`TypeOK`, `MemoryPartition` and `FullyCoalesced`; from it follow the action
properties `BestFit` and `OwnedUntouched`. `MemoryPartition` alone is not
inductive: `IInv` adds where the cursors of each loop are (`InsertInv`: prev and
current are neighbours around the place of the block; `CoalesceInv`: nothing
below current is left to merge; `SearchInv`: best is the best fit among the
blocks passed, and best_prev points to it), which function runs (`ControlInv`), and
that `pages_in_use` counts `held`, which is why it never falls below zero. The
set of blocks on the list is an existential witness, `Chain(B)`: the list visits exactly B in the order
of addresses. Each action gets a lemma that names the new
witness. The assumptions used are those of Pmm: the boot loader describes no usable
byte twice and all of it inside the direct map, and callers ask for at least
one page and not for so many that the size wraps around.

Its second half has the refinement: `PmmImplementsTheAllocator` says
that every step of Pmm is a step of PageAllocator or a stutter. The abstract free
memory is what the list holds and what is on its way into it; the mapping
chooses a list (`CHOOSE B : Chain(B)`), so the proof first shows that there is only
one (`ChainUnique`: two different ones have a least address at which they differ,
and its predecessor links to both). Then the partition makes the free memory
simply what the machine has less what callers own (`FreeSeenIs`), which no loop
changes, and each of the abstract actions gets a lemma. A refusal is right because
the blocks are coalesced: a run of free bytes lies inside one block
(`RunInOneBlock`), and the search has seen them all. `CountersAgree` proves
`Accounting`; its invariant `CountersInv` follows the two counters of boot entry
by entry, where the bytes added are whole pages (`WholePages`).

`HandlersProofs`, the lock (any set of cores, any depth of nesting): `IInv` adds to exclusion
that an interrupted context is not between `cli` and the restoring of the flag
(`NestingInv`: it was interrupted with interrupts on), that the flag is clear only
while no context holds the lock (`LockInv`), and what `flags` holds (`FlagsInv`).

`MmuProofs` (any set of cores, any number, size and depth of tables, any memory map
and offset): `mmu_lock` excludes (`OneCoreInside`), and after `load_context`
nothing is written to the tables without it (`OnlyTheHolderWrites`). Each action is
shown to do one of six things to the lock and to `init_mmu` (`Control`), and
these keep the invariant, which adds that until `load_context` one core runs
(`BootInv`). The exclusion is what the other properties of Mmu rest on:
`PagesHaveOneUse` fails in TLC when `Lock` does not test.

The rest of `MmuProofs` and `MmuInvariantProofs` (any cores, memory map, sections,
fan-out, depth, word size, pages of callers and direct map offset): every invariant of
Mmu, and `RefinesAddressSpace`. Their one hypothesis is `Mappable`: memory and the pages of
callers are canonical, callers map other pages than `init_mmu` does, and the
tables have enough slots to tell all these pages apart; TLC's machine in `Mmu.cfg`
satisfies it. The invariant is `Reachable`, which has two cases. With an offset
other than 0 it is `AtTheFirstPage`: `init_mmu` has not come further than the first
table it clears, which is a fault, and no core does anything else. Nothing is
left then for the properties to be about, and they hold for that reason alone;
`OffsetStopsBoot` states it as a theorem of its own (`OffsetAssumption`, that a direct map begins
above all physical addresses if it is not the identity, is what the boot loader
does). With the offset 0 (`WorkingMachine` in the lemmas) it is `TInv`, on which the
rest of the work is:

- The invariant `TInv` has two witnesses. `Tree(mem, root, lv, via)` gives each
  page its level (-1: no table) and an address on whose walk it lies;
  two tables of one level on the same walk are equal, a present entry leads to
  a child, and every table but the root has a parent that does. With it a walk is
  no recursion any more: the table of level l on the walk of an address is the
  one whose `via` agrees with it from l + 1 up (`StoredEntry`). `Used(lv, kind,
  who)` gives each page its use and claimant; for every kind the claimants
  and the pages of that kind correspond one to one (`Match`), which is why no page
  has two uses and none is lost. `Position` says that the table a core
  stands at is the one of its level on the walk of its call, and that between
  `allocate` and `link` the entry is still absent. `BootMapped` says that what
  `init_mmu` has mapped is as its last call for the page left it.
- Each action gets a lemma that names the new witnesses (`TableLinked`: a cleared
  page becomes a table; `EntryWritten`: one stored entry changes and no other;
  `WriteUse`, `FreeUse`: whose the pages are afterwards).
- `OwnTlbFresh` is inductive relative to `TInv`: only `WriteEntry` and
  `EraseEntry` change what is stored (`EntriesStay`, `EntryChanges`), and they
  leave their core about to flush and note the others in `changed`.
  `FreedIsUnreachable` follows, as a page that is mapped is neither free nor held.
- `BootMapPersists`: an entry written before `load_context` is as the last call of
  `init_mmu` for its page left it (`BootMapped`), and callers map other pages. The calls for
  sections come last (`SectionsPrevail`), so they have the last word on a page, and no two
  sections share one (linker.ld:27 and :46).
- `RefinesAddressSpace`: `WriteEntry` is `Map`, `EraseEntry` is `Unmap`, an
  `unmap` that finds a table missing is `Absent` (`EmptyWalk`: then nothing is
  stored for the page), `Unlock` is `Return`, and no other step is seen.
- Induction over levels, pages or the number of calls is done by taking a least
  counterexample (`Least`, `LevelInduction`, `Upwards`). The page that BestFit
  chooses exists because free is finite.

`InterruptStubProofs` (every set of vectors, every depth of nesting, every state of
the stack): the invariant `IInv` says of every interrupt in progress how far its
stub has come, which is a function of the instruction its successor has
interrupted: the words of its frame that are on the stack (`FrameWord`), and the
registers it has given back. It is stated of the words and registers the
next interrupt has found, so that it holds again when that one returns.
Two theorems are about all vectors: the handler of an interrupt whose entry
counts on the error code the processor pushes finds its frame on an aligned
stack (`HandlersFindTheirFrames`), and iretq resumes what such an interrupt
found (`FittingInterruptsResume`). The properties of the run are stated under
`\A v \in Vectors : EntryFits(v)`, which means any vectors but 21 and 29, the
two the code's list lacks; with one of these they are false, and TLC shows it.

`HandlersProofs`, the table (any set of cores, depth, vectors and routines): `HIInv`
is the `IInv` of IrqLock, which is reused step by step (`LockStep`: each step of
Handlers is a step of IrqLock or leaves its variables alone), with who has halted
(`HaltInv`) and what a context between the comparison and the assignment has seen of the table
(`ProgressInv`: the entry is still free, as it holds the lock). From it follow
`OnlyFaultsKeepTheLock` and that each step of Handlers is a step of
HandlerTable or a stutter (`HandlersImplementTheTable`): the test and the set
of `register_handler` are one step for everybody else.

`PrintfProofs` (any formats, argument lists and widths of `short`, `int` and
`long`): the type invariant, `ReturnsTheCount` and `NumbersReadBack`. The calls are those C
defines (`CallAssumption`): formats and texts are terminated strings, and there are
as many arguments as the format has `%`; `fprintf` has undefined behaviour
otherwise. `%c` of the terminator itself is left out. The invariant says that the
arguments left are enough for the directives left (`Enough`), which is why `va_arg` always finds one, and that
`total_count` is what has been put out so far (`Counted`); both hold between
any two characters, whatever the directive is, and `EmitKeeps` is the lemma about
the loop of the callback that stops at the first refusal. That the recursive
`ull_to_base` yields a numeral at all is shown by a least number for which it
would not (`Recursion`, `DigitsExist`).

`NumbersReadBackAlways` goes on from there. The digits of a number read as the
number (`NumeralReads`: a digit behind a numeral is a step of the loop that reads
it, `ValueAppend`), and without a zero in front. `FieldIs` shows that
`print_number` loses neither the number nor its sign with blanks on either
side (`StrippedIs`) or zeros behind the sign (`ValueOfZeros`), and pads to
the width exactly. Last, the number is the argument converted to the type of
the length modifier (`UnsignedIs`, `SignedIs`); the most negative one fits when
its negation wraps because no type is wider than `long`.

`StringCallsProofs` (any memories, addresses, lengths, characters and delimiters
that satisfy `MemoryAssumption`: every pointer leads to a string that ends in the
memory, and the texts before the delimiters end before them).
- `TokensAreInOrder`: the invariant `TokensInv` says up to where strtok has
  come in the text begun last (`Ready`: from there on the memory is as it was,
  before it only delimiters have been overwritten) and that the tokens
  returned are those that begin before that place (`Returned`). `StrtokIs`
  describes one call by two searches, and each of its three ends gets a lemma.
- `CopiesAreExactAlways`: with the room that the C standard asks callers for (n bytes for
  `strncpy`), all bytes are right but the one that `strncpy` clears behind its buffer.
  Bytes copied one after the other are those that
  were there at first, if none is read where one was written before
  (`CopyIs`); going up or down, `memmove` never does (`CopyUpIs`,
  `CopyDownIs`). The other functions are compositions of that and `memset`.
- `AnswersAreRightAlways`: a search ends at the least offset that ends its
  loop, which is the first address looked for (`SearchIs`); `FoundIs` says when
  strstr's inner loop reaches the end of what it looks for; the first place
  where two strings differ decides their order (`OrdersIs`, `CompareIs`); and
  the classes are compared number by number (`ClassesAreRight`).
- The loops are recursive functions, `Until` directly and `FoldLeft` through
  the community modules. `RecursionLemmas` shows that such a function exists, and
  what any such function is at the one argument it is used for, by a
  least counterexample: this takes the place of the induction over data that
  the provers cannot do.

What is assumed of constants is in the modules, by name, and TLC evaluates it in
the runs: besides those mentioned, that the nesting has a bound
(`MaxNestAssumption`), that page numbers fit a word and callers' pages are not
memory (`MmuAssumption`), where the direct map begins (`OffsetAssumption`), that a power of the fan-out is a positive number
(`PowerAssumption`), that the widths of integers are even and in C's order
(`WidthAssumption`), that the terminator is no symbol of a text
(`SymbolAssumption`), that `None` is no entry, call or number
(`NoneAssumption`), and what the memory map and the sections are
(`MachineAssumption`).

Only model-checked: liveness (fairness and ENABLED are out of the prover's
reach); `NumbersAreRight` of StringCalls, which has no proof because the loop
of `strtol` is a recursive function of two arguments, a form tlapm does not
take, that comes to an end only for some texts (a proof needs it, and the
division loop of `itoa`, shown to exist before it can say what they compute;
TLC evaluates both for every numeral and base of the Strings run); and
PanicReport and the other runs that expect a violation.

## Not modelled

Callers of the memory manager that pass 0 pages, or a count whose size wraps
around: none in the repository does, and `CountAssumption` excludes them.
The code gives such a caller the address of a block that stays free.

`_start` calls the initialisations one after the other and then waits for ever;
`Init` of each module is what its part starts from, and nothing else runs until
the last of them is done.

Of Mmu, entries of the memory map that are not aligned to pages are left out (the
boot loader aligns the usable ones), and so is the processor's cache of
inner entries: the code never changes one that is present. A handler that calls
`map` on the core it interrupted there, which `mmu_lock` does not prevent, is left
out too: nothing at this commit does it.

The GDT, port access and the terminal are constant tables and single
instructions. Debug output inside the modelled functions, the layout of the
panic report and the exceptions' names are left out (the default handler of a
vector above 31 makes `kpanic` read its name from behind the table of 32), and so
is what several callers that print at once produce: `printf` takes no lock, and
nothing says that lines stay whole. `strdup` is declared and not defined, and
`spinlock_trylock` has no caller.
