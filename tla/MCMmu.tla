-------------------------------- MODULE MCMmu --------------------------------
(***************************************************************************)
(* Machines for Mmu: three levels of tables with sixteen entries each, of  *)
(* which init_mmu needs five; callers map two pages that need one each.    *)
(***************************************************************************)
EXTENDS Mmu

\* Page p of memory, and what it is.
Page(p, usable) == [base |-> p, pages |-> 1, usable |-> usable]

\* Eight usable pages with holes between them.  The allocator gives out the six
\* that are alone first, five of them to init_mmu, so that the sixth can be
\* freed while the two of the block at the bottom are not all gone.
Memory == <<[base |-> 1, pages |-> 2, usable |-> TRUE], Page(3, FALSE), Page(4, TRUE),
            Page(6, TRUE), Page(7, FALSE), Page(8, TRUE), Page(10, TRUE), Page(12, TRUE),
            Page(13, FALSE), Page(14, TRUE)>>

\* Text and data, of less than a page each, in the topmost part of the address
\* space, where linker.ld has them.
HigherHalf ==
  LET at == (WORD - 3) * PAGE_SIZE
  IN <<[start |-> at, end |-> at + 2, flags |-> {"present"}],
       [start |-> at + 10, end |-> at + 11, flags |-> {"present", "write", "noexec"}]>>

Writable == {{"present", "write"}}

=============================================================================
