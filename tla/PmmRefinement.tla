---------------------------- MODULE PmmRefinement ----------------------------
(***************************************************************************)
(* Pmm implements PageAllocator.  The free memory is what the list holds   *)
(* together with the block on its way into it; a call of pmm_alloc_pages   *)
(* takes effect when it returns, one of pmm_free_pages when it begins.     *)
(***************************************************************************)
EXTENDS Pmm

FreeList == CHOOSE B \in SUBSET Cells : Chain(B)

Status ==
  IF pc = "panic" THEN "panic"
  ELSE IF caller = "init" /\ pc # "idle" THEN "boot" ELSE "ready"

PA == INSTANCE PageAllocator WITH
        Memory  <- Addr,
        usable  <- Usable(Len(memmap)),
        free    <- IF Status = "boot" THEN {} ELSE FreeBytes(FreeList) \cup Transit,
        owned   <- held,
        status  <- Status,
        request <- IF pc = "search" THEN count ELSE 0,
        answer  <- ret

\* Every step of pmm.c is a step of the abstract allocator or changes nothing
\* it can see: in particular a request is refused only when no run of free
\* bytes is long enough, and what is given out was free and in one piece.
ImplementsPageAllocator == PA!Spec

=============================================================================
