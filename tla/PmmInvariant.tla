---------------------------- MODULE PmmInvariant ----------------------------
(***************************************************************************)
(* The inductive invariant of Pmm: what is true of the free list and of    *)
(* the cursors of the loops before every step.  B is the set of blocks on  *)
(* the list.                                                               *)
(***************************************************************************)
EXTENDS Pmm

\* The blocks a loop has gone past when it looks at current.
Passed(b) == current = NULL \/ b < current

\* insert_block_sorted: prev and current are neighbours, prev is below block.
InsertInv(B) ==
  pc = "insert" =>
    /\ block \in Cells /\ size[block] > 0
    /\ prev \in B \cup {NULL} /\ prev < block
    /\ current = next[prev]

\* coalesce_free_list: nothing is left to merge below current.
CoalesceInv(B) ==
  pc = "coalesce" =>
    /\ current \in B \cup {NULL}
    /\ current = NULL => B = {}
    /\ \A a, b \in B : a < b /\ a < current => a + size[a] < b

\* The best fit among the blocks passed, or none if none of them fits.
BestSoFar(B) ==
  IF best = NULL
  THEN \A b \in B : Passed(b) => ~Fits(b)
  ELSE /\ best \in B /\ Passed(best) /\ Fits(best)
       /\ best_prev \in B \cup {NULL} /\ next[best_prev] = best
       /\ \A b \in B : Passed(b) /\ Fits(b)
            => /\ size[b] >= size[best]
               /\ size[b] = size[best] => b >= best

\* pmm_alloc_pages: prev is the cell that points to current.
SearchInv(B) ==
  pc = "search" =>
    /\ count \in Counts
    /\ current \in B \cup {NULL}
    /\ prev \in B \cup {NULL} /\ next[prev] = current
    /\ BestSoFar(B)

ListInv(B) ==
  /\ Chain(B)
  /\ Partition(B)
  /\ InsertInv(B)
  /\ CoalesceInv(B)
  /\ SearchInv(B)
  /\ pc \in {"idle", "search"} => Separated(B)

\* Whose turn it is: memory is given out only after init_pmm, and the loops
\* that insert and merge run for init_pmm or for a call of pmm_free_pages.
ControlInv ==
  /\ caller = "init" => held = {} /\ counters.in_use = 0
  /\ pc \in {"boot", "memmap"} => caller = "init"
  /\ pc = "boot" => next[NULL] = NULL /\ i = 1
  /\ pc = "search" => caller = "alloc"
  /\ pc = "insert" => caller \in {"init", "free"}
  /\ pc = "coalesce" => caller \in {"init", "free"}
  /\ pc \in {"insert", "coalesce"} /\ caller = "free" => count \in Counts

\* What pages_in_use still counts although no caller owns it any more.
Leaving ==
  IF caller = "free" /\ pc \in {"insert", "coalesce"} THEN Bytes(count) ELSE 0

InUseInv == counters.in_use * PAGE_SIZE = Cardinality(held) + Leaving

IInv ==
  /\ TypeOK
  /\ ControlInv
  /\ InUseInv
  /\ \E B \in SUBSET Cells : ListInv(B)

=============================================================================
