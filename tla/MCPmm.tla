-------------------------------- MODULE MCPmm --------------------------------
(***************************************************************************)
(* Pmm on machines of a few pages of two bytes, with the direct map at 2.  *)
(***************************************************************************)
EXTENDS PmmRefinement, PmmInvariant

E(b, l, u) == [base |-> b, length |-> l, usable |-> u]

\* No memory map; nothing usable; two regions with a hole, listed from the
\* top down; three regions that touch, out of order; an entry that is not
\* page aligned and one too small to hold a page; a page apart from three, so
\* that three blocks can be free with gaps between them.
MCMemMaps ==
  { <<>>,
    <<E(0, 4, FALSE), E(5, 2, TRUE)>>,
    <<E(6, 4, TRUE), E(4, 2, FALSE), E(0, 4, TRUE)>>,
    <<E(4, 2, TRUE), E(2, 2, TRUE), E(0, 2, TRUE), E(8, 2, TRUE)>>,
    <<E(1, 8, TRUE), E(9, 1, TRUE), E(10, 3, FALSE)>>,
    <<E(0, 2, TRUE), E(4, 6, TRUE)>> }

=============================================================================
