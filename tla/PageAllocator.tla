---------------------------- MODULE PageAllocator ----------------------------
(***************************************************************************)
(* What the physical memory manager promises its callers: memory is a set  *)
(* of bytes, each call takes effect at once, and a request is refused only *)
(* when the free memory has no run of that many pages.  Pmm implements it. *)
(***************************************************************************)
EXTENDS Integers

CONSTANTS
  PAGE_SIZE, \* bytes in a page
  Memory,    \* the addresses there may be memory at
  Counts     \* the page counts callers pass

VARIABLES
  usable,   \* the memory of this machine
  free,     \* what can be given out
  owned,    \* what callers own
  status,   \* "boot", "ready" or "panic"
  request,  \* the page count of the call being served, 0 if there is none
  answer    \* what the last request was given, 0 if nothing

\* The bytes of n pages from address a on.
Run(a, n) == a .. (a + n * PAGE_SIZE - 1)

avars == <<usable, free, owned, status, request, answer>>

Init ==
  /\ usable \in SUBSET Memory
  /\ free = {} /\ owned = {}
  /\ status = "boot" /\ request = 0 /\ answer = 0

Boot ==
  /\ status = "boot"
  /\ \/ status' = "ready" /\ free' = usable
     \/ status' = "panic" /\ UNCHANGED free
  /\ UNCHANGED <<usable, owned, request, answer>>

Ask(n) ==
  /\ status = "ready" /\ request = 0
  /\ request' = n
  /\ UNCHANGED <<usable, free, owned, status, answer>>

Give(a) ==
  /\ request # 0
  /\ Run(a, request) \subseteq free
  /\ free' = free \ Run(a, request)
  /\ owned' = owned \cup Run(a, request)
  /\ answer' = a /\ request' = 0
  /\ UNCHANGED <<usable, status>>

Refuse ==
  /\ request # 0
  /\ \A a \in free : ~(Run(a, request) \subseteq free)
  /\ answer' = 0 /\ request' = 0
  /\ UNCHANGED <<usable, free, owned, status>>

TakeBack(a, n) ==
  /\ status = "ready" /\ request = 0
  /\ Run(a, n) \subseteq owned
  /\ owned' = owned \ Run(a, n)
  /\ free' = free \cup Run(a, n)
  /\ UNCHANGED <<usable, status, request, answer>>

\* A call of free may stop the machine, as the code does for every address
\* below its lowest free block.
Stop ==
  /\ status = "ready" /\ request = 0
  /\ status' = "panic"
  /\ UNCHANGED <<usable, free, owned, request, answer>>

Next ==
  \/ Boot
  \/ \E n \in Counts : Ask(n)
  \/ \E a \in Memory : Give(a)
  \/ Refuse
  \/ \E a \in Memory, n \in Counts : TakeBack(a, n)
  \/ Stop

Spec == Init /\ [][Next]_avars

=============================================================================
