----------------------------- MODULE AddressSpace -----------------------------
(***************************************************************************)
(* What map and unmap promise the processors that use the page tables: an  *)
(* address space is a function from pages to what they are mapped to, and  *)
(* each call changes it at its own page, in one step between call and      *)
(* return.  Mmu implements it with a tree of tables in memory.             *)
(***************************************************************************)
CONSTANTS
  Callers,
  Requests, \* the calls they may make
  Pages,    \* the pages they map and unmap
  None      \* no call, nothing mapped

VARIABLES
  space,  \* space[va]: the entry a processor finds for page va
  call,   \* call[x]: the call that caller x is in
  result  \* result[x]: None until the call has taken effect, then its result

svars == <<space, call, result>>

\* A processor takes no notice of an entry without PTE_BIT_PRESENT.
Shown(r) == IF "present" \in r.flags THEN [pa |-> r.pa, flags |-> r.flags] ELSE None

Init ==
  /\ space = [va \in Pages |-> None]
  /\ call = [x \in Callers |-> None]
  /\ result = [x \in Callers |-> None]

Invoke(x, r) ==
  /\ call[x] = None
  /\ call' = [call EXCEPT ![x] = r]
  /\ UNCHANGED <<space, result>>

Pending(x, op) == call[x] # None /\ call[x].op = op /\ result[x] = None

Map(x) ==
  /\ Pending(x, "map")
  /\ space' = [space EXCEPT ![call[x].va] = Shown(call[x])]
  /\ result' = [result EXCEPT ![x] = "true"]
  /\ UNCHANGED call

Unmap(x) ==
  /\ Pending(x, "unmap")
  /\ space' = [space EXCEPT ![call[x].va] = None]
  /\ result' = [result EXCEPT ![x] = "true"]
  /\ UNCHANGED call

\* unmap says no only if there is nothing to unmap.
Absent(x) ==
  /\ Pending(x, "unmap")
  /\ space[call[x].va] = None
  /\ result' = [result EXCEPT ![x] = "false"]
  /\ UNCHANGED <<space, call>>

Return(x) ==
  /\ result[x] # None
  /\ call' = [call EXCEPT ![x] = None]
  /\ result' = [result EXCEPT ![x] = None]
  /\ UNCHANGED space

Next ==
  \E x \in Callers :
    (\E r \in Requests : Invoke(x, r)) \/ Map(x) \/ Unmap(x) \/ Absent(x) \/ Return(x)

Spec == Init /\ [][Next]_svars

=============================================================================
