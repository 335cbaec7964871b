----------------------------- MODULE HandlerTable -----------------------------
(***************************************************************************)
(* What register_handler promises its callers: each call tests the entry   *)
(* of its vector and sets it in one step, somewhere between call and       *)
(* return, and says which of the two it did.  Handlers implements it.      *)
(***************************************************************************)
CONSTANTS
  Callers,
  Vectors,
  Routines, \* the handlers callers pass
  Default,  \* idt_default_interrupt_handler
  None      \* no call

VARIABLES
  table,    \* the handler of each vector
  call,     \* call[x]: the call that caller x is in, None outside of one
  result    \* result[x]: "none" until the call has taken effect, then its result

hvars == <<table, call, result>>

Calls == [vector : Vectors, handler : Routines]

Init ==
  /\ table = [v \in Vectors |-> Default]
  /\ call = [x \in Callers |-> None]
  /\ result = [x \in Callers |-> "none"]

Invoke(x, c) ==
  /\ call[x] = None
  /\ call' = [call EXCEPT ![x] = c]
  /\ UNCHANGED <<table, result>>

\* The entry is free: the handler is installed.
Accept(x) ==
  /\ call[x] # None /\ result[x] = "none"
  /\ table[call[x].vector] = Default
  /\ table' = [table EXCEPT ![call[x].vector] = call[x].handler]
  /\ result' = [result EXCEPT ![x] = "true"]
  /\ UNCHANGED call

\* The entry is taken: it stays as it is.
Reject(x) ==
  /\ call[x] # None /\ result[x] = "none"
  /\ table[call[x].vector] # Default
  /\ result' = [result EXCEPT ![x] = "false"]
  /\ UNCHANGED <<table, call>>

Return(x) ==
  /\ result[x] # "none"
  /\ call' = [call EXCEPT ![x] = None]
  /\ result' = [result EXCEPT ![x] = "none"]
  /\ UNCHANGED table

Next ==
  \E x \in Callers :
    (\E c \in Calls : Invoke(x, c)) \/ Accept(x) \/ Reject(x) \/ Return(x)

Spec == Init /\ [][Next]_hvars

=============================================================================
