------------------------------- MODULE IrqLock -------------------------------
(***************************************************************************)
(* The interrupt-safe spin lock of kernel/smp/lock.c, used by cores that   *)
(* are interrupted, with handlers that take the same lock.                 *)
(*                                                                         *)
(* A context is a core together with a nesting level: level 0 is the code  *)
(* that boots the core, level n+1 the handler that interrupted level n.    *)
(* Only the context at the core's current level runs.                      *)
(***************************************************************************)
EXTENDS Integers

CONSTANTS
  Cores,
  MaxNest  \* how deep interrupts nest (a bound of the model)

ASSUME NestAssumption == MaxNest \in Nat

Level == 0 .. MaxNest
Contexts == Cores \X Level

VARIABLES
  locked,   \* lock->spinlock.locked
  flags,    \* lock->flags
  enabled,  \* enabled[c]: bit 9 of RFLAGS, the core takes interrupts
  level,    \* level[c]: handlers entered and not left
  pc,       \* pc[x]: where context x is
  were,     \* were[x]: its interrupts_were_enabled
  overtaken \* the contexts between the two statements of irq_unlock for which
            \* another context has stored its flags since (history)

lock == <<locked, flags>>
vars == <<lock, enabled, level, pc, were, overtaken>>

Running(x) == level[x[1]] = x[2]
At(x, where) == Running(x) /\ pc[x] = where
Goto(x, where) == pc' = [pc EXCEPT ![x] = where]

\* The context holds the spin lock.
Holds(x) == pc[x] \in {"store", "critical"}

Init ==
  /\ locked = FALSE /\ flags = FALSE
  /\ enabled \in [Cores -> BOOLEAN]
  /\ level = [c \in Cores |-> 0]
  /\ pc = [x \in Contexts |-> "idle"]
  /\ were = [x \in Contexts |-> FALSE]
  /\ overtaken = {}

-----------------------------------------------------------------------------
(* irq_lock *)

ReadFlags_AssumesDisabled(x) ==
  /\ At(x, "idle")
  /\ were' = [were EXCEPT ![x] = enabled[x[1]]]
  /\ Goto(x, "spin")
  /\ UNCHANGED <<lock, enabled, level, overtaken>>
ReadFlags(x) ==
  /\ At(x, "idle")
  /\ were' = [were EXCEPT ![x] = enabled[x[1]]]
  /\ Goto(x, IF enabled[x[1]] THEN "cli" ELSE "spin")
  /\ UNCHANGED <<lock, enabled, level, overtaken>>

Cli(x) ==
  /\ At(x, "cli")
  /\ enabled' = [enabled EXCEPT ![x[1]] = FALSE]
  /\ Goto(x, "spin")
  /\ UNCHANGED <<lock, level, were, overtaken>>

\* The iteration of spinlock_lock that finds the flag clear.
TestAndSet_TestsNothing(x) ==
  /\ At(x, "spin")
  /\ locked' = TRUE
  /\ Goto(x, "store")
  /\ UNCHANGED <<flags, enabled, level, were, overtaken>>
TestAndSet(x) ==
  /\ At(x, "spin")
  /\ ~locked
  /\ locked' = TRUE
  /\ Goto(x, "store")
  /\ UNCHANGED <<flags, enabled, level, were, overtaken>>

\* The iterations that find it set: xchg writes back the value it read.
Spin(x) ==
  /\ At(x, "spin")
  /\ locked
  /\ UNCHANGED vars

StoreFlags_Forgotten(x) ==
  /\ At(x, "store")
  /\ Goto(x, "critical")
  /\ UNCHANGED <<lock, enabled, level, were, overtaken>>
StoreFlags(x) ==
  /\ At(x, "store")
  /\ flags' = were[x]
  /\ overtaken' = {y \in Contexts : pc[y] = "restore"}
  /\ Goto(x, "critical")
  /\ UNCHANGED <<locked, enabled, level, were>>

-----------------------------------------------------------------------------
(* irq_unlock *)

Clear_Forgotten(x) ==
  /\ At(x, "critical")
  /\ Goto(x, "restore")
  /\ UNCHANGED <<lock, enabled, level, were, overtaken>>
Clear(x) ==
  /\ At(x, "critical")
  /\ locked' = FALSE
  /\ Goto(x, "restore")
  /\ UNCHANGED <<flags, enabled, level, were, overtaken>>

\* if ( lock->flags ) sti else cli: the flags are read after the lock is free.
Restore(x) ==
  /\ At(x, "restore")
  /\ enabled' = [enabled EXCEPT ![x[1]] = flags]
  /\ were' = [were EXCEPT ![x] = FALSE]
  /\ overtaken' = overtaken \ {x}
  /\ Goto(x, "idle")
  /\ UNCHANGED <<lock, level>>

-----------------------------------------------------------------------------
(* The processor *)

\* An interrupt through a gate of type IDT_INTERRUPT_GATE: RFLAGS is pushed
\* and its interrupt bit cleared.
Interrupt(c) ==
  /\ enabled[c] /\ level[c] < MaxNest
  /\ level' = [level EXCEPT ![c] = @ + 1]
  /\ enabled' = [enabled EXCEPT ![c] = FALSE]
  /\ UNCHANGED <<lock, pc, were, overtaken>>

Iret_Unbalanced(c) ==
  /\ pc[<<c, level[c]>>] = "idle"
  /\ level' = [level EXCEPT ![c] = @ - 1]
  /\ enabled' = [enabled EXCEPT ![c] = TRUE]
  /\ UNCHANGED <<lock, pc, were, overtaken>>
\* iretq: the RFLAGS that were pushed had the interrupt bit set.
Iret(c) ==
  /\ level[c] > 0 /\ pc[<<c, level[c]>>] = "idle"
  /\ level' = [level EXCEPT ![c] = @ - 1]
  /\ enabled' = [enabled EXCEPT ![c] = TRUE]
  /\ UNCHANGED <<lock, pc, were, overtaken>>

\* Outside of handlers and of the lock a core turns interrupts on and off.
SetInterrupts(c) ==
  /\ level[c] = 0 /\ pc[<<c, 0>>] = "idle"
  /\ enabled' = [enabled EXCEPT ![c] = ~@]
  /\ UNCHANGED <<lock, level, pc, were, overtaken>>

-----------------------------------------------------------------------------

\* What a context does by itself once it has called irq_lock.
Step(x) == Cli(x) \/ TestAndSet(x) \/ StoreFlags(x) \/ Clear(x) \/ Restore(x)

CoreStep(c) == (\E l \in Level : Step(<<c, l>>)) \/ Iret(c)

Next ==
  \/ \E x \in Contexts : ReadFlags(x) \/ Spin(x)
  \/ \E c \in Cores : CoreStep(c) \/ Interrupt(c) \/ SetInterrupts(c)

\* A core executes instructions; calls and interrupts come when they come.
Spec == Init /\ [][Next]_vars /\ \A c \in Cores : WF_vars(CoreStep(c))

-----------------------------------------------------------------------------
(* Properties *)

\* Every variable has its type.
TypeOK ==
  /\ locked \in BOOLEAN /\ flags \in BOOLEAN
  /\ enabled \in [Cores -> BOOLEAN]
  /\ level \in [Cores -> Level]
  /\ pc \in [Contexts -> {"idle", "cli", "spin", "store", "critical", "restore"}]
  /\ were \in [Contexts -> BOOLEAN]
  /\ overtaken \subseteq Contexts

\* Two contexts are never in the critical section at once, be they on two
\* cores or a handler and the code it interrupted.
MutualExclusion == \A x, y \in Contexts : Holds(x) /\ Holds(y) => x = y

\* A handler never spins on a lock that the code it interrupted holds, which
\* it would do for ever: irq_lock turns interrupts off before it takes the
\* lock and irq_unlock turns them on only after it is free.
NoSelfDeadlock ==
  \A x, y \in Contexts :
    x[1] = y[1] /\ Holds(y) /\ pc[x] = "spin" => ~Running(x)

\* The lock is always released: its holder cannot be interrupted for ever.
Released == locked ~> ~locked

\* irq_unlock leaves interrupts the way irq_lock found them, unless another
\* core goes all the way through irq_lock between its two statements.
RestoresUnlessOvertaken ==
  [][\A x \in Contexts : pc[x] = "restore" /\ pc'[x] = "idle" /\ x \notin overtaken
       => enabled'[x[1]] = were[x]]_vars

\* What the name of the local variable at lock.c:32, interrupts_were_enabled,
\* and its use at lock.c:39 say that irq_unlock restores: its caller's state.
RestoresWhatItFound ==
  [][\A x \in Contexts : pc[x] = "restore" /\ pc'[x] = "idle"
       => enabled'[x[1]] = were[x]]_vars

=============================================================================
