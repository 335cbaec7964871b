------------------------------- MODULE Handlers -------------------------------
(***************************************************************************)
(* The interrupt handlers of kernel/arch/x86_64/intr.c: the table          *)
(* realHandler, register_handler, which fills it under an irq_lock that    *)
(* its callers on any core and in any handler share, the dispatch of       *)
(* interrupts through the table, and the panic of the default handler.     *)
(*                                                                         *)
(* The lock is that of IrqLock, whose contexts are the callers.            *)
(***************************************************************************)
EXTENDS IrqLock

CONSTANTS
  Vectors,   \* the vectors in use, among those with an interrupt gate (>= 32)
  Routines,  \* the handlers that are registered
  Default,   \* idt_default_interrupt_handler
  None       \* no call

VARIABLES
  realHandler, \* realHandler[v]: the handler of vector v
  call,        \* call[x]: the arguments of register_handler, None outside of it
  progress,    \* progress[x]: how far the critical section of x is
  panicking,   \* the contexts that are in kpanic
  halted       \* the cores that are in its last loop, cli( ); for (;;) hlt( )

table == <<realHandler, call, progress>>
panics == <<panicking, halted>>
allvars == <<vars, table, panics>>

Calls == [vector : Vectors, handler : Routines]

ASSUME NoneAssumption == None \notin Calls

\* kpanic does not return to the context that entered it.
Alive(x) == x \notin panicking /\ x[1] \notin halted
Current(c) == <<c, level[c]>>

\* init_idt: every vector has the default handler, the lock is free.
HInit ==
  /\ Init
  /\ realHandler = [v \in Vectors |-> Default]
  /\ call = [x \in Contexts |-> None]
  /\ progress = [x \in Contexts |-> "none"]
  /\ panicking = {} /\ halted = {}

-----------------------------------------------------------------------------
(* register_handler *)

Enter(x, a) ==
  /\ Alive(x)
  /\ ReadFlags(x)
  /\ call' = [call EXCEPT ![x] = a]
  /\ UNCHANGED <<realHandler, progress, panics>>

\* if ( realHandler[vector] == idt_default_interrupt_handler )
Compare_FindsItFree(x) ==
  /\ Alive(x)
  /\ At(x, "critical") /\ progress[x] = "none"
  /\ progress' = [progress EXCEPT ![x] = "free"]
  /\ UNCHANGED <<vars, realHandler, call, panics>>
Compare(x) ==
  /\ Alive(x)
  /\ At(x, "critical") /\ progress[x] = "none"
  /\ progress' = [progress EXCEPT ![x] =
                    IF realHandler[call[x].vector] = Default THEN "free" ELSE "false"]
  /\ UNCHANGED <<vars, realHandler, call, panics>>

Install(x) ==
  /\ Alive(x)
  /\ At(x, "critical") /\ progress[x] = "free"
  /\ realHandler' = [realHandler EXCEPT ![call[x].vector] = call[x].handler]
  /\ progress' = [progress EXCEPT ![x] = "true"]
  /\ UNCHANGED <<vars, call, panics>>

\* Both branches unlock, and return what progress says.
Unlock(x) ==
  /\ Alive(x)
  /\ progress[x] \in {"true", "false"}
  /\ Clear(x)
  /\ UNCHANGED <<table, panics>>

Leave(x) ==
  /\ Alive(x)
  /\ Restore(x)
  /\ call' = [call EXCEPT ![x] = None]
  /\ progress' = [progress EXCEPT ![x] = "none"]
  /\ UNCHANGED <<realHandler, panics>>

\* The steps of irq_lock in between.
Acquire(x) ==
  /\ Alive(x)
  /\ Cli(x) \/ TestAndSet(x) \/ StoreFlags(x)
  /\ UNCHANGED <<table, panics>>

Wait(x) == Alive(x) /\ Spin(x) /\ UNCHANGED <<table, panics>>

-----------------------------------------------------------------------------
(* Interrupts and exceptions *)

\* isr_handler_stub calls the handler of its vector; the default one panics.
\* It does so in the middle of a panic report too: an exception comes through
\* a trap gate, which leaves interrupts on, until kpanic turns them off.
Dispatch(c, v) ==
  /\ c \notin halted
  /\ Interrupt(c)
  /\ panicking' = IF realHandler[v] = Default
                  THEN panicking \cup {<<c, level[c] + 1>>} ELSE panicking
  /\ UNCHANGED <<table, halted>>

\* An exception, or a non-maskable interrupt, at any instruction: nobody has
\* registered a handler for its vector.
Fault(c) ==
  /\ Alive(Current(c))
  /\ panicking' = panicking \cup {Current(c)}
  /\ UNCHANGED <<vars, table, halted>>

\* The report is written: the core takes no interrupt any more.
PanicHalt(c) ==
  /\ Current(c) \in panicking /\ c \notin halted
  /\ halted' = halted \cup {c}
  /\ UNCHANGED <<vars, table, panicking>>

Resume(c) == Alive(Current(c)) /\ Iret(c) /\ UNCHANGED <<table, panics>>

Toggle(c) == Alive(Current(c)) /\ SetInterrupts(c) /\ UNCHANGED <<table, panics>>

-----------------------------------------------------------------------------

\* Every core is in kpanic.
Stopped == halted = Cores /\ UNCHANGED allvars

Proceed(x) == Acquire(x) \/ Compare(x) \/ Install(x) \/ Unlock(x) \/ Leave(x)

HCoreStep(c) == (\E l \in Level : Proceed(<<c, l>>)) \/ Resume(c) \/ PanicHalt(c)

HNext ==
  \/ \E x \in Contexts : (\E a \in Calls : Enter(x, a)) \/ Wait(x)
  \/ \E c \in Cores : HCoreStep(c) \/ Fault(c) \/ Toggle(c)
  \/ \E c \in Cores, v \in Vectors : Dispatch(c, v)
  \/ Stopped

HSpec == HInit /\ [][HNext]_allvars /\ \A c \in Cores : WF_allvars(HCoreStep(c))

-----------------------------------------------------------------------------
(* Properties *)

\* Every variable has its type.
HTypeOK ==
  /\ TypeOK
  /\ realHandler \in [Vectors -> Routines \cup {Default}]
  /\ call \in [Contexts -> Calls \cup {None}]
  /\ progress \in [Contexts -> {"none", "free", "true", "false"}]
  /\ panicking \subseteq Contexts /\ halted \subseteq Cores

HT == INSTANCE HandlerTable WITH
        Callers <- Contexts,
        table   <- realHandler,
        result  <- [x \in Contexts |-> IF progress[x] = "free" THEN "none" ELSE progress[x]]

\* A call of register_handler takes effect at once, whatever it is interrupted
\* by and whatever the other cores do: of two calls for one vector the first
\* wins, the second returns false, and no entry changes twice.
ImplementsHandlerTable == HT!Spec

\* The lock is released unless its holder panicked, and then only that core's
\* halt keeps it: no handler that dispatch starts can make others wait.
ReleasedUnlessPanic == locked ~> (~locked \/ \E x \in panicking : Holds(x))

\* A core that is halted holds the lock only if the context that panicked was
\* inside register_handler itself, never because a handler interrupted it there.
OnlyFaultsKeepTheLock ==
  \A x \in Contexts : Holds(x) /\ x[1] \in halted => x \in panicking

=============================================================================
