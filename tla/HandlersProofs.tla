---------------------------- MODULE HandlersProofs ----------------------------
(***************************************************************************)
(* Proofs about IrqLock and about Handlers, which uses it: the lock keeps  *)
(* its safety properties, Handlers keeps the invariant of the lock and     *)
(* implements HandlerTable, for any cores, nesting, vectors and routines.  *)
(***************************************************************************)
EXTENDS Handlers, TLAPS

-----------------------------------------------------------------------------
(* The irq lock *)

\* A context that was interrupted had interrupts on, so it was not yet at the
\* lock or was done with it; a handler that is not entered is idle.
NestingInv ==
  \A x \in Contexts :
    /\ x[2] < level[x[1]] => pc[x] \in {"idle", "cli"}
    /\ x[2] > level[x[1]] => pc[x] = "idle"
    /\ Running(x) /\ enabled[x[1]] => pc[x] \in {"idle", "cli"}

\* The flag is set exactly while one context holds the lock.
LockInv ==
  /\ MutualExclusion
  /\ ~locked => \A x \in Contexts : ~Holds(x)

\* flags is what its last writer found, until another one overtakes it.
FlagsInv ==
  \A x \in Contexts :
    \/ pc[x] = "critical"
    \/ pc[x] = "restore" /\ x \notin overtaken
    => flags = were[x]

IInv == TypeOK /\ NestingInv /\ LockInv /\ FlagsInv

\* A context consists of its core and its level.
LEMMA ContextParts ==
  /\ \A x \in Contexts : x[1] \in Cores /\ x[2] \in Level /\ x = <<x[1], x[2]>>
  /\ \A x, y \in Contexts : x[1] = y[1] /\ x[2] = y[2] => x = y
  /\ \A c \in Cores, l \in Level : <<c, l>> \in Contexts
BY DEF Contexts

\* The initial states satisfy the invariant.
LEMMA InitInv == Init => IInv
<1>. SUFFICES ASSUME Init PROVE IInv
  OBVIOUS
<1>1. TypeOK
  <2>1. 0 \in Level
    BY NestAssumption DEF Level
  <2>. QED  BY <2>1 DEF Init, TypeOK
<1>2. \A x \in Contexts : pc[x] = "idle"
  BY DEF Init
<1>3. NestingInv
  BY <1>2 DEF NestingInv
<1>4. LockInv /\ FlagsInv
  BY <1>2 DEF LockInv, MutualExclusion, FlagsInv, Holds
<1>. QED  BY <1>1, <1>3, <1>4 DEF IInv

\* Every step keeps the invariant.
LEMMA NextInv == IInv /\ [Next]_vars => IInv'
<1>. SUFFICES ASSUME IInv, [Next]_vars PROVE IInv'
  OBVIOUS
<1>. USE DEF lock, At, Goto, Running, Holds
<1>0. \A l \in Level : l \in Int
  BY NestAssumption DEF Level
<1>1. ASSUME NEW x \in Contexts, ReadFlags(x) PROVE IInv'
  <2>1. TypeOK'
    BY <1>1, ContextParts DEF IInv, TypeOK, ReadFlags
  <2>2. NestingInv'
    <3>. SUFFICES ASSUME NEW y \in Contexts
                  PROVE  /\ y[2] < level'[y[1]] => pc'[y] \in {"idle", "cli"}
                         /\ y[2] > level'[y[1]] => pc'[y] = "idle"
                         /\ level'[y[1]] = y[2] /\ enabled'[y[1]] => pc'[y] \in {"idle", "cli"}
      BY DEF NestingInv
    <3>1. CASE y = x
      <4>1. /\ level'[y[1]] = y[2] /\ enabled' = enabled
            /\ pc'[y] = IF enabled[y[1]] THEN "cli" ELSE "spin"
        BY <1>1, <3>1 DEF IInv, TypeOK, ReadFlags
      <4>2. y[2] \in Int
        BY <1>0, ContextParts
      <4>. QED  BY <4>1, <4>2
    <3>2. CASE y # x
      <4>1. level' = level /\ enabled' = enabled /\ pc'[y] = pc[y]
        BY <1>1, <3>2 DEF IInv, TypeOK, ReadFlags
      <4>. QED  BY <4>1 DEF IInv, NestingInv
    <3>. QED  BY <3>1, <3>2
  <2>3. LockInv' /\ FlagsInv'
    BY <1>1 DEF IInv, TypeOK, LockInv, MutualExclusion, FlagsInv, ReadFlags
  <2>. QED  BY <2>1, <2>2, <2>3 DEF IInv
<1>2. ASSUME NEW x \in Contexts, Cli(x) PROVE IInv'
  <2>1. TypeOK'
    BY <1>2, ContextParts DEF IInv, TypeOK, Cli
  <2>2. NestingInv'
    BY <1>2, ContextParts DEF IInv, TypeOK, NestingInv, Cli
  <2>3. LockInv' /\ FlagsInv'
    BY <1>2 DEF IInv, TypeOK, LockInv, MutualExclusion, FlagsInv, Cli
  <2>. QED  BY <2>1, <2>2, <2>3 DEF IInv
<1>3. ASSUME NEW x \in Contexts, TestAndSet(x) PROVE IInv'
  <2>1. TypeOK'
    BY <1>3 DEF IInv, TypeOK, TestAndSet
  <2>2. NestingInv'
    BY <1>3, ContextParts DEF IInv, TypeOK, NestingInv, TestAndSet
  <2>3. LockInv' /\ FlagsInv'
    BY <1>3 DEF IInv, TypeOK, LockInv, MutualExclusion, FlagsInv, TestAndSet
  <2>. QED  BY <2>1, <2>2, <2>3 DEF IInv
<1>4. ASSUME NEW x \in Contexts, StoreFlags(x) PROVE IInv'
  <2>1. TypeOK'
    BY <1>4 DEF IInv, TypeOK, StoreFlags
  <2>2. NestingInv'
    BY <1>4, ContextParts DEF IInv, TypeOK, NestingInv, StoreFlags
  <2>3. LockInv'
    BY <1>4 DEF IInv, TypeOK, LockInv, MutualExclusion, StoreFlags
  <2>4. FlagsInv'
    BY <1>4 DEF IInv, TypeOK, LockInv, MutualExclusion, FlagsInv, StoreFlags
  <2>. QED  BY <2>1, <2>2, <2>3, <2>4 DEF IInv
<1>5. ASSUME NEW x \in Contexts, Clear(x) PROVE IInv'
  <2>1. TypeOK'
    BY <1>5 DEF IInv, TypeOK, Clear
  <2>2. NestingInv'
    BY <1>5, ContextParts DEF IInv, TypeOK, NestingInv, Clear
  <2>3. LockInv'
    BY <1>5 DEF IInv, TypeOK, LockInv, MutualExclusion, Clear
  <2>4. FlagsInv'
    BY <1>5 DEF IInv, TypeOK, FlagsInv, Clear
  <2>. QED  BY <2>1, <2>2, <2>3, <2>4 DEF IInv
<1>6. ASSUME NEW x \in Contexts, Restore(x) PROVE IInv'
  <2>1. TypeOK'
    BY <1>6, ContextParts DEF IInv, TypeOK, Restore
  <2>2. NestingInv'
    BY <1>6, ContextParts DEF IInv, TypeOK, NestingInv, Restore
  <2>3. LockInv' /\ FlagsInv'
    BY <1>6 DEF IInv, TypeOK, LockInv, MutualExclusion, FlagsInv, Restore
  <2>. QED  BY <2>1, <2>2, <2>3 DEF IInv
<1>7. ASSUME NEW c \in Cores, Interrupt(c) PROVE IInv'
  <2>1. TypeOK'
    BY <1>7, NestAssumption DEF IInv, TypeOK, Interrupt, Level
  <2>2. NestingInv'
    <3>. SUFFICES ASSUME NEW y \in Contexts
                  PROVE  /\ y[2] < level'[y[1]] => pc'[y] \in {"idle", "cli"}
                         /\ y[2] > level'[y[1]] => pc'[y] = "idle"
                         /\ level'[y[1]] = y[2] /\ enabled'[y[1]] => pc'[y] \in {"idle", "cli"}
      BY DEF NestingInv
    <3>1. y[1] \in Cores /\ y[2] \in Int /\ level[y[1]] \in Int
      BY <1>0, ContextParts DEF IInv, TypeOK
    <3>2. pc' = pc
      BY <1>7 DEF Interrupt
    <3>3. CASE y[1] = c
      <4>1. level'[y[1]] = level[y[1]] + 1 /\ enabled[y[1]] /\ ~enabled'[y[1]]
        BY <1>7, <3>1, <3>3 DEF IInv, TypeOK, Interrupt
      <4>. QED  BY <3>1, <3>2, <4>1 DEF IInv, NestingInv
    <3>4. CASE y[1] # c
      <4>1. level'[y[1]] = level[y[1]] /\ enabled'[y[1]] = enabled[y[1]]
        BY <1>7, <3>1, <3>4 DEF IInv, TypeOK, Interrupt
      <4>. QED  BY <3>2, <4>1 DEF IInv, NestingInv
    <3>. QED  BY <3>3, <3>4
  <2>3. LockInv' /\ FlagsInv'
    BY <1>7 DEF IInv, LockInv, MutualExclusion, FlagsInv, Interrupt
  <2>. QED  BY <2>1, <2>2, <2>3 DEF IInv
<1>8. ASSUME NEW c \in Cores, Iret(c) PROVE IInv'
  <2>1. TypeOK'
    BY <1>8, NestAssumption DEF IInv, TypeOK, Iret, Level
  <2>2. NestingInv'
    <3>. SUFFICES ASSUME NEW y \in Contexts
                  PROVE  /\ y[2] < level'[y[1]] => pc'[y] \in {"idle", "cli"}
                         /\ y[2] > level'[y[1]] => pc'[y] = "idle"
                         /\ level'[y[1]] = y[2] /\ enabled'[y[1]] => pc'[y] \in {"idle", "cli"}
      BY DEF NestingInv
    <3>1. y[1] \in Cores /\ y[2] \in Int /\ level[y[1]] \in Int
      BY <1>0, ContextParts DEF IInv, TypeOK
    <3>2. pc' = pc /\ pc[<<c, level[c]>>] = "idle"
      BY <1>8 DEF Iret
    <3>3. CASE y[1] = c
      <4>1. level'[y[1]] = level[y[1]] - 1
        BY <1>8, <3>1, <3>3 DEF IInv, TypeOK, Iret
      <4>2. y[2] = level[y[1]] => pc[y] = "idle"
        BY <3>2, <3>3, ContextParts
      <4>. QED  BY <3>1, <3>2, <4>1, <4>2 DEF IInv, NestingInv
    <3>4. CASE y[1] # c
      <4>1. level'[y[1]] = level[y[1]] /\ enabled'[y[1]] = enabled[y[1]]
        BY <1>8, <3>1, <3>4 DEF IInv, TypeOK, Iret
      <4>. QED  BY <3>2, <4>1 DEF IInv, NestingInv
    <3>. QED  BY <3>3, <3>4
  <2>3. LockInv' /\ FlagsInv'
    BY <1>8 DEF IInv, LockInv, MutualExclusion, FlagsInv, Iret
  <2>. QED  BY <2>1, <2>2, <2>3 DEF IInv
<1>9. ASSUME NEW c \in Cores, SetInterrupts(c) PROVE IInv'
  <2>1. TypeOK'
    BY <1>9 DEF IInv, TypeOK, SetInterrupts
  <2>2. NestingInv'
    BY <1>9, ContextParts DEF IInv, TypeOK, NestingInv, SetInterrupts
  <2>3. LockInv' /\ FlagsInv'
    BY <1>9 DEF IInv, LockInv, MutualExclusion, FlagsInv, SetInterrupts
  <2>. QED  BY <2>1, <2>2, <2>3 DEF IInv
<1>10. CASE UNCHANGED vars
  BY <1>10 DEF vars, IInv, TypeOK, NestingInv, LockInv, MutualExclusion, FlagsInv
<1>. QED  BY <1>1, <1>2, <1>3, <1>4, <1>5, <1>6, <1>7, <1>8, <1>9, <1>10, ContextParts
          DEF Next, CoreStep, Step, Spin

\* The invariant holds in every state the lock and its users can reach.
THEOREM Invariance == Spec => []IInv
BY InitInv, NextInv, PTL DEF Spec

\* The variables keep their types: in particular no handler returns below the
\* level of the kernel's own code, and none nests deeper than MaxNest.
THEOREM TypesAreKept == Spec => []TypeOK
<1>1. IInv => TypeOK
  BY DEF IInv
<1>. QED  BY <1>1, Invariance, PTL

\* The lock excludes: neither two cores nor a handler and the code below it are
\* in the critical section together, whatever the number of cores.
THEOREM LockExcludes == Spec => []MutualExclusion
<1>1. IInv => MutualExclusion
  BY DEF IInv, LockInv
<1>. QED  BY <1>1, Invariance, PTL

\* A handler that takes the lock never waits for the code it interrupted.
THEOREM HandlersNeverWaitForTheirVictim == Spec => []NoSelfDeadlock
<1>1. IInv => NoSelfDeadlock
  <2>. SUFFICES ASSUME IInv, NEW x \in Contexts, NEW y \in Contexts,
                       x[1] = y[1], Holds(y), pc[x] = "spin", Running(x)
                PROVE  FALSE
    BY DEF NoSelfDeadlock
  <2>1. x[2] \in Int /\ y[2] \in Int /\ level[y[1]] \in Int
    BY ContextParts, NestAssumption DEF IInv, TypeOK, Level
  <2>2. Running(y)
    BY <2>1 DEF IInv, NestingInv, Holds, Running
  <2>. QED  BY <2>2, ContextParts DEF Holds, Running
<1>. QED  BY <1>1, Invariance, PTL

\* irq_unlock restores its caller's interrupt state unless another context
\* goes through irq_lock between its two statements.
THEOREM RestoreIsRightUnlessOvertaken == Spec => RestoresUnlessOvertaken
<1>. DEFINE A == \A x \in Contexts : pc[x] = "restore" /\ pc'[x] = "idle" /\ x \notin overtaken
                   => enabled'[x[1]] = were[x]
<1>1. IInv /\ [Next]_vars => A
  <2>. SUFFICES ASSUME IInv, [Next]_vars, NEW x \in Contexts,
                       pc[x] = "restore", pc'[x] = "idle", x \notin overtaken
                PROVE  enabled'[x[1]] = were[x]
    OBVIOUS
  <2>1. Restore(x)
    BY DEF Next, CoreStep, Step, Spin, vars, ReadFlags, Cli, TestAndSet, StoreFlags, Clear, Restore,
           Interrupt, Iret, SetInterrupts, Goto, At, IInv, TypeOK, lock, Contexts
  <2>2. flags = were[x]
    BY DEF IInv, FlagsInv
  <2>. QED  BY <2>1, <2>2, ContextParts DEF Restore, IInv, TypeOK
<1>2. IInv /\ [Next]_vars => [A]_vars
  BY <1>1
<1>. QED  BY <1>2, Invariance, PTL DEF Spec, RestoresUnlessOvertaken

-----------------------------------------------------------------------------
(* The table of handlers and its calls *)

\* A core that is halted is in the context that panicked.
HaltInv == \A c \in halted \cap Cores : Current(c) \in panicking

\* How far a call is, as the lock and the table show it: progress is made in
\* the critical section only, and an entry found free is free until it is
\* written.
ProgressInv ==
  \A x \in Contexts :
    /\ (call[x] = None) <=> (pc[x] = "idle")
    /\ pc[x] \notin {"critical", "restore"} => progress[x] = "none"
    /\ pc[x] = "restore" => progress[x] \in {"true", "false"}
    /\ progress[x] = "free" => realHandler[call[x].vector] = Default

HIInv == HTypeOK /\ IInv /\ HaltInv /\ ProgressInv

\* Each step of Handlers is a step of IrqLock or leaves the lock alone.
LEMMA LockStep == [HNext]_allvars => [Next]_vars
<1>. SUFFICES ASSUME HNext PROVE Next \/ UNCHANGED vars
  BY DEF allvars
<1>1. ASSUME NEW x \in Contexts, NEW a \in Calls, Enter(x, a) PROVE Next
  BY <1>1 DEF Enter, Next
<1>2. ASSUME NEW x \in Contexts, Wait(x) PROVE Next
  BY <1>2 DEF Wait, Next
<1>3. ASSUME NEW c \in Cores, NEW l \in Level, Proceed(<<c, l>>) PROVE Next \/ UNCHANGED vars
  <2>1. CASE Acquire(<<c, l>>) \/ Unlock(<<c, l>>) \/ Leave(<<c, l>>)
    <3>1. Step(<<c, l>>)
      BY <2>1 DEF Acquire, Unlock, Leave, Step
    <3>. QED  BY <3>1 DEF Next, CoreStep
  <2>2. CASE Compare(<<c, l>>) \/ Install(<<c, l>>)
    BY <2>2 DEF Compare, Install
  <2>. QED  BY <1>3, <2>1, <2>2 DEF Proceed
<1>4. ASSUME NEW c \in Cores, Resume(c) \/ Toggle(c) PROVE Next
  BY <1>4 DEF Resume, Toggle, Next, CoreStep
<1>5. ASSUME NEW c \in Cores, PanicHalt(c) \/ Fault(c) PROVE UNCHANGED vars
  BY <1>5 DEF PanicHalt, Fault
<1>6. ASSUME NEW c \in Cores, NEW v \in Vectors, Dispatch(c, v) PROVE Next
  BY <1>6 DEF Dispatch, Next
<1>7. CASE Stopped
  BY <1>7 DEF Stopped, allvars
<1>. QED  BY <1>1, <1>2, <1>3, <1>4, <1>5, <1>6, <1>7 DEF HNext, HCoreStep

\* The initial states satisfy the invariant.
LEMMA HInitInv == HInit => HIInv
<1>. SUFFICES ASSUME HInit PROVE HIInv
  OBVIOUS
<1>1. IInv
  BY InitInv DEF HInit
<1>2. HTypeOK
  BY <1>1 DEF HInit, HTypeOK, IInv
<1>3. HaltInv
  BY DEF HInit, HaltInv
<1>4. ProgressInv
  BY NoneAssumption DEF HInit, Init, ProgressInv
<1>. QED  BY <1>1, <1>2, <1>3, <1>4 DEF HIInv

\* Every step keeps the invariant: where a step writes the table, the lock
\* keeps the others out of the critical section.
LEMMA HNextInv == HIInv /\ [HNext]_allvars => HIInv'
<1>. SUFFICES ASSUME HIInv, [HNext]_allvars PROVE HIInv'
  OBVIOUS
<1>. USE DEF At, Goto, Running, Current
<1>0. IInv' /\ TypeOK'
  BY LockStep, NextInv DEF HIInv, IInv
<1>1. ASSUME NEW x \in Contexts, NEW a \in Calls, Enter(x, a) PROVE HIInv'
  <2>1. HTypeOK' /\ HaltInv'
    BY <1>0, <1>1 DEF HIInv, HTypeOK, HaltInv, Enter, ReadFlags, panics
  <2>2. ProgressInv'
    <3>1. pc[x] = "idle" /\ pc'[x] \in {"cli", "spin"} /\ call'[x] = a /\ progress[x] = "none"
      BY <1>1 DEF HIInv, HTypeOK, TypeOK, ProgressInv, Enter, ReadFlags
    <3>2. ASSUME NEW y \in Contexts, y # x PROVE pc'[y] = pc[y] /\ call'[y] = call[y]
      BY <1>1, <3>2 DEF HIInv, HTypeOK, TypeOK, Enter, ReadFlags
    <3>3. progress' = progress /\ realHandler' = realHandler
      BY <1>1 DEF Enter
    <3>. QED  BY <3>1, <3>2, <3>3, NoneAssumption DEF HIInv, ProgressInv
  <2>. QED  BY <1>0, <2>1, <2>2 DEF HIInv
<1>2. ASSUME NEW x \in Contexts, Acquire(x) PROVE HIInv'
  <2>1. HTypeOK' /\ HaltInv'
    BY <1>0, <1>2 DEF HIInv, HTypeOK, HaltInv, Acquire, Cli, TestAndSet, StoreFlags, table, panics
  <2>2. ProgressInv'
    <3>1. pc[x] \in {"cli", "spin", "store"} /\ pc'[x] \in {"spin", "store", "critical"}
      BY <1>2 DEF HIInv, HTypeOK, TypeOK, Acquire, Cli, TestAndSet, StoreFlags
    <3>2. ASSUME NEW y \in Contexts, y # x PROVE pc'[y] = pc[y]
      BY <1>2, <3>2 DEF HIInv, HTypeOK, TypeOK, Acquire, Cli, TestAndSet, StoreFlags
    <3>3. progress' = progress /\ realHandler' = realHandler /\ call' = call
      BY <1>2 DEF Acquire, table
    <3>. QED  BY <3>1, <3>2, <3>3 DEF HIInv, ProgressInv
  <2>. QED  BY <1>0, <2>1, <2>2 DEF HIInv
<1>3. ASSUME NEW x \in Contexts, Compare(x) PROVE HIInv'
  <2>1. HTypeOK' /\ HaltInv'
    BY <1>0, <1>3 DEF HIInv, HTypeOK, HaltInv, Compare, vars, panics
  <2>2. ProgressInv'
    <3>1. /\ pc[x] = "critical"
          /\ progress'[x] = IF realHandler[call[x].vector] = Default THEN "free" ELSE "false"
      BY <1>3 DEF HIInv, HTypeOK, Compare
    <3>2. ASSUME NEW y \in Contexts, y # x PROVE progress'[y] = progress[y]
      BY <1>3, <3>2 DEF HIInv, HTypeOK, Compare
    <3>3. pc' = pc /\ realHandler' = realHandler /\ call' = call
      BY <1>3 DEF Compare, vars
    <3>. QED  BY <3>1, <3>2, <3>3 DEF HIInv, ProgressInv
  <2>. QED  BY <1>0, <2>1, <2>2 DEF HIInv
<1>4. ASSUME NEW x \in Contexts, Install(x) PROVE HIInv'
  <2>1. pc[x] = "critical" /\ call[x] \in Calls
    BY <1>4 DEF HIInv, HTypeOK, ProgressInv, Install
  <2>2. HTypeOK' /\ HaltInv'
    BY <1>0, <1>4, <2>1 DEF HIInv, HTypeOK, HaltInv, Install, vars, panics, Calls
  <2>3. ProgressInv'
    <3>1. progress'[x] = "true"
      BY <1>4 DEF HIInv, HTypeOK, Install
    <3>2. ASSUME NEW y \in Contexts, y # x PROVE progress'[y] = progress[y] /\ progress[y] # "free"
      <4>1. pc[y] # "critical"
        BY <2>1, <3>2 DEF HIInv, IInv, LockInv, MutualExclusion, Holds
      <4>2. progress[y] # "free"
        BY <4>1 DEF HIInv, ProgressInv
      <4>. QED  BY <1>4, <3>2, <4>2 DEF HIInv, HTypeOK, Install
    <3>3. pc' = pc /\ call' = call
      BY <1>4 DEF Install, vars
    <3>. QED  BY <2>1, <3>1, <3>2, <3>3 DEF HIInv, ProgressInv
  <2>. QED  BY <1>0, <2>2, <2>3 DEF HIInv
<1>5. ASSUME NEW x \in Contexts, Unlock(x) PROVE HIInv'
  <2>1. HTypeOK' /\ HaltInv'
    BY <1>0, <1>5 DEF HIInv, HTypeOK, HaltInv, Unlock, Clear, table, panics
  <2>2. ProgressInv'
    <3>1. pc[x] = "critical" /\ pc'[x] = "restore" /\ progress[x] \in {"true", "false"}
      BY <1>5 DEF HIInv, HTypeOK, TypeOK, Unlock, Clear
    <3>2. ASSUME NEW y \in Contexts, y # x PROVE pc'[y] = pc[y]
      BY <1>5, <3>2 DEF HIInv, HTypeOK, TypeOK, Unlock, Clear
    <3>3. progress' = progress /\ realHandler' = realHandler /\ call' = call
      BY <1>5 DEF Unlock, table
    <3>. QED  BY <3>1, <3>2, <3>3 DEF HIInv, ProgressInv
  <2>. QED  BY <1>0, <2>1, <2>2 DEF HIInv
<1>6. ASSUME NEW x \in Contexts, Leave(x) PROVE HIInv'
  <2>1. HTypeOK' /\ HaltInv'
    BY <1>0, <1>6 DEF HIInv, HTypeOK, HaltInv, Leave, Restore, panics
  <2>2. ProgressInv'
    <3>1. pc'[x] = "idle" /\ call'[x] = None /\ progress'[x] = "none"
      BY <1>6 DEF HIInv, HTypeOK, TypeOK, Leave, Restore
    <3>2. ASSUME NEW y \in Contexts, y # x
          PROVE  pc'[y] = pc[y] /\ call'[y] = call[y] /\ progress'[y] = progress[y]
      BY <1>6, <3>2 DEF HIInv, HTypeOK, TypeOK, Leave, Restore
    <3>3. realHandler' = realHandler
      BY <1>6 DEF Leave
    <3>. QED  BY <3>1, <3>2, <3>3 DEF HIInv, ProgressInv
  <2>. QED  BY <1>0, <2>1, <2>2 DEF HIInv
<1>7. ASSUME NEW c \in Cores, PanicHalt(c) \/ Fault(c) PROVE HIInv'
  <2>1. <<c, level[c]>> \in Contexts
    BY <1>7, ContextParts DEF HIInv, HTypeOK, TypeOK
  <2>. QED
    BY <1>0, <1>7, <2>1 DEF HIInv, HTypeOK, HaltInv, ProgressInv, PanicHalt, Fault, vars, table
<1>8. ASSUME NEW c \in Cores, NEW v \in Vectors, Dispatch(c, v) PROVE HIInv'
  <2>1. HTypeOK'
    <3>1. level[c] + 1 \in Level
      BY <1>8, NestAssumption DEF HIInv, HTypeOK, TypeOK, Dispatch, Interrupt, Level
    <3>2. <<c, level[c] + 1>> \in Contexts
      BY <3>1, ContextParts
    <3>. QED  BY <1>0, <1>8, <3>2 DEF HIInv, HTypeOK, Dispatch, table
  <2>2. HaltInv'
    <3>1. ASSUME NEW d \in halted \cap Cores PROVE level'[d] = level[d]
      BY <1>8, <3>1 DEF HIInv, HTypeOK, TypeOK, Dispatch, Interrupt
    <3>. QED  BY <1>8, <3>1 DEF HIInv, HaltInv, Dispatch
  <2>3. ProgressInv'
    BY <1>8 DEF HIInv, ProgressInv, Dispatch, Interrupt, table
  <2>. QED  BY <1>0, <2>1, <2>2, <2>3 DEF HIInv
<1>9. ASSUME NEW c \in Cores, Resume(c) \/ Toggle(c) PROVE HIInv'
  <2>1. c \notin halted /\ pc' = pc /\ UNCHANGED <<table, panics>>
    BY <1>9 DEF Resume, Toggle, Iret, SetInterrupts, Alive
  <2>2. HTypeOK' /\ ProgressInv'
    BY <1>0, <2>1 DEF HIInv, HTypeOK, ProgressInv, table, panics
  <2>3. HaltInv'
    <3>1. ASSUME NEW d \in halted \cap Cores PROVE level'[d] = level[d]
      BY <1>9, <2>1, <3>1 DEF HIInv, HTypeOK, TypeOK, Resume, Toggle, Iret, SetInterrupts
    <3>. QED  BY <2>1, <3>1 DEF HIInv, HaltInv, panics
  <2>. QED  BY <1>0, <2>2, <2>3 DEF HIInv
<1>10. CASE UNCHANGED allvars
  BY <1>0, <1>10 DEF HIInv, HTypeOK, HaltInv, ProgressInv, allvars, vars, table, panics
<1>11. ASSUME NEW x \in Contexts, Wait(x) PROVE HIInv'
  BY <1>10, <1>11 DEF Wait, Spin, allvars
<1>. QED
  BY <1>1, <1>2, <1>3, <1>4, <1>5, <1>6, <1>7, <1>8, <1>9, <1>10, <1>11, ContextParts
  DEF HNext, HCoreStep, Proceed, Stopped

\* The invariant holds in every state the handlers can reach.
THEOREM HInvariance == HSpec => []HIInv
BY HInitInv, HNextInv, PTL DEF HSpec

\* Every variable of Handlers keeps its type.
THEOREM HandlersTypes == HSpec => []HTypeOK
<1>1. HIInv => HTypeOK
  BY DEF HIInv
<1>. QED  BY <1>1, HInvariance, PTL

\* A halted core keeps the lock only if it panicked inside register_handler:
\* the handlers that dispatch starts leave the code they interrupt in kpanic
\* on a core that does not hold it.
THEOREM OnlyFaultsKeepIt == HSpec => []OnlyFaultsKeepTheLock
<1>1. HIInv => OnlyFaultsKeepTheLock
  <2>. SUFFICES ASSUME HIInv, NEW x \in Contexts, Holds(x), x[1] \in halted
                PROVE  x \in panicking
    BY DEF OnlyFaultsKeepTheLock
  <2>1. x[2] \in Int /\ level[x[1]] \in Int /\ x[1] \in Cores
    BY ContextParts, NestAssumption DEF HIInv, HTypeOK, TypeOK, Level
  <2>2. level[x[1]] = x[2]
    BY <2>1 DEF HIInv, IInv, NestingInv, Holds
  <2>3. <<x[1], level[x[1]]>> \in panicking
    BY <2>1 DEF HIInv, HaltInv, Current
  <2>. QED  BY <2>2, <2>3, ContextParts
<1>. QED  BY <1>1, HInvariance, PTL

-----------------------------------------------------------------------------

\* Each step of Handlers is a step of HandlerTable or invisible there: a call
\* takes effect at Install when it finds its entry free, and at Compare when
\* it finds it taken.
LEMMA TableStep == HIInv /\ [HNext]_allvars => [HT!Next]_HT!hvars
<1>. SUFFICES ASSUME HIInv, HNext PROVE HT!Next \/ UNCHANGED HT!hvars
  BY DEF allvars, table, HT!hvars
<1>1. ASSUME NEW x \in Contexts, NEW a \in Calls, Enter(x, a) PROVE HT!Next
  <2>1. call[x] = None
    BY <1>1 DEF HIInv, ProgressInv, Enter, ReadFlags, At
  <2>2. HT!Invoke(x, a)
    BY <1>1, <2>1 DEF Enter, HT!Invoke
  <2>. QED  BY <2>2 DEF HT!Next, HT!Calls, Calls
<1>2. ASSUME NEW x \in Contexts, Compare(x) PROVE HT!Next \/ UNCHANGED HT!hvars
  <2>1. call[x] # None /\ progress[x] = "none"
    BY <1>2 DEF HIInv, ProgressInv, Compare, At
  <2>2. progress \in [Contexts -> {"none", "free", "true", "false"}]
    BY DEF HIInv, HTypeOK
  <2>3. CASE realHandler[call[x].vector] = Default
    BY <1>2, <2>1, <2>2, <2>3 DEF Compare, HT!hvars
  <2>4. CASE realHandler[call[x].vector] # Default
    <3>1. HT!Reject(x)
      BY <1>2, <2>1, <2>2, <2>4 DEF Compare, HT!Reject
    <3>. QED  BY <3>1 DEF HT!Next
  <2>. QED  BY <2>3, <2>4
<1>3. ASSUME NEW x \in Contexts, Install(x) PROVE HT!Next
  <2>1. call[x] # None /\ progress[x] = "free" /\ realHandler[call[x].vector] = Default
    BY <1>3 DEF HIInv, ProgressInv, Install, At
  <2>2. progress \in [Contexts -> {"none", "free", "true", "false"}]
    BY DEF HIInv, HTypeOK
  <2>3. HT!Accept(x)
    BY <1>3, <2>1, <2>2 DEF Install, HT!Accept
  <2>. QED  BY <2>3 DEF HT!Next
<1>4. ASSUME NEW x \in Contexts, Leave(x) PROVE HT!Next
  <2>1. progress[x] \in {"true", "false"}
    BY <1>4 DEF HIInv, ProgressInv, Leave, Restore, At
  <2>2. progress \in [Contexts -> {"none", "free", "true", "false"}]
    BY DEF HIInv, HTypeOK
  <2>3. HT!Return(x)
    BY <1>4, <2>1, <2>2 DEF Leave, HT!Return
  <2>. QED  BY <2>3 DEF HT!Next
<1>5. ASSUME NEW x \in Contexts, Acquire(x) \/ Unlock(x) \/ Wait(x) PROVE UNCHANGED HT!hvars
  BY <1>5 DEF Acquire, Unlock, Wait, table, HT!hvars
<1>6. ASSUME NEW c \in Cores, Resume(c) \/ PanicHalt(c) \/ Fault(c) \/ Toggle(c)
      PROVE  UNCHANGED HT!hvars
  BY <1>6 DEF Resume, PanicHalt, Fault, Toggle, table, HT!hvars
<1>7. ASSUME NEW c \in Cores, NEW v \in Vectors, Dispatch(c, v) PROVE UNCHANGED HT!hvars
  BY <1>7 DEF Dispatch, table, HT!hvars
<1>8. CASE Stopped
  BY <1>8 DEF Stopped, allvars, table, HT!hvars
<1>. QED  BY <1>1, <1>2, <1>3, <1>4, <1>5, <1>6, <1>7, <1>8, ContextParts
          DEF HNext, HCoreStep, Proceed

\* register_handler tests and sets an entry as if in one step, for any number
\* of cores, any nesting of interrupts, and whatever the handlers do.
THEOREM HandlersImplementTheTable == HSpec => ImplementsHandlerTable
<1>1. HInit => HT!Init
  BY DEF HInit, HT!Init
<1>. QED  BY <1>1, TableStep, HInvariance, PTL DEF HSpec, ImplementsHandlerTable, HT!Spec

===============================================================================
