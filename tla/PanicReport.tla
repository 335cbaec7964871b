----------------------------- MODULE PanicReport -----------------------------
(***************************************************************************)
(* The registers that kpanic, kernel/core/kpanic.inl, reports: those of    *)
(* the registers_ctx it is given, or, when the kernel itself panics, those *)
(* that capture_regs stores into a structure on the stack.                 *)
(***************************************************************************)
EXTENDS InterruptStub

VARIABLE report  \* the registers printed, NoReport before

NoReport == <<>>

\* The general registers capture_regs reads, in order, and the fields they go to.
Read == <<"rax", "rbx", "rcx", "rdx", "rsi", "rdi", "rbp", "r8", "r9", "r10",
          "r11", "r12", "r13", "r14", "r15">>
Stored == <<"rax", "rbx", "rcx", "rdx", "rsi", "rdi", "rbp", "r9", "r9", "r10",
            "r11", "r12", "r13", "r14", "r15">>

\* The last store into a field counts; a field without one is uninitialised.
capture_regs ==
  [f \in General |->
     IF f \in ToSet(Stored)
     THEN regs[Read[SelectLastInSeq(Stored, LAMBDA g : g = f)]]
     ELSE <<"uninitialised", 0>>]

RInit == Init /\ report = NoReport

\* kpanic(ctx, nullptr), from the default handler.
PanicInHandler ==
  /\ InHandler /\ report = NoReport
  /\ report' = [f \in General |-> Field(f)]
  /\ UNCHANGED vars

\* kpanic(nullptr, text), called by the kernel: regs are the registers at the
\* time capture_regs reads them.
PanicInKernel ==
  /\ pc = Code /\ report = NoReport
  /\ report' = capture_regs
  /\ UNCHANGED vars

\* kpanic does not return.
RNext ==
  \/ report = NoReport /\ Next /\ UNCHANGED report
  \/ PanicInHandler
  \/ PanicInKernel
  \/ report # NoReport /\ UNCHANGED <<vars, report>>

RSpec == RInit /\ [][RNext]_<<vars, report>>

\* What the labels say that kpanic prints ("R8" at kpanic.inl:105): when the
\* kernel itself panics, each register it had.
KernelReportIsComplete ==
  pc = Code /\ report # NoReport => \A r \in General : report[r] = regs[r]

=============================================================================
