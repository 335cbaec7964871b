---------------------------- MODULE InterruptStub ----------------------------
(***************************************************************************)
(* The interrupt entry of kernel/arch/x86_64/intr.S: an entry per vector   *)
(* completes what the processor pushed, isr_handler_stub saves the         *)
(* registers as a struct registers_ctx, calls realHandler[vector] with its *)
(* address and restores them.  Interrupts nest at every instruction that   *)
(* the gates of init_idt leave open to them.                               *)
(*                                                                         *)
(* The stack is a sequence of words, the last one at the lowest address,   *)
(* and rsp is its length.  A word is a pair of what it is and its value;   *)
(* the value of a general register is the depth of the code that set it.   *)
(***************************************************************************)
EXTENDS Integers, Sequences, SequencesExt

CONSTANTS
  Vectors,  \* the vectors that occur
  MaxNest   \* how deep interrupts nest (a bound of the model)

ASSUME VectorAssumption == Vectors \subseteq 0 .. 255
ASSUME MaxNestAssumption == MaxNest \in Nat

VARIABLES
  regs,   \* the general registers
  stack,
  iflag,  \* bit 9 of RFLAGS
  pc,     \* the next instruction: of the boot code, of a handler, or number k
          \* of the stub; "crash" when rip is taken from a word that is none
  saved   \* for each interrupt in progress, what it interrupted (history)

vars == <<regs, stack, iflag, pc, saved>>

-----------------------------------------------------------------------------
(* intr.S as a program *)

Each(op, args) == [k \in 1 .. Len(args) |-> [op |-> op, arg |-> args[k]]]

Pushed == <<"rdi", "rsi", "rbp", "rdx", "rcx", "rbx", "rax", "r8", "r9", "r10",
            "r11", "r12", "r13", "r14", "r15">>
Controls == <<"cr0", "cr2", "cr3", "cr4", "ds", "es">>
Popped_Swapped == <<"r15", "r14", "r13", "r12", "r11", "r10", "r9", "r8", "rax", "rbx",
                    "rcx", "rdx", "rsi", "rbp", "rdi">>
Popped == <<"r15", "r14", "r13", "r12", "r11", "r10", "r9", "r8", "rax", "rbx",
            "rcx", "rdx", "rbp", "rsi", "rdi">>

General == ToSet(Pushed)

\* The vectors for which the entry counts on the processor's error code.
HasErrorCode_NotThirty(v) == v \in {8, 10, 11, 12, 13, 14, 17}
HasErrorCode(v) == v \in {8, 10, 11, 12, 13, 14, 17, 30}

\* The word of the vector lies 168 bytes above rsp.
VectorOffset_OneWordUp == 176 \div 8
VectorOffset == 168 \div 8

Entry(v) == Each("number", IF HasErrorCode(v) THEN <<v>> ELSE <<0, v>>)

isr_handler_stub_FallsThrough ==
  Each("push", Pushed) \o Each("control", Controls)
    \o Each("call", <<VectorOffset>>) \o Each("drop", <<48 \div 8>>)
    \o Each("pop", Popped) \o Each("drop", <<16 \div 8>>)
isr_handler_stub ==
  Each("push", Pushed) \o Each("control", Controls)
    \o Each("call", <<VectorOffset>>) \o Each("drop", <<48 \div 8>>)
    \o Each("pop", Popped) \o Each("drop", <<16 \div 8>>) \o Each("iretq", <<0>>)

Program(v) == Entry(v) \o isr_handler_stub

\* struct registers_ctx, from its lowest address up.
registers_ctx ==
  <<"es", "ds", "cr4", "cr3", "cr2", "cr0",
    "r15", "r14", "r13", "r12", "r11", "r10", "r9", "r8", "rax", "rbx", "rcx", "rdx",
    "rsi", "rdi", "rbp", "interrupt_vector", "error_code", "rip", "cs", "rflags", "rsp", "ss">>

Location(at, v, k) == [at |-> at, vector |-> v, k |-> k]
Code == Location("code", 0, 0)
Crash == Location("crash", 0, 0)

-----------------------------------------------------------------------------

Depth == Len(saved)

Init ==
  /\ regs = [r \in General |-> <<r, 0>>]
  /\ \E used \in 0 .. 1 : stack = [k \in 1 .. used |-> <<"frame", 0>>]
  /\ iflag \in BOOLEAN
  /\ pc = Code
  /\ saved = <<>>

\* The vectors for which a processor pushes an error code.
PushesErrorCode(v) == v \in {8, 10, 11, 12, 13, 14, 17, 21, 29, 30}

\* What can come now: a device if interrupts are on, the non-maskable
\* interrupt at any time, an exception from code written in C.
CanOccur(v) ==
  \/ v >= 32 /\ iflag
  \/ v = 2
  \/ v < 32 /\ pc.at \in {"code", "handler"}

\* The processor aligns rsp to 16 bytes and pushes ss, rsp, rflags, cs and rip.
\* Through an interrupt gate, from vector 32 on, it turns interrupts off.
Interrupt(v) ==
  /\ Depth < MaxNest /\ pc # Crash
  /\ CanOccur(v)
  /\ stack' = stack
        \o (IF Len(stack) % 2 = 1 THEN <<<<"padding", 0>>>> ELSE <<>>)
        \o <<<<"ss", 0>>, <<"rsp", Len(stack)>>, <<"rflags", iflag>>, <<"cs", 0>>, <<"rip", pc>>>>
        \o (IF PushesErrorCode(v) THEN <<<<"error", v>>>> ELSE <<>>)
  /\ iflag' = (iflag /\ v < 32)
  /\ pc' = Location("stub", v, 1)
  /\ saved' = Append(saved, [vector |-> v, regs |-> regs, iflag |-> iflag,
                             pc |-> pc, rsp |-> Len(stack)])
  /\ UNCHANGED regs

-----------------------------------------------------------------------------
(* The instructions *)

\* The word n words above rsp.
Word(n) == stack[Len(stack) - n]
Drop(n) == SubSeq(stack, 1, Len(stack) - n)

\* Where a word that is used as an address of code leads.
Target(w) == IF w[1] = "rip" THEN w[2] ELSE Crash

Instr == Program(pc.vector)[pc.k]
Executes(op) == pc.at = "stub" /\ Instr.op = op
Onward == pc' = [pc EXCEPT !.k = @ + 1]

PushNumber ==
  /\ Executes("number")
  /\ stack' = Append(stack, <<"number", Instr.arg>>)
  /\ Onward
  /\ UNCHANGED <<regs, iflag, saved>>

Push ==
  /\ Executes("push")
  /\ stack' = Append(stack, regs[Instr.arg])
  /\ Onward
  /\ UNCHANGED <<regs, iflag, saved>>

\* movq %cr0, %rax; pushq %rax and the like
PushControl ==
  /\ Executes("control")
  /\ regs' = [regs EXCEPT !["rax"] = <<Instr.arg, 0>>]
  /\ stack' = Append(stack, <<Instr.arg, 0>>)
  /\ Onward
  /\ UNCHANGED <<iflag, saved>>

\* rdi gets the address of the structure, rbx the vector, and the entry of
\* realHandler is called: its return address is pushed.
Call ==
  /\ Executes("call")
  /\ regs' = [regs EXCEPT !["rdi"] = <<"rsp", Len(stack)>>, !["rbx"] = Word(Instr.arg),
                          !["rax"] = <<"realHandler", 0>>]
  /\ stack' = Append(stack, <<"rip", [pc EXCEPT !.k = @ + 1]>>)
  /\ pc' = IF Word(Instr.arg)[1] = "number"
           THEN Location("handler", Word(Instr.arg)[2], 0) ELSE Crash
  /\ UNCHANGED <<iflag, saved>>

DropWords ==
  /\ Executes("drop")
  /\ stack' = Drop(Instr.arg)
  /\ Onward
  /\ UNCHANGED <<regs, iflag, saved>>

Pop ==
  /\ Executes("pop")
  /\ regs' = [regs EXCEPT ![Instr.arg] = Word(0)]
  /\ stack' = Drop(1)
  /\ Onward
  /\ UNCHANGED <<iflag, saved>>

\* rip, cs, rflags, rsp and ss come from the stack.
Iretq ==
  /\ Executes("iretq")
  /\ IF Word(0)[1] = "rip"
     THEN /\ pc' = Word(0)[2] /\ iflag' = Word(2)[2]
          /\ stack' = SubSeq(stack, 1, Word(3)[2])
     ELSE pc' = Crash /\ UNCHANGED <<iflag, stack>>
  /\ saved' = Front(saved)
  /\ UNCHANGED regs

-----------------------------------------------------------------------------
(* Code written in C *)

CallerSaved == {"rax", "rcx", "rdx", "rsi", "rdi", "r8", "r9", "r10", "r11"}

\* A handler returns; what its caller does not count on it may have changed.
HandlerReturns ==
  /\ pc.at = "handler"
  /\ regs' = [r \in General |-> IF r \in CallerSaved THEN <<"scratch", Depth>> ELSE regs[r]]
  /\ pc' = Target(Word(0))
  /\ stack' = Drop(1)
  /\ UNCHANGED <<iflag, saved>>

Execute ==
  \/ PushNumber \/ Push \/ PushControl \/ Call \/ DropWords \/ Pop \/ Iretq
  \/ HandlerReturns

Next == (\E v \in Vectors : Interrupt(v)) \/ Execute

Spec == Init /\ [][Next]_vars

-----------------------------------------------------------------------------
(* Properties *)

\* Every variable has its type; rsp never rises above the interrupted code's.
TypeOK ==
  /\ \A r \in General : Len(regs[r]) = 2
  /\ iflag \in BOOLEAN
  /\ pc.at \in {"code", "handler", "stub", "crash"} /\ pc.vector \in 0 .. 255
  /\ pc.at = "stub" => pc.k \in 1 .. Len(Program(pc.vector))
  /\ Depth <= MaxNest
  /\ Depth > 0 => Len(stack) >= Last(saved).rsp

\* The structure at the address in rdi, by the names of its fields.
Field(f) ==
  stack[regs["rdi"][2] + 1 - CHOOSE k \in 1 .. Len(registers_ctx) : registers_ctx[k] = f]
InHandler == pc.at = "handler"

\* The handler called is the one of the interrupt's vector, and it finds in its
\* registers_ctx that vector and the error code the processor pushed, or 0.
FrameFits ==
  InHandler =>
    /\ pc.vector = Last(saved).vector
    /\ Field("interrupt_vector") = <<"number", Last(saved).vector>>
    /\ Field("error_code") = IF PushesErrorCode(Last(saved).vector)
                             THEN <<"error", Last(saved).vector>> ELSE <<"number", 0>>

\* The fields that intr.h:17 comments "CPU automatically pushes".
ProcessorFieldsFit ==
  InHandler =>
    /\ Field("rip") = <<"rip", Last(saved).pc>>
    /\ Field("rflags") = <<"rflags", Last(saved).iflag>>
    /\ Field("rsp") = <<"rsp", Last(saved).rsp>>

\* The stack is aligned to 16 bytes where the handler is called, as the C
\* calling convention requires.
AlignedCall == InHandler => Len(stack) % 2 = 1

\* Wherever an interrupt strikes, iretq goes back to that instruction with the
\* registers, the stack and the interrupt flag it found.
ResumesWhatItInterrupted ==
  [][Len(saved') < Len(saved) =>
       /\ regs' = Last(saved).regs /\ pc' = Last(saved).pc
       /\ iflag' = Last(saved).iflag /\ Len(stack') = Last(saved).rsp]_vars

\* What kpanic says it prints (kpanic.inl:98, "Registers Dump", and the labels
\* of lines 101 to 108): the field of a register holds that register.
FieldsHoldTheirRegisters ==
  InHandler => \A r \in General : Field(r) = Last(saved).regs[r]

=============================================================================
