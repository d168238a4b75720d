----------------------------- MODULE KernelEntry ------------------------------
(***************************************************************************)
(* The ways into the kernel and back: CPU exceptions and IRQ 0             *)
(* (kernel/src/arch/x86_64/idt.rs) and SYSCALL (syscall.asm), with the     *)
(* Rust functions they call (bin/kernel.rs, syscall/mod.rs), and the first *)
(* entry of a task through a synthetic interrupt frame (scheduler/task.rs, *)
(* scheduler/context.rs).  A path pushes registers in one order, hands     *)
(* parts of the stack to Rust by offset, and pops in another order; what   *)
(* is interrupted must not notice.                                         *)
(*                                                                         *)
(* A register holds a pair that names its content; the stack is a sequence *)
(* with its top first, one element for each 8-byte word.  The code that is *)
(* interrupted may be anything that runs with the user's registers.        *)
(***************************************************************************)
EXTENDS Integers, Sequences, SequencesExt

CONSTANTS
    Numbers,        \* contents the user puts into RAX, RSI and RBP
    Vectors         \* the exceptions that the processor can raise

(* Vectors for which the processor pushes an error code, on the processors  *)
(* without the extensions behind vectors 21, 29 and 30.                     *)
CPU_ERROR_CODE == {8, 10, 11, 12, 13, 14, 17}

(* Mutant: the stub of the alignment check pushes a dummy as most do.       *)
STUB_ERROR_CODE_Not17 == {8, 10, 11, 12, 13, 14}

(* Vectors whose stub leaves it to the processor to push an error code; the *)
(* other stubs push a dummy.                                                *)
STUB_ERROR_CODE == {8, 10, 11, 12, 13, 14, 17}

ASSUME EntryAssumption ==
    /\ Numbers \subseteq Nat
    /\ Vectors \subseteq (0 .. 31) \ {21, 29, 30}

VARIABLES
    at,         \* where the processor is
    path,       \* "irq", "exception", "syscall" or "start"
    regs,       \* the registers
    stack,      \* the stack the path runs on
    vector,
    was,        \* ghost: the registers when the path was entered
    seen        \* ghost: what the Rust function was given

vars == <<at, path, regs, stack, vector, was, seen>>

GPR == {"rax", "rcx", "rdx", "rbx", "rbp", "rsi", "rdi", "r8", "r9", "r10", "r11", "r12",
        "r13", "r14", "r15"}
Reg == GPR \cup {"rip", "rflags", "rsp"}

CalleeSaved == {"rbx", "rbp", "r12", "r13", "r14", "r15"}

Num(n) == <<"n", n>>
Junk == <<"junk", 0>>

UserRegs == [r \in Reg |-> <<r, 0>>]

Init ==
    /\ at = "running" /\ path = "irq"
    /\ regs = UserRegs /\ was = UserRegs
    /\ stack = << >> /\ vector = 0 /\ seen = << >>

-----------------------------------------------------------------------------
(* push of registers in order: the last one is on top.                      *)
pushed(order) == [i \in 1 .. Len(order) |-> regs[order[Len(order) + 1 - i]]] \o stack

(* pop into registers in order.                                             *)
popped(order) ==
    [r \in Reg |-> IF \E i \in 1 .. Len(order) : order[i] = r
                   THEN stack[CHOOSE i \in 1 .. Len(order) : order[i] = r] ELSE regs[r]]

(* The word at [rsp + offset].                                              *)
word(offset) == stack[offset \div 8 + 1]

(* Rust code may leave anything in the registers a function need not save.  *)
called(result) ==
    [r \in Reg |-> IF r = "rax" THEN result
                   ELSE IF r \in CalleeSaved \cup {"rip", "rflags", "rsp"} THEN regs[r] ELSE Junk]

-----------------------------------------------------------------------------
(* User code runs: it puts numbers into registers.                          *)
user_runs ==
    /\ at = "running"
    /\ regs = UserRegs
    /\ \E rax, rsi, rbp \in Numbers :
         regs' = [UserRegs EXCEPT !["rax"] = Num(rax), !["rsi"] = Num(rsi), !["rbp"] = Num(rbp)]
    /\ UNCHANGED <<at, path, stack, vector, was, seen>>

(* The processor enters a gate: SS, RSP, RFLAGS, CS and RIP are pushed, and *)
(* an error code for some exceptions; the stub adds the rest.               *)
iret_frame == <<regs["rip"], <<"cs", 0>>, regs["rflags"], regs["rsp"], <<"ss", 0>>>>

error_code(v) == IF v \in CPU_ERROR_CODE THEN <<<<"error", v>>>> ELSE << >>

dummy_code(v) == IF v \in STUB_ERROR_CODE THEN << >> ELSE <<Num(0)>>

isr ==
    /\ at = "running"
    /\ \E v \in Vectors :
         /\ vector' = v
         /\ stack' = <<Num(v)>> \o dummy_code(v) \o error_code(v) \o iret_frame
    /\ path' = "exception" /\ at' = "save" /\ was' = regs
    /\ UNCHANGED <<regs, seen>>

irq0 ==
    /\ at = "running"
    /\ stack' = <<Num(32)>> \o iret_frame
    /\ vector' = 32
    /\ path' = "irq" /\ at' = "save" /\ was' = regs
    /\ UNCHANGED <<regs, seen>>

(* SYSCALL pushes nothing: RIP is in RCX and RFLAGS in R11.                 *)
syscall ==
    /\ at = "running"
    /\ regs' = [regs EXCEPT !["rcx"] = regs["rip"], !["r11"] = regs["rflags"]]
    /\ stack' = << >>
    /\ path' = "syscall" /\ at' = "save" /\ was' = regs
    /\ UNCHANGED <<vector, seen>>

all_saved == <<"rax", "rcx", "rdx", "rbx", "rbp", "rsi", "rdi", "r8", "r9", "r10", "r11",
               "r12", "r13", "r14", "r15">>

(* unbound_exception_common and unbound_irq_common push every register.     *)
gate_save ==
    /\ at = "save" /\ path \in {"exception", "irq"}
    /\ stack' = pushed(all_saved)
    /\ at' = path
    /\ UNCHANGED <<path, regs, vector, was, seen>>

(* unbound_syscall_entry: R12 takes the user's RSP and is pushed first.     *)
syscall_saved == <<"r12", "rcx", "r11", "rax", "rdx", "rbx", "rbp", "rsi", "rdi", "r8", "r9",
                   "r10", "r13", "r14", "r15">>

syscall_save ==
    /\ at = "save" /\ path = "syscall"
    /\ regs' = [regs EXCEPT !["r12"] = regs["rsp"]]
    /\ stack' = [i \in 1 .. Len(syscall_saved) |->
                   regs'[syscall_saved[Len(syscall_saved) + 1 - i]]]
    /\ at' = "syscall"
    /\ UNCHANGED <<path, vector, was, seen>>

(* unbound_exception_handler gets [rsp + 120] and reads vector, error code  *)
(* and RIP; it returns.                                                     *)
exception_handler ==
    /\ at = "exception"
    /\ seen' = <<word(120), word(128), word(136)>>
    /\ regs' = called(Junk)
    /\ at' = "restore"
    /\ UNCHANGED <<path, stack, vector, was>>

(* unbound_timer_handler returns the frame it is given: RSP stays.          *)
timer_handler ==
    /\ at = "irq"
    /\ seen' = <<word(120), word(128)>>
    /\ regs' = called(Junk)
    /\ at' = "restore"
    /\ UNCHANGED <<path, stack, vector, was>>

SYS_GET_VERSION == Num(0)

dispatch(number) == IF number = SYS_GET_VERSION THEN <<"version", 1>> ELSE <<"max", 0>>

(* Arguments are loaded by offset and passed as RDI, RSI, RDX and RCX.      *)
syscall_dispatch ==
    /\ at = "syscall"
    /\ LET rdi == word(56) rsi == word(64) rdx == word(88) IN
         /\ seen' = <<rdi, rsi, rdx, regs["rcx"]>>
         /\ regs' = called(dispatch(rdi))
    /\ at' = "restore"
    /\ UNCHANGED <<path, stack, vector, was>>

(* What prepare_preemptive_start says of a task that has been started: zero *)
(* in every register, the entry, IF set, and the stack below the reserve.   *)
started ==
    [r \in Reg |-> CASE r = "rip"    -> <<"entry", 0>>
                     [] r = "rflags" -> Num(514)
                     [] r = "rsp"    -> <<"task_stack", 0>>
                     [] OTHER        -> Num(0)]

(* initialize_interrupt_context writes 15 registers, the vector, RIP, CS    *)
(* and RFLAGS below INITIAL_STACK_RESERVE, 2048 bytes that are still zero;  *)
(* two words of them are shown.  The switch to the trampoline,              *)
(* unbound_start_interrupt_context, sets RSP to the frame.                  *)
initialize_interrupt_context ==
    /\ at = "running"
    /\ stack' = [i \in 1 .. 15 |-> Num(0)]
                  \o <<Num(32), <<"entry", 0>>, <<"cs", 0>>, Num(514)>>
                  \o <<Num(0), Num(0)>>
    /\ was' = started
    /\ path' = "start" /\ at' = "restore"
    /\ UNCHANGED <<regs, vector, seen>>

(* Mutant: RBX and RBP are popped in the wrong order.                       *)
gate_pops_Swapped == [all_saved EXCEPT ![4] = "rbp", ![5] = "rbx"]

gate_pops == all_saved

(* The pops, one word off the stack (vector), and iretq, which in long mode *)
(* takes RIP, CS, RFLAGS, RSP and SS whatever the privilege levels are.     *)
(* The trampoline of context.rs is the same sequence.                       *)
gate_return ==
    /\ at = "restore" /\ path \in {"exception", "irq", "start"}
    /\ LET frame == SubSeq(stack, 17, Len(stack)) IN
         /\ regs' = [popped(Reverse(gate_pops)) EXCEPT
                       !["rip"] = frame[1], !["rflags"] = frame[3], !["rsp"] = frame[4]]
         /\ stack' = << >>
    /\ at' = "resumed"
    /\ UNCHANGED <<path, vector, was, seen>>

(* Mutant: the saved RAX is not skipped.                                    *)
syscall_pops_NoSkip == <<"r15", "r14", "r13", "r10", "r9", "r8", "rdi", "rsi", "rbp", "rbx",
                         "rdx", "r11", "rcx", "r12">>

(* The pops of unbound_syscall_entry; RAX is skipped.                       *)
syscall_pops == <<"r15", "r14", "r13", "r10", "r9", "r8", "rdi", "rsi", "rbp", "rbx", "rdx",
                  "skip", "r11", "rcx", "r12">>

(* RSP from R12; SYSRET takes RIP from RCX and RFLAGS from R11.             *)
syscall_return ==
    /\ at = "restore" /\ path = "syscall"
    /\ LET r == popped(syscall_pops) IN
         regs' = [r EXCEPT !["rsp"] = r["r12"], !["rip"] = r["rcx"], !["rflags"] = r["r11"]]
    /\ stack' = << >>
    /\ at' = "resumed"
    /\ UNCHANGED <<path, vector, was, seen>>

(* What was interrupted goes on, if the processor is back in it and has its *)
(* stack.                                                                   *)
go_on ==
    /\ at = "resumed"
    /\ regs["rip"] = was["rip"] /\ regs["rsp"] = was["rsp"]
    /\ regs' = UserRegs /\ at' = "running"
    /\ UNCHANGED <<path, stack, vector, was, seen>>

Next ==
    \/ user_runs \/ isr \/ irq0 \/ syscall
    \/ initialize_interrupt_context
    \/ gate_save \/ syscall_save
    \/ exception_handler \/ timer_handler \/ syscall_dispatch
    \/ gate_return \/ syscall_return \/ go_on

Spec == Init /\ [][Next]_vars

-----------------------------------------------------------------------------
(* Properties.                                                              *)

(* A timer interrupt is not noticed: every register, the place and the      *)
(* stack are as before.                                                     *)
IrqTransparent == at = "resumed" /\ path = "irq" => regs = was

(* A system call returns to the instruction after it, on the user's stack   *)
(* and with the user's flags, and with every register but RAX, which has    *)
(* the result, and RCX, R11 and R12, as it was.                             *)
SyscallReturns ==
    at = "resumed" /\ path = "syscall" =>
      \A r \in Reg \ {"rax", "rcx", "r11", "r12"} : regs[r] = was[r]

(* The exception handler reads the vector, the error code (0 where there is *)
(* none) and the RIP of this exception, whichever stub it came through: the *)
(* stubs push a dummy exactly where the processor pushes nothing.           *)
HandlerSeesFrame ==
    at = "restore" /\ path = "exception" =>
      seen = <<Num(vector),
               IF vector \in CPU_ERROR_CODE THEN <<"error", vector>> ELSE Num(0),
               was["rip"]>>

-----------------------------------------------------------------------------
(* Statements of the source that the code does not keep.                    *)

(* "Remove: vector, error code": an exception the handler returns from      *)
(* resumes where it happened.                                               *)
ExceptionResumes == at = "resumed" /\ path = "exception" => regs = was

(* "RAX = syscall number, RDI = arg0, RSI = arg1, RDX = arg2": the result   *)
(* is the one for the number in RAX.                                        *)
NumberDispatched ==
    at = "resumed" /\ path = "syscall" => regs["rax"] = dispatch(was["rax"])

(* "leaves RSP at context_rsp + 152, which equals stack_top -               *)
(* INITIAL_STACK_RESERVE": a task that is started through its synthetic     *)
(* frame runs on its own stack.                                             *)
TaskStartsOnItsStack == at = "resumed" /\ path = "start" => regs = was

(* "R12 is saved into the syscall frame ..., so its temporary use here is   *)
(* safe": the user finds R12 as it was.                                     *)
R12Kept == at = "resumed" /\ path = "syscall" => regs["r12"] = was["r12"]
=============================================================================
