------------------------------- MODULE Processor ------------------------------
(***************************************************************************)
(* The processor state that the kernel sets up before it leaves for ring 3 *)
(* (kernel/src/arch/x86_64/{gdt,tss,idt,msr,pic,syscall}.rs) and what the  *)
(* processor does with it: how an interrupt or exception is delivered,     *)
(* IRETQ, SYSCALL and SYSRET.  c is that state; operators change it.       *)
(*                                                                         *)
(* A descriptor is its kind and a stack its name: an address matters only  *)
(* by the stack it points into, NoStack where nothing was stored.          *)
(***************************************************************************)
EXTENDS Integers, Sequences

NoStack == "none"

(* The tables that stage 2 leaves: null, code32, data, code64.              *)
stage2_gdt == <<"null", "code32", "kernel_data", "code64">>

KERNEL_CODE_SELECTOR == 8
KERNEL_DATA_SELECTOR == 16
TSS_SELECTOR == 24
USER_DATA_SELECTOR_R3 == 40 + 3
USER_CODE_SELECTOR_R3 == 48 + 3
STAGE2_CODE_SELECTOR == 24

(* What _start finds: stage 2's tables, interrupts off, its stack, nothing  *)
(* in the tables of the kernel.  No IDT was ever loaded.                    *)
entered_from_stage2 ==
    [gdt |-> [i \in 1 .. 7 |-> "null"], gdtr |-> "stage2", tr |-> 0,
     tss |-> [rsp0 |-> NoStack, ist1 |-> NoStack],
     idt |-> << >>, idtr |-> FALSE,
     cs |-> STAGE2_CODE_SELECTOR, ss |-> KERNEL_DATA_SELECTOR, cpl |-> 0, int_flag |-> FALSE,
     rsp |-> "boot", frames |-> << >>, rcx |-> "none", r11 |-> FALSE,
     syscall_stack_top |-> NoStack, sce |-> FALSE,
     star |-> [user |-> 0, kernel |-> 0], lstar |-> "none", cstar |-> "none", fmask |-> {},
     ok |-> TRUE]

-----------------------------------------------------------------------------
(* gdt.rs and tss.rs.                                                       *)

(* The descriptor that the processor finds for a selector.                  *)
descriptor(c, selector) ==
    LET table == IF c.gdtr = "stage2" THEN stage2_gdt ELSE c.gdt
        i == selector \div 8 + 1
    IN  IF i \in DOMAIN table THEN table[i] ELSE "none"

(* The privilege level of a 64-bit code segment, and of a data segment.     *)
code_dpl(kind) == CASE kind \in {"code64", "kernel_code"} -> 0 [] kind = "user_code" -> 3
                    [] OTHER -> -1
data_dpl(kind) == CASE kind = "kernel_data" -> 0 [] kind = "user_data" -> 3 [] OTHER -> -1

write_entries(c) ==
    [c EXCEPT !.gdt = <<"null", "kernel_code", "kernel_data", "null", "null",
                        "user_data", "user_code">>]

tss_init(c) == [c EXCEPT !.tss.ist1 = "ist1"]

install_tss(c) == [c EXCEPT !.gdt[4] = "tss", !.gdt[5] = "tss_high"]

lgdt(c) == [c EXCEPT !.gdtr = "GDT"]

(* RETFQ to CS 0x08, and 0x10 into the others: the selectors must name      *)
(* descriptors of the right kind.                                           *)
unbound_reload_segments(c) ==
    [c EXCEPT !.cs = KERNEL_CODE_SELECTOR, !.ss = KERNEL_DATA_SELECTOR,
              !.ok = @ /\ code_dpl(descriptor(c, KERNEL_CODE_SELECTOR)) = 0
                       /\ data_dpl(descriptor(c, KERNEL_DATA_SELECTOR)) = 0]

load_task_register(c) ==
    [c EXCEPT !.tr = TSS_SELECTOR,
              !.ok = @ /\ descriptor(c, TSS_SELECTOR) = "tss"]

gdt_init(c) ==
    load_task_register(unbound_reload_segments(lgdt(install_tss(tss_init(write_entries(c))))))

verify_user_segments(c) == c.gdt[6] = "user_data" /\ c.gdt[7] = "user_code"

verify_task_register(c) == c.tr = TSS_SELECTOR

(* RSP0 is the stack for events that come from ring 3.                      *)
set_rsp0(c, stack) == [c EXCEPT !.tss.rsp0 = stack]

-----------------------------------------------------------------------------
(* idt.rs.  A gate is its IST number; every gate clears IF.                 *)

IRQ0_VECTOR == 32

(* Mutant: the gate of the general protection fault is forgotten.           *)
idt_init_Misses13(c) ==
    [c EXCEPT !.idt = [v \in (0 .. IRQ0_VECTOR) \ {13} |-> IF v = 8 THEN 1 ELSE 0],
              !.idtr = TRUE]

idt_init(c) ==
    [c EXCEPT !.idt = [v \in 0 .. IRQ0_VECTOR |-> IF v = 8 THEN 1 ELSE 0], !.idtr = TRUE]

-----------------------------------------------------------------------------
(* syscall.rs and msr.rs.                                                   *)

initialize_stack(c) == [c EXCEPT !.syscall_stack_top = "syscall"]

enable_syscall_extensions(c) == [c EXCEPT !.sce = TRUE]

(* Mutant: the base for SYSRET is the user data selector.                   *)
make_star_UserData == [user |-> 40, kernel |-> KERNEL_CODE_SELECTOR]

make_star == [user |-> 32, kernel |-> KERNEL_CODE_SELECTOR]

(* Mutant: SYSCALL leaves IF set.                                           *)
SYSCALL_FMASK_Nothing == {}

SYSCALL_FMASK == {"IF"}

init_syscall_msrs(c, lstar) ==
    [c EXCEPT !.star = make_star, !.lstar = lstar, !.cstar = "null", !.fmask = SYSCALL_FMASK]

verify_syscall_msrs(c, lstar) ==
    c.star = make_star /\ c.lstar = lstar /\ c.cstar = "null" /\ c.fmask = SYSCALL_FMASK

-----------------------------------------------------------------------------
(* What the processor does.                                                 *)

(* The stack an event is delivered on: the gate's IST, RSP0 from ring 3, or *)
(* the one in use.                                                          *)
event_stack(c, vector) ==
    IF c.idt[vector] = 1 THEN c.tss.ist1 ELSE IF c.cpl = 3 THEN c.tss.rsp0 ELSE c.rsp

(* An event reaches its handler if there is a gate, the gate's selector is  *)
(* kernel code and there is a stack, for which TR must name the TSS.        *)
deliverable(c, vector) ==
    /\ c.idtr /\ vector \in DOMAIN c.idt
    /\ code_dpl(descriptor(c, KERNEL_CODE_SELECTOR)) = 0
    /\ event_stack(c, vector) # NoStack
    /\ c.cpl = 3 \/ c.idt[vector] = 1 => descriptor(c, c.tr) = "tss"

(* words: what the processor and the stub push besides the five words of    *)
(* the frame.  SS becomes null when the privilege changes.                  *)
delivered(c, vector, words, resume) ==
    LET stack == event_stack(c, vector)
        frame == [cs |-> c.cs, ss |-> c.ss, cpl |-> c.cpl, int_flag |-> c.int_flag,
                  rsp |-> c.rsp, words |-> words, stack |-> stack, resume |-> resume]
    IN  [c EXCEPT !.frames = <<frame>> \o @, !.cs = KERNEL_CODE_SELECTOR,
                  !.ss = IF c.cpl = 3 THEN 0 ELSE @, !.cpl = 0, !.int_flag = FALSE,
                  !.rsp = stack]

(* IRETQ checks the descriptor of the CS it returns to.                     *)
iretq(c) ==
    LET f == Head(c.frames) IN
      [c EXCEPT !.frames = Tail(@), !.cs = f.cs, !.ss = f.ss, !.cpl = f.cpl,
                !.int_flag = f.int_flag, !.rsp = f.rsp,
                !.ok = @ /\ code_dpl(descriptor(c, f.cs)) = f.cpl]

(* SYSCALL leaves RSP alone, and RIP and RFLAGS in RCX and R11, which       *)
(* SYSRET takes them from.  Neither looks at a descriptor.                  *)
syscall(c, resume) ==
    [c EXCEPT !.cs = c.star.kernel, !.ss = c.star.kernel + 8, !.cpl = 0,
              !.rcx = resume, !.r11 = c.int_flag,
              !.int_flag = @ /\ "IF" \notin c.fmask]

sysretq(c) ==
    [c EXCEPT !.cs = c.star.user + 16 + 3, !.ss = c.star.user + 8 + 3, !.cpl = 3,
              !.int_flag = c.r11]

-----------------------------------------------------------------------------
(* The interrupt controller, as far as IRQ0 goes: the vector it sends,      *)
(* whether IRQ0 is requested, and whether one is in service.                *)

(* As the BIOS programs it: IRQ0 is vector 8.                               *)
bios_pic == [vector |-> 8, requested |-> FALSE, in_service |-> FALSE]

pic_init(p) == [p EXCEPT !.vector = IRQ0_VECTOR, !.requested = FALSE, !.in_service = FALSE]

(* Mutant: the end of the interrupt is not sent.                            *)
end_of_interrupt_Not(p) == p

end_of_interrupt(p) == [p EXCEPT !.in_service = FALSE]

(* The processor acknowledges: the request is taken.                        *)
acknowledged(p) == [p EXCEPT !.requested = FALSE, !.in_service = TRUE]
=============================================================================
