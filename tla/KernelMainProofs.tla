--------------------------- MODULE KernelMainProofs ---------------------------
(***************************************************************************)
(* Proofs about _start and user mode, for any memory map, kernel and       *)
(* entry, any of the four builds, and wherever a step of _start runs out   *)
(* of frames.                                                              *)
(*                                                                         *)
(* The first part is about the processor.  MainInv says, for each place    *)
(* the processor can be at, which of the tables are in place (Done), what  *)
(* CS, SS, the stack and IF are (Context), and in a handler the same of    *)
(* the one frame that will be returned to.  What the memory holds does not *)
(* matter to it.                                                           *)
(*                                                                         *)
(* The second part is about the memory.  The scratch tables of the test    *)
(* and the kernel's lie side by side; what VirtualMemoryProofs shows of    *)
(* one tree of tables holds of the kernel's if the others (D) are left out *)
(* (Without, Fit).  Every step spends frames below IDENTITY_END (Spends),  *)
(* and new tables are in such frames as long as there are any.  MemInv     *)
(* says what the memory is when each step is reached (Holds): which pages  *)
(* are mapped to what, how many such frames are left, and, once CR3 is     *)
(* loaded, that what the processor has cached is what a leaf says.         *)
(***************************************************************************)
EXTENDS KernelMain, VirtualMemoryProofs, TLAPS

(* Where each step of _start is in start_order.                             *)
Rank == [gdt |-> 1, idt |-> 2, int3 |-> 3, pmm |-> 4, frames |-> 5, scratch |-> 6, new |-> 7,
         identity |-> 8, test_map |-> 9, test_unmap |-> 10, user_code |-> 11, user_stack |-> 12,
         rsp0 |-> 13, activate |-> 14, heap |-> 15, spinlock |-> 16, objects |-> 17, ipc |-> 18,
         dispatch |-> 19, efer |-> 20, msrs |-> 21, pic |-> 22, ring3 |-> 23]

(* No step occurs twice.                                                    *)
LEMMA StartOrder ==
    Len(start_order) = 23 /\ \A i \in 1 .. 23 : Rank[start_order[i]] = i
<1>1. Len(start_order) = 23
  BY DEF start_order
<1> SUFFICES ASSUME NEW i \in 1 .. 23 PROVE Rank[start_order[i]] = i
  BY <1>1
<1>2. \/ i = 1 \/ i = 2 \/ i = 3 \/ i = 4 \/ i = 5 \/ i = 6 \/ i = 7 \/ i = 8
      \/ i = 9 \/ i = 10 \/ i = 11 \/ i = 12 \/ i = 13 \/ i = 14 \/ i = 15 \/ i = 16
      \/ i = 17 \/ i = 18 \/ i = 19 \/ i = 20 \/ i = 21 \/ i = 22 \/ i = 23
  OBVIOUS
<1> QED
  BY <1>2 DEF start_order, Rank

(* So Following gives the next one.                                         *)
LEMMA FollowingIsNext ==
    ASSUME NEW k \in 1 .. 22
    PROVE  Following(start_order[k]) = start_order[k + 1]
<1> DEFINE i == CHOOSE j \in 1 .. Len(start_order) - 1 : start_order[j] = start_order[k]
<1>1. Len(start_order) - 1 = 22
  BY StartOrder
<1>2. i \in 1 .. 22 /\ start_order[i] = start_order[k]
  BY <1>1
<1>3. Following(start_order[k]) = start_order[1 + i]
  BY DEF Following
<1> HIDE DEF i
<1>4. Rank[start_order[i]] = i /\ Rank[start_order[k]] = k
  BY <1>2, StartOrder
<1>5. i = k /\ 1 + i = k + 1
  BY <1>2, <1>4
<1> QED
  BY <1>3, <1>5

(* The steps in order.                                                      *)
LEMMA Steps ==
    /\ start_order[1] = "gdt"
    /\ Following("gdt") = "idt" /\ Following("idt") = "int3" /\ Following("int3") = "pmm"
    /\ Following("pmm") = "frames" /\ Following("frames") = "scratch"
    /\ Following("scratch") = "new" /\ Following("new") = "identity"
    /\ Following("identity") = "test_map" /\ Following("test_map") = "test_unmap"
    /\ Following("test_unmap") = "user_code" /\ Following("user_code") = "user_stack"
    /\ Following("user_stack") = "rsp0" /\ Following("rsp0") = "activate"
    /\ Following("activate") = "heap" /\ Following("heap") = "spinlock"
    /\ Following("spinlock") = "objects" /\ Following("objects") = "ipc"
    /\ Following("ipc") = "dispatch" /\ Following("dispatch") = "efer"
    /\ Following("efer") = "msrs" /\ Following("msrs") = "pic" /\ Following("pic") = "ring3"
<1>1. /\ start_order[1] = "gdt" /\ start_order[2] = "idt" /\ start_order[3] = "int3"
      /\ start_order[4] = "pmm" /\ start_order[5] = "frames" /\ start_order[6] = "scratch"
      /\ start_order[7] = "new" /\ start_order[8] = "identity" /\ start_order[9] = "test_map"
      /\ start_order[10] = "test_unmap" /\ start_order[11] = "user_code"
      /\ start_order[12] = "user_stack" /\ start_order[13] = "rsp0"
      /\ start_order[14] = "activate" /\ start_order[15] = "heap"
      /\ start_order[16] = "spinlock" /\ start_order[17] = "objects" /\ start_order[18] = "ipc"
      /\ start_order[19] = "dispatch" /\ start_order[20] = "efer" /\ start_order[21] = "msrs"
      /\ start_order[22] = "pic" /\ start_order[23] = "ring3"
  BY DEF start_order
<1>2. /\ Following(start_order[1]) = start_order[2] /\ Following(start_order[2]) = start_order[3]
      /\ Following(start_order[3]) = start_order[4] /\ Following(start_order[4]) = start_order[5]
      /\ Following(start_order[5]) = start_order[6] /\ Following(start_order[6]) = start_order[7]
      /\ Following(start_order[7]) = start_order[8] /\ Following(start_order[8]) = start_order[9]
      /\ Following(start_order[9]) = start_order[10]
      /\ Following(start_order[10]) = start_order[11]
      /\ Following(start_order[11]) = start_order[12]
      /\ Following(start_order[12]) = start_order[13]
      /\ Following(start_order[13]) = start_order[14]
      /\ Following(start_order[14]) = start_order[15]
      /\ Following(start_order[15]) = start_order[16]
      /\ Following(start_order[16]) = start_order[17]
      /\ Following(start_order[17]) = start_order[18]
      /\ Following(start_order[18]) = start_order[19]
      /\ Following(start_order[19]) = start_order[20]
      /\ Following(start_order[20]) = start_order[21]
      /\ Following(start_order[21]) = start_order[22]
      /\ Following(start_order[22]) = start_order[23]
  BY FollowingIsNext
<1> QED
  BY <1>1, <1>2

-----------------------------------------------------------------------------
(* The processor.                                                           *)

(* c has the fields of the processor.                                       *)
IsCpu(c) ==
    c = [gdt |-> c.gdt, gdtr |-> c.gdtr, tr |-> c.tr, tss |-> c.tss, idt |-> c.idt,
         idtr |-> c.idtr, cs |-> c.cs, ss |-> c.ss, cpl |-> c.cpl, int_flag |-> c.int_flag,
         rsp |-> c.rsp, frames |-> c.frames, rcx |-> c.rcx, r11 |-> c.r11,
         syscall_stack_top |-> c.syscall_stack_top, sce |-> c.sce, star |-> c.star,
         lstar |-> c.lstar, cstar |-> c.cstar, fmask |-> c.fmask, ok |-> c.ok]

KernelGdt == <<"null", "kernel_code", "kernel_data", "tss", "tss_high", "user_data", "user_code">>
KernelIdt == [v \in 0 .. IRQ0_VECTOR |-> IF v = 8 THEN 1 ELSE 0]

(* What gdt_init, idt_init, the stack for events from ring 3, and the       *)
(* registers for SYSCALL leave.                                             *)
Segments(c) == /\ c.gdtr = "GDT" /\ c.gdt = KernelGdt /\ c.tr = TSS_SELECTOR
               /\ c.tss = [rsp0 |-> c.tss.rsp0, ist1 |-> "ist1"]
Gates(c) == c.idtr /\ c.idt = KernelIdt
EventStack(c) == c.syscall_stack_top = "syscall" /\ c.tss.rsp0 = "syscall"
Msrs(c) == c.star = make_star /\ c.fmask = SYSCALL_FMASK /\ c.lstar = "unbound_syscall_entry"

(* d has the tables and registers of c, whatever runs.                      *)
SameTables(c, d) ==
    /\ d.gdtr = c.gdtr /\ d.gdt = c.gdt /\ d.tr = c.tr /\ d.tss = c.tss
    /\ d.idt = c.idt /\ d.idtr = c.idtr
    /\ d.syscall_stack_top = c.syscall_stack_top /\ d.sce = c.sce
    /\ d.star = c.star /\ d.fmask = c.fmask /\ d.lstar = c.lstar

(* gdt_init, from what stage 2 leaves.                                      *)
LEMMA GdtInit ==
    ASSUME NEW c, IsCpu(c), c.ok = TRUE, c.tss = [rsp0 |-> NoStack, ist1 |-> NoStack]
    PROVE  LET d == gdt_init(c) IN
             /\ IsCpu(d) /\ d.ok = TRUE /\ Segments(d)
             /\ d.cs = KERNEL_CODE_SELECTOR /\ d.ss = KERNEL_DATA_SELECTOR /\ d.cpl = c.cpl
             /\ d.int_flag = c.int_flag /\ d.rsp = c.rsp /\ d.frames = c.frames
<1> DEFINE G(e) == e.cpl = c.cpl /\ e.int_flag = c.int_flag /\ e.rsp = c.rsp /\ e.frames = c.frames
           c1 == write_entries(c)
<1>1. IsCpu(c1) /\ c1.tss = c.tss /\ c1.ok = TRUE /\ G(c1)
      /\ c1.gdt = <<"null", "kernel_code", "kernel_data", "null", "null", "user_data", "user_code">>
  BY DEF IsCpu, write_entries
<1> HIDE DEF c1
<1> DEFINE c2 == tss_init(c1)
<1>2. IsCpu(c2) /\ c2.tss = [rsp0 |-> NoStack, ist1 |-> "ist1"] /\ c2.ok = TRUE /\ G(c2)
      /\ c2.gdt = c1.gdt
  BY <1>1 DEF IsCpu, tss_init
<1> HIDE DEF c2
<1> DEFINE c3 == install_tss(c2)
           g == [c2.gdt EXCEPT ![4] = "tss"]
           h == [g EXCEPT ![5] = "tss_high"]
<1>3. h = KernelGdt
  BY <1>1, <1>2 DEF KernelGdt
<1>4. c3 = [c2 EXCEPT !.gdt = h]
  BY <1>2 DEF install_tss, IsCpu
<1> HIDE DEF c3, g, h
<1>5. IsCpu(c3) /\ c3.gdt = KernelGdt /\ c3.tss = c2.tss /\ c3.ok = TRUE /\ G(c3)
  BY <1>2, <1>3, <1>4 DEF IsCpu
<1> DEFINE c4 == lgdt(c3)
<1>6. IsCpu(c4) /\ c4.gdt = KernelGdt /\ c4.tss = c2.tss /\ c4.ok = TRUE /\ G(c4) /\ c4.gdtr = "GDT"
  BY <1>5 DEF IsCpu, lgdt
<1> HIDE DEF c4
<1>7. /\ descriptor(c4, KERNEL_CODE_SELECTOR) = "kernel_code"
      /\ descriptor(c4, KERNEL_DATA_SELECTOR) = "kernel_data"
  BY <1>6 DEF descriptor, KernelGdt, KERNEL_CODE_SELECTOR, KERNEL_DATA_SELECTOR
<1>8. code_dpl("kernel_code") = 0 /\ data_dpl("kernel_data") = 0
  BY DEF code_dpl, data_dpl
<1> DEFINE c5 == unbound_reload_segments(c4)
<1>9. /\ IsCpu(c5) /\ c5.gdt = KernelGdt /\ c5.tss = c2.tss /\ c5.ok = TRUE /\ G(c5)
      /\ c5.gdtr = "GDT" /\ c5.cs = KERNEL_CODE_SELECTOR /\ c5.ss = KERNEL_DATA_SELECTOR
  <2> DEFINE ok == /\ c4.ok
                   /\ code_dpl(descriptor(c4, KERNEL_CODE_SELECTOR)) = 0
                   /\ data_dpl(descriptor(c4, KERNEL_DATA_SELECTOR)) = 0
  <2>1. ok = TRUE
    BY <1>6, <1>7, <1>8
  <2>2. c5 = [c4 EXCEPT !.cs = KERNEL_CODE_SELECTOR, !.ss = KERNEL_DATA_SELECTOR, !.ok = ok]
    BY <1>6 DEF IsCpu, unbound_reload_segments
  <2> HIDE DEF ok, c5
  <2> QED
    BY <1>6, <2>1, <2>2 DEF IsCpu
<1> HIDE DEF c5
<1>10. descriptor(c5, TSS_SELECTOR) = "tss"
  BY <1>9 DEF descriptor, KernelGdt, TSS_SELECTOR
<1> DEFINE d == load_task_register(c5)
<1>11. /\ IsCpu(d) /\ d.gdt = KernelGdt /\ d.tss = c2.tss /\ d.ok = TRUE /\ G(d)
       /\ d.gdtr = "GDT" /\ d.cs = KERNEL_CODE_SELECTOR /\ d.ss = KERNEL_DATA_SELECTOR
       /\ d.tr = TSS_SELECTOR
  <2> DEFINE ok == c5.ok /\ descriptor(c5, TSS_SELECTOR) = "tss"
  <2>1. ok = TRUE
    BY <1>9, <1>10
  <2>2. d = [c5 EXCEPT !.tr = TSS_SELECTOR, !.ok = ok]
    BY <1>9 DEF IsCpu, load_task_register
  <2> HIDE DEF ok, d
  <2> QED
    BY <1>9, <2>1, <2>2 DEF IsCpu
<1>12. d = gdt_init(c)
  BY DEF gdt_init, c1, c2, c3, c4, c5
<1> HIDE DEF d
<1> QED
  BY <1>2, <1>11, <1>12 DEF Segments

(* d executes what c does.                                                  *)
SameFlow(c, d) ==
    /\ d.cs = c.cs /\ d.ss = c.ss /\ d.cpl = c.cpl /\ d.int_flag = c.int_flag /\ d.rsp = c.rsp
    /\ d.frames = c.frames

(* idt_init loads the gates and leaves the segments.                        *)
LEMMA IdtInit ==
    ASSUME NEW c, IsCpu(c), Segments(c)
    PROVE  LET d == idt_init(c) IN
             IsCpu(d) /\ d.ok = c.ok /\ Segments(d) /\ Gates(d) /\ SameFlow(c, d)
<1> DEFINE d == idt_init(c)
<1>1. d = [c EXCEPT !.idt = KernelIdt, !.idtr = TRUE]
  BY DEF idt_init, KernelIdt
<1> HIDE DEF d
<1> QED
  BY <1>1, ZenonT(60) DEF IsCpu, Segments, Gates, SameFlow, d

(* The stack for events from ring 3 is the one for system calls.            *)
LEMMA Rsp0Set ==
    ASSUME NEW c, IsCpu(c), Segments(c), Gates(c)
    PROVE  LET d == set_rsp0(initialize_stack(c), initialize_stack(c).syscall_stack_top) IN
             IsCpu(d) /\ d.ok = c.ok /\ Segments(d) /\ Gates(d) /\ EventStack(d) /\ SameFlow(c, d)
<1> DEFINE e == initialize_stack(c)
           d == set_rsp0(e, e.syscall_stack_top)
<1>1. /\ IsCpu(e) /\ e.ok = c.ok /\ Segments(e) /\ Gates(e) /\ SameFlow(c, e)
      /\ e.syscall_stack_top = "syscall"
  BY DEF initialize_stack, IsCpu, Segments, Gates, SameFlow
<1> HIDE DEF e
<1>2. d = [e EXCEPT !.tss = [rsp0 |-> "syscall", ist1 |-> "ist1"]]
  BY <1>1 DEF set_rsp0, Segments, IsCpu
<1> HIDE DEF d
<1>3. IsCpu(d) /\ d.ok = c.ok /\ Segments(d) /\ Gates(d) /\ EventStack(d) /\ SameFlow(c, d)
  BY <1>1, <1>2 DEF IsCpu, Segments, Gates, SameFlow, EventStack
<1> QED
  BY <1>3 DEF d, e

(* The registers for SYSCALL.                                               *)
LEMMA MsrsSet ==
    ASSUME NEW c, IsCpu(c), Segments(c), Gates(c), EventStack(c)
    PROVE  /\ LET d == enable_syscall_extensions(c) IN
                /\ IsCpu(d) /\ d.ok = c.ok /\ Segments(d) /\ Gates(d) /\ EventStack(d)
                /\ SameFlow(c, d) /\ d.sce = TRUE
           /\ LET d == init_syscall_msrs(c, "unbound_syscall_entry") IN
                /\ IsCpu(d) /\ d.ok = c.ok /\ Segments(d) /\ Gates(d) /\ EventStack(d)
                /\ SameFlow(c, d) /\ Msrs(d) /\ d.sce = c.sce
<1>1. LET d == enable_syscall_extensions(c) IN
        /\ IsCpu(d) /\ d.ok = c.ok /\ Segments(d) /\ Gates(d) /\ EventStack(d)
        /\ SameFlow(c, d) /\ d.sce = TRUE
  <2> DEFINE d == enable_syscall_extensions(c)
  <2>1. d = [c EXCEPT !.sce = TRUE]
    BY DEF enable_syscall_extensions
  <2> HIDE DEF d
  <2>2. IsCpu(d) /\ d.ok = c.ok /\ Segments(d) /\ Gates(d) /\ d.sce = TRUE
    BY <2>1 DEF IsCpu, Segments, Gates
  <2>3. EventStack(d) /\ SameFlow(c, d)
    BY <2>1 DEF IsCpu, EventStack, SameFlow
  <2> QED
    BY <2>2, <2>3 DEF d
<1>2. LET d == init_syscall_msrs(c, "unbound_syscall_entry") IN
        /\ IsCpu(d) /\ d.ok = c.ok /\ Segments(d) /\ Gates(d) /\ EventStack(d)
        /\ SameFlow(c, d) /\ Msrs(d) /\ d.sce = c.sce
  <2> DEFINE d == init_syscall_msrs(c, "unbound_syscall_entry")
  <2>1. d = [c EXCEPT !.star = make_star, !.lstar = "unbound_syscall_entry", !.cstar = "null",
                      !.fmask = SYSCALL_FMASK]
    BY DEF init_syscall_msrs
  <2> HIDE DEF d
  <2>2. IsCpu(d) /\ d.ok = c.ok /\ Segments(d) /\ Gates(d) /\ d.sce = c.sce
    BY <2>1 DEF IsCpu, Segments, Gates
  <2>3. EventStack(d) /\ SameFlow(c, d) /\ Msrs(d)
    BY <2>1 DEF IsCpu, EventStack, SameFlow, Msrs
  <2> QED
    BY <2>2, <2>3 DEF d
<1> QED
  BY <1>1, <1>2

(* What the selectors of the kernel and of user mode name.                  *)
LEMMA Selectors ==
    ASSUME NEW c, Segments(c)
    PROVE  /\ descriptor(c, KERNEL_CODE_SELECTOR) = "kernel_code"
           /\ descriptor(c, KERNEL_DATA_SELECTOR) = "kernel_data"
           /\ descriptor(c, USER_CODE_SELECTOR_R3) = "user_code"
           /\ descriptor(c, USER_DATA_SELECTOR_R3) = "user_data"
           /\ descriptor(c, TSS_SELECTOR) = "tss"
           /\ code_dpl("kernel_code") = 0 /\ data_dpl("kernel_data") = 0
           /\ code_dpl("user_code") = 3 /\ data_dpl("user_data") = 3
<1>1. 8 \div 8 = 1 /\ 16 \div 8 = 2 /\ 51 \div 8 = 6 /\ 43 \div 8 = 5 /\ 24 \div 8 = 3
  OBVIOUS
<1>2. /\ descriptor(c, 8) = "kernel_code" /\ descriptor(c, 16) = "kernel_data"
      /\ descriptor(c, 51) = "user_code" /\ descriptor(c, 43) = "user_data"
      /\ descriptor(c, 24) = "tss"
  BY <1>1 DEF Segments, descriptor, KernelGdt
<1>3. USER_CODE_SELECTOR_R3 = 51 /\ USER_DATA_SELECTOR_R3 = 43
  BY DEF USER_CODE_SELECTOR_R3, USER_DATA_SELECTOR_R3
<1>4. /\ code_dpl("kernel_code") = 0 /\ data_dpl("kernel_data") = 0
      /\ code_dpl("user_code") = 3 /\ data_dpl("user_data") = 3
  BY DEF code_dpl, data_dpl
<1> QED
  BY <1>2, <1>3, <1>4 DEF KERNEL_CODE_SELECTOR, KERNEL_DATA_SELECTOR, TSS_SELECTOR

(* What can be interrupted: user mode, and _start at its INT3.              *)
UserAt == {"user", "elsewhere", "user_hlt"}
Resumable == UserAt \cup {"pmm"}

(* x, the processor or a frame, is in the state that code at l runs in.     *)
Context(l, x) ==
    IF l \in UserAt
    THEN /\ x.cs = USER_CODE_SELECTOR_R3 /\ x.ss = USER_DATA_SELECTOR_R3 /\ x.cpl = 3
         /\ x.int_flag = TRUE /\ x.rsp = "user"
    ELSE /\ x.cs = KERNEL_CODE_SELECTOR /\ x.ss = KERNEL_DATA_SELECTOR /\ x.cpl = 0
         /\ x.int_flag = FALSE /\ x.rsp = "boot"

KernelStacks == {"boot", "syscall", "ist1"}

(* Every exception and interrupt the kernel can meet is delivered, on one   *)
(* of its stacks, and what it interrupts is in the frame.                   *)
LEMMA EventDelivered ==
    ASSUME NEW c, IsCpu(c), Segments(c), Gates(c), NEW l, Context(l, c), c.frames = << >>,
           l \in UserAt => EventStack(c),
           NEW vector \in 0 .. 32, NEW words, NEW resume
    PROVE  /\ deliverable(c, vector)
           /\ LET d == delivered(c, vector, words, resume) IN
                /\ IsCpu(d) /\ d.ok = c.ok /\ SameTables(c, d)
                /\ Len(d.frames) = 1 /\ Tail(d.frames) = << >>
                /\ LET f == Head(d.frames) IN
                     /\ f = d.frames[1] /\ Context(l, f) /\ f.words = words /\ f.resume = resume
                     /\ f.stack \in KernelStacks
                /\ d.cs = KERNEL_CODE_SELECTOR /\ d.cpl = 0 /\ d.int_flag = FALSE
                /\ d.ss \in {0, KERNEL_DATA_SELECTOR}
<1> DEFINE stack == event_stack(c, vector)
           f == [cs |-> c.cs, ss |-> c.ss, cpl |-> c.cpl, int_flag |-> c.int_flag,
                 rsp |-> c.rsp, words |-> words, stack |-> stack, resume |-> resume]
           d == delivered(c, vector, words, resume)
<1>1. vector \in DOMAIN c.idt /\ c.idt[vector] \in {0, 1}
  BY DEF Gates, KernelIdt, IRQ0_VECTOR
<1>2. stack \in KernelStacks
  <2>1. c.cpl = 3 => c.tss.rsp0 = "syscall"
    BY DEF Context, EventStack
  <2>2. c.cpl # 3 => c.rsp = "boot"
    BY DEF Context
  <2>3. c.tss.ist1 = "ist1"
    BY DEF Segments
  <2> QED
    BY <2>1, <2>2, <2>3 DEF event_stack, KernelStacks
<1>3. deliverable(c, vector)
  <2>1. descriptor(c, c.tr) = "tss"
    BY Selectors DEF Segments
  <2> QED
    BY <1>1, <1>2, <2>1, Selectors DEF deliverable, Gates, KernelStacks, NoStack
<1>4. d = [c EXCEPT !.frames = <<f>>, !.cs = KERNEL_CODE_SELECTOR,
                    !.ss = IF c.cpl = 3 THEN 0 ELSE c.ss, !.cpl = 0, !.int_flag = FALSE,
                    !.rsp = stack]
  <2>1. <<f>> \o c.frames = <<f>>
    BY DEF Context
  <2> QED
    BY <2>1 DEF delivered, IsCpu
<1> HIDE DEF d, f, stack
<1>5. IsCpu(d) /\ d.ok = c.ok /\ d.frames = <<f>>
      /\ d.cs = KERNEL_CODE_SELECTOR /\ d.cpl = 0 /\ d.int_flag = FALSE
      /\ d.ss = (IF c.cpl = 3 THEN 0 ELSE c.ss)
  BY <1>4 DEF IsCpu
<1>6. SameTables(c, d)
  BY <1>4 DEF IsCpu, SameTables
<1>7. d.ss \in {0, KERNEL_DATA_SELECTOR}
  BY <1>5 DEF Context
<1>8. Len(d.frames) = 1 /\ Tail(d.frames) = << >> /\ Head(d.frames) = f /\ d.frames[1] = f
  BY <1>5
<1>9. Context(l, f) /\ f.words = words /\ f.resume = resume /\ f.stack \in KernelStacks
  BY <1>2 DEF Context, f
<1> QED
  BY <1>3, <1>5, <1>6, <1>7, <1>8, <1>9 DEF d

(* IRETQ resumes what the frame has, without a fault.                       *)
LEMMA Iretq ==
    ASSUME NEW c, IsCpu(c), c.ok = TRUE, Segments(c), NEW l, Context(l, Head(c.frames)),
           Tail(c.frames) = << >>
    PROVE  LET d == iretq(c) IN
             /\ IsCpu(d) /\ d.ok = TRUE /\ SameTables(c, d) /\ Context(l, d) /\ d.frames = << >>
<1> DEFINE f == Head(c.frames)
           ok == c.ok /\ code_dpl(descriptor(c, f.cs)) = f.cpl
           d == iretq(c)
<1>1. ok = TRUE
  BY Selectors DEF Context
<1>2. d = [c EXCEPT !.frames = Tail(c.frames), !.cs = f.cs, !.ss = f.ss, !.cpl = f.cpl,
                    !.int_flag = f.int_flag, !.rsp = f.rsp, !.ok = ok]
  BY DEF iretq, IsCpu
<1> HIDE DEF d, f, ok
<1>3. IsCpu(d) /\ d.ok = TRUE /\ d.frames = << >> /\ d.cs = f.cs /\ d.ss = f.ss
      /\ d.cpl = f.cpl /\ d.int_flag = f.int_flag /\ d.rsp = f.rsp
  BY <1>1, <1>2 DEF IsCpu
<1>4. SameTables(c, d)
  BY <1>2 DEF IsCpu, SameTables
<1>5. Context(l, d)
  BY <1>3 DEF Context, f
<1> QED
  BY <1>3, <1>4, <1>5 DEF d

(* SYSCALL enters the kernel with interrupts off; SYSRET is its reverse.    *)
LEMMA Syscall ==
    ASSUME NEW c, IsCpu(c), Msrs(c), c.int_flag = TRUE, NEW resume
    PROVE  LET d == syscall(c, resume) IN
             /\ IsCpu(d) /\ d.ok = c.ok /\ SameTables(c, d) /\ d.frames = c.frames
             /\ d.cs = KERNEL_CODE_SELECTOR /\ d.ss = KERNEL_DATA_SELECTOR /\ d.cpl = 0
             /\ d.int_flag = FALSE /\ d.rcx = resume /\ d.r11 = TRUE
<1> DEFINE d == syscall(c, resume)
           i == c.int_flag /\ "IF" \notin c.fmask
<1>1. i = FALSE
  BY DEF Msrs, SYSCALL_FMASK
<1>2. d = [c EXCEPT !.cs = c.star.kernel, !.ss = c.star.kernel + 8, !.cpl = 0,
                    !.rcx = resume, !.r11 = c.int_flag, !.int_flag = i]
  BY DEF syscall, IsCpu
<1>3. c.star.kernel = KERNEL_CODE_SELECTOR /\ c.star.kernel + 8 = KERNEL_DATA_SELECTOR
  BY DEF Msrs, make_star, KERNEL_CODE_SELECTOR, KERNEL_DATA_SELECTOR
<1> HIDE DEF d, i
<1>4. /\ IsCpu(d) /\ d.ok = c.ok /\ d.frames = c.frames
      /\ d.cs = KERNEL_CODE_SELECTOR /\ d.ss = KERNEL_DATA_SELECTOR /\ d.cpl = 0
      /\ d.int_flag = FALSE /\ d.rcx = resume /\ d.r11 = TRUE
  BY <1>1, <1>2, <1>3 DEF IsCpu
<1>5. SameTables(c, d)
  BY <1>2 DEF IsCpu, SameTables
<1> QED
  BY <1>4, <1>5 DEF d

(* SYSRET goes back to user mode, with the RFLAGS that R11 has.             *)
LEMMA Sysretq ==
    ASSUME NEW c, IsCpu(c), Msrs(c), c.r11 = TRUE, c.rsp = "user", NEW l \in UserAt
    PROVE  LET d == sysretq(c) IN
             /\ IsCpu(d) /\ d.ok = c.ok /\ SameTables(c, d) /\ d.frames = c.frames
             /\ Context(l, d)
<1> DEFINE d == sysretq(c)
<1>1. d = [c EXCEPT !.cs = c.star.user + 16 + 3, !.ss = c.star.user + 8 + 3, !.cpl = 3,
                    !.int_flag = c.r11]
  BY DEF sysretq, IsCpu
<1>2. c.star.user + 16 + 3 = USER_CODE_SELECTOR_R3 /\ c.star.user + 8 + 3 = USER_DATA_SELECTOR_R3
  BY DEF Msrs, make_star, USER_CODE_SELECTOR_R3, USER_DATA_SELECTOR_R3
<1> HIDE DEF d
<1>3. /\ IsCpu(d) /\ d.ok = c.ok /\ d.frames = c.frames /\ d.cs = USER_CODE_SELECTOR_R3
      /\ d.ss = USER_DATA_SELECTOR_R3 /\ d.cpl = 3 /\ d.int_flag = TRUE /\ d.rsp = "user"
  BY <1>1, <1>2 DEF IsCpu
<1>4. SameTables(c, d)
  BY <1>1 DEF IsCpu, SameTables
<1> QED
  BY <1>3, <1>4 DEF d, Context

-----------------------------------------------------------------------------
(* The inductive invariant: what has been set up, and the state of the      *)
(* processor, at each place it can be.                                      *)

(* The steps of _start after the IDT is loaded.                             *)
StartAt == {"int3", "pmm", "frames", "scratch", "new", "identity", "test_map", "test_unmap",
            "user_code", "user_stack", "rsp0", "activate", "heap", "spinlock", "objects", "ipc",
            "dispatch", "efer", "msrs", "pic", "ring3"}
AfterMsrs == {"pic", "ring3"} \cup UserAt
AfterEfer == {"msrs"} \cup AfterMsrs
AfterRsp0 == {"activate", "heap", "spinlock", "objects", "ipc", "dispatch", "efer"} \cup AfterEfer

Done(l, c) ==
    /\ Segments(c) /\ Gates(c)
    /\ l \in AfterRsp0 => EventStack(c)
    /\ l \in AfterEfer => c.sce = TRUE
    /\ l \in AfterMsrs => Msrs(c)

AtGdt ==
    /\ at = "gdt" /\ cpu.frames = << >>
    /\ cpu.gdtr = "stage2" /\ cpu.tss = [rsp0 |-> NoStack, ist1 |-> NoStack]
    /\ cpu.cs = STAGE2_CODE_SELECTOR /\ cpu.ss = KERNEL_DATA_SELECTOR /\ cpu.cpl = 0
    /\ cpu.int_flag = FALSE /\ cpu.rsp = "boot"

AtIdt == at = "idt" /\ Segments(cpu) /\ Context(at, cpu) /\ cpu.frames = << >>

InCode == at \in StartAt \cup UserAt /\ Done(at, cpu) /\ Context(at, cpu) /\ cpu.frames = << >>

(* The one frame has what was interrupted, and interrupts are off.          *)
InHandler ==
    /\ at \in {"exception", "timer"}
    /\ Len(cpu.frames) = 1 /\ Tail(cpu.frames) = << >>
    /\ LET f == Head(cpu.frames)
       IN  f.resume \in Resumable /\ Context(f.resume, f) /\ Done(f.resume, cpu)
    /\ cpu.cs = KERNEL_CODE_SELECTOR /\ cpu.ss \in {0, KERNEL_DATA_SELECTOR} /\ cpu.cpl = 0
    /\ cpu.int_flag = FALSE

(* Interrupts are off from SYSCALL to SYSRET, which finds what it takes.    *)
InSyscall ==
    /\ at \in {"syscall_entry", "syscall", "sysret"}
    /\ cpu.frames = << >> /\ Done("user", cpu)
    /\ cpu.cs = KERNEL_CODE_SELECTOR /\ cpu.ss = KERNEL_DATA_SELECTOR /\ cpu.cpl = 0
    /\ cpu.int_flag = FALSE
    /\ cpu.rcx \in {"user_hlt", "elsewhere"} /\ cpu.r11 = TRUE
    /\ at = "sysret" => cpu.rsp = "user"

HasStopped == at \in {"halted", "page_fault", "lost"} /\ cpu.cpl = 0

MainInv ==
    /\ IsCpu(cpu) /\ cpu.ok = TRUE
    /\ pic \in [vector : {8, 32}, requested : BOOLEAN, in_service : BOOLEAN]
    /\ FramesOnKernelStacks
    /\ AtGdt \/ AtIdt \/ InCode \/ InHandler \/ InSyscall \/ HasStopped

(* The tables are what they are, whatever runs.                             *)
LEMMA DoneKept ==
    ASSUME NEW c, NEW d, SameTables(c, d), NEW l, Done(l, c)
    PROVE  Done(l, d)
  BY DEF SameTables, Done, Segments, Gates, EventStack, Msrs

(* The kernel is entered with what stage 2 leaves.                          *)
LEMMA InitMainInv == KInit => MainInv
<1> SUFFICES ASSUME KInit PROVE MainInv
  OBVIOUS
<1>1. at = "gdt" /\ cpu = entered_from_stage2 /\ pic = bios_pic
  BY Steps DEF KInit
<1>2. IsCpu(cpu) /\ cpu.ok = TRUE
  BY <1>1 DEF IsCpu, entered_from_stage2
<1>3. AtGdt
  BY <1>1 DEF AtGdt, entered_from_stage2
<1>4. pic \in [vector : {8, 32}, requested : BOOLEAN, in_service : BOOLEAN]
  BY <1>1 DEF bios_pic
<1>5. FramesOnKernelStacks
  BY <1>3 DEF AtGdt, FramesOnKernelStacks
<1> QED
  BY <1>2, <1>3, <1>4, <1>5 DEF MainInv

(* A step of _start that leaves the processor alone.                        *)
LEMMA QuietStep ==
    ASSUME MainInv, at \in StartAt \ {"int3", "rsp0", "efer", "msrs", "ring3"},
           at' \in {at, Following(at), "halted", "page_fault"}, cpu' = cpu,
           pic' \in [vector : {8, 32}, requested : BOOLEAN, in_service : BOOLEAN]
    PROVE  MainInv'
<1>1. InCode
  BY DEF MainInv, AtGdt, AtIdt, InHandler, InSyscall, HasStopped, StartAt
<1>2. FramesOnKernelStacks'
  BY DEF MainInv, FramesOnKernelStacks
<1>3. CASE at' \in {"halted", "page_fault"}
  <2>1. cpu.cpl = 0
    BY <1>1 DEF InCode, Context, StartAt, UserAt
  <2> QED
    BY <1>2, <1>3, <2>1 DEF MainInv, HasStopped, IsCpu
<1>4. CASE at' \in {at, Following(at)}
  <2>1. /\ at' \in StartAt /\ at' \notin UserAt /\ at \notin UserAt
        /\ at' \in AfterRsp0 => at \in AfterRsp0
        /\ at' \in AfterEfer => at \in AfterEfer
        /\ at' \in AfterMsrs => at \in AfterMsrs
    BY <1>4, Steps DEF StartAt, AfterRsp0, AfterEfer, AfterMsrs, UserAt
  <2>2. Done(at', cpu)
    BY <1>1, <2>1 DEF InCode, Done
  <2>3. Context(at', cpu)
    BY <1>1, <2>1 DEF InCode, Context
  <2>4. InCode'
    BY <1>1, <2>1, <2>2, <2>3 DEF InCode
  <2> QED
    BY <1>2, <2>4 DEF MainInv
<1> QED
  BY <1>3, <1>4

(* A place in _start or in user mode that code reaches with no event.       *)
LEMMA CodeStep ==
    ASSUME MainInv, pic' \in [vector : {8, 32}, requested : BOOLEAN, in_service : BOOLEAN],
           IsCpu(cpu'), cpu'.ok = TRUE, cpu'.frames = << >>,
           \/ at' \in {"halted", "page_fault", "lost"} /\ cpu'.cpl = 0
           \/ at' \in StartAt \cup UserAt /\ Done(at', cpu') /\ Context(at', cpu')
    PROVE  MainInv'
<1>1. FramesOnKernelStacks'
  BY DEF FramesOnKernelStacks
<1>2. InCode' \/ HasStopped'
  BY DEF InCode, HasStopped
<1> QED
  BY <1>1, <1>2 DEF MainInv

(* The GDT, the TSS and the selectors.                                      *)
LEMMA SetupGdtStep == MainInv /\ setup_gdt => MainInv'
<1> SUFFICES ASSUME MainInv, setup_gdt PROVE MainInv'
  OBVIOUS
<1> DEFINE d == gdt_init(cpu)
<1>1. at = "gdt" /\ cpu' = d /\ pic' = pic
      /\ at' = (IF ~d.ok THEN "undelivered"
                ELSE IF verify_user_segments(d) /\ verify_task_register(d) /\ d.tss.ist1 # NoStack
                THEN Following("gdt") ELSE "halted")
  BY DEF setup_gdt, Setup, At, machine
<1>2. AtGdt
  BY <1>1 DEF MainInv, AtIdt, InCode, InHandler, InSyscall, HasStopped, StartAt, UserAt
<1>3. /\ IsCpu(d) /\ d.ok = TRUE /\ Segments(d)
      /\ d.cs = KERNEL_CODE_SELECTOR /\ d.ss = KERNEL_DATA_SELECTOR /\ d.cpl = 0
      /\ d.int_flag = FALSE /\ d.rsp = "boot" /\ d.frames = << >>
  BY <1>2, GdtInit DEF MainInv, AtGdt
<1> HIDE DEF d
<1>4. CASE at' = "halted"
  BY <1>1, <1>3, <1>4, CodeStep DEF MainInv
<1>5. CASE at' = "idt"
  <2>1. AtIdt'
    <3>1. Context("idt", d)
      BY <1>3 DEF Context, UserAt
    <3> QED
      BY <1>1, <1>3, <1>5, <3>1 DEF AtIdt
  <2>2. FramesOnKernelStacks'
    BY <1>1, <1>3 DEF FramesOnKernelStacks
  <2> QED
    BY <1>1, <1>3, <2>1, <2>2 DEF MainInv
<1> QED
  BY <1>1, <1>3, <1>4, <1>5, Steps

(* The IDT.                                                                 *)
LEMMA SetupIdtStep == MainInv /\ setup_idt => MainInv'
<1> SUFFICES ASSUME MainInv, setup_idt PROVE MainInv'
  OBVIOUS
<1> DEFINE d == idt_init(cpu)
<1>1. at = "idt" /\ cpu' = d /\ pic' = pic
      /\ at' = (IF ~d.ok THEN "undelivered" ELSE IF d.idtr THEN Following("idt") ELSE "halted")
  BY DEF setup_idt, Setup, At, machine
<1>2. AtIdt
  BY <1>1 DEF MainInv, AtGdt, InCode, InHandler, InSyscall, HasStopped, StartAt, UserAt
<1>3. IsCpu(d) /\ d.ok = TRUE /\ Segments(d) /\ Gates(d) /\ SameFlow(cpu, d)
  BY <1>2, IdtInit DEF MainInv, AtIdt
<1> HIDE DEF d
<1>4. at' = "int3"
  BY <1>1, <1>3, Steps DEF Gates
<1>5. Done("int3", d)
  BY <1>3 DEF Done, AfterRsp0, AfterEfer, AfterMsrs, UserAt
<1>6. Context("int3", d) /\ d.frames = << >>
  BY <1>1, <1>2, <1>3 DEF AtIdt, SameFlow, Context, UserAt
<1> QED
  BY <1>1, <1>3, <1>4, <1>5, <1>6, CodeStep DEF MainInv, StartAt

(* A step of _start past the IDT.                                           *)
LEMMA StartFacts ==
    ASSUME MainInv, at \in StartAt
    PROVE  /\ Done(at, cpu) /\ Context(at, cpu) /\ cpu.frames = << >>
           /\ Segments(cpu) /\ Gates(cpu)
  BY DEF MainInv, AtGdt, AtIdt, InCode, InHandler, InSyscall, HasStopped, StartAt, Done

(* The same code goes on after a step of _start.                            *)
LEMMA ContextGoesOn ==
    ASSUME NEW c, NEW d, NEW l \in StartAt, NEW m \in StartAt, Context(l, c), SameFlow(c, d)
    PROVE  Context(m, d) /\ d.frames = c.frames
  BY DEF Context, SameFlow, StartAt, UserAt

(* RSP0.                                                                    *)
LEMMA SetupRsp0Step == MainInv /\ setup_rsp0 => MainInv'
<1> SUFFICES ASSUME MainInv, setup_rsp0 PROVE MainInv'
  OBVIOUS
<1> DEFINE c == initialize_stack(cpu)
           d == set_rsp0(c, c.syscall_stack_top)
           checks == c.syscall_stack_top # NoStack /\ d.tss.rsp0 # NoStack
<1>1. at = "rsp0" /\ cpu' = d /\ pic' = pic
      /\ at' = (IF ~d.ok THEN "undelivered" ELSE IF checks THEN Following("rsp0") ELSE "halted")
  BY DEF setup_rsp0, Setup, At, machine
<1>2. Done(at, cpu) /\ Context(at, cpu) /\ cpu.frames = << >> /\ Segments(cpu) /\ Gates(cpu)
      /\ IsCpu(cpu) /\ cpu.ok = TRUE
  BY <1>1, StartFacts DEF StartAt, MainInv
<1>3. IsCpu(d) /\ d.ok = TRUE /\ Segments(d) /\ Gates(d) /\ EventStack(d) /\ SameFlow(cpu, d)
  BY <1>2, Rsp0Set
<1> HIDE DEF d, c, checks
<1>4. at' \in {"activate", "halted"}
  BY <1>1, <1>3, Steps
<1>5. Done("activate", d)
  BY <1>3 DEF Done, AfterRsp0, AfterEfer, AfterMsrs, UserAt
<1>6. Context("activate", d) /\ d.frames = << >>
  BY <1>1, <1>2, <1>3, ContextGoesOn DEF StartAt
<1>7. d.cpl = 0
  BY <1>6 DEF Context, UserAt
<1> QED
  BY <1>1, <1>3, <1>4, <1>5, <1>6, <1>7, CodeStep DEF MainInv, StartAt

(* EFER.SCE.                                                                *)
LEMMA MsrTestStep == MainInv /\ run_msr_test => MainInv'
<1> SUFFICES ASSUME MainInv, run_msr_test PROVE MainInv'
  OBVIOUS
<1> DEFINE d == enable_syscall_extensions(cpu)
<1>1. at = "efer" /\ cpu' = d /\ pic' = pic
      /\ at' = (IF ~d.ok THEN "undelivered" ELSE IF d.sce THEN Following("efer") ELSE "halted")
  BY DEF run_msr_test, Setup, At, machine
<1>2. Done(at, cpu) /\ Context(at, cpu) /\ cpu.frames = << >> /\ Segments(cpu) /\ Gates(cpu)
      /\ IsCpu(cpu) /\ cpu.ok = TRUE
  BY <1>1, StartFacts DEF StartAt, MainInv
<1>3. EventStack(cpu)
  BY <1>1, <1>2 DEF Done, AfterRsp0
<1>4. IsCpu(d) /\ d.ok = TRUE /\ Segments(d) /\ Gates(d) /\ EventStack(d) /\ SameFlow(cpu, d)
      /\ d.sce = TRUE
  BY <1>2, <1>3, MsrsSet
<1> HIDE DEF d
<1>5. at' = "msrs"
  BY <1>1, <1>4, Steps
<1>6. Done("msrs", d)
  BY <1>4 DEF Done, AfterRsp0, AfterEfer, AfterMsrs, UserAt
<1>7. Context("msrs", d) /\ d.frames = << >>
  BY <1>1, <1>2, <1>4, ContextGoesOn DEF StartAt
<1> QED
  BY <1>1, <1>4, <1>5, <1>6, <1>7, CodeStep DEF MainInv, StartAt

(* STAR, LSTAR and FMASK.                                                   *)
LEMMA SyscallMsrStep == MainInv /\ run_syscall_msr_test => MainInv'
<1> SUFFICES ASSUME MainInv, run_syscall_msr_test PROVE MainInv'
  OBVIOUS
<1> DEFINE d == init_syscall_msrs(cpu, "unbound_syscall_entry")
           checks == verify_syscall_msrs(d, "unbound_syscall_entry")
<1>1. at = "msrs" /\ cpu' = d /\ pic' = pic
      /\ at' = (IF ~d.ok THEN "undelivered" ELSE IF checks THEN Following("msrs") ELSE "halted")
  BY DEF run_syscall_msr_test, Setup, At, machine
<1>2. Done(at, cpu) /\ Context(at, cpu) /\ cpu.frames = << >> /\ Segments(cpu) /\ Gates(cpu)
      /\ IsCpu(cpu) /\ cpu.ok = TRUE
  BY <1>1, StartFacts DEF StartAt, MainInv
<1>3. EventStack(cpu) /\ cpu.sce = TRUE
  BY <1>1, <1>2 DEF Done, AfterRsp0, AfterEfer
<1>4. IsCpu(d) /\ d.ok = TRUE /\ Segments(d) /\ Gates(d) /\ EventStack(d) /\ SameFlow(cpu, d)
      /\ Msrs(d) /\ d.sce = TRUE
  BY <1>2, <1>3, MsrsSet
<1> HIDE DEF d, checks
<1>5. at' \in {"pic", "halted"}
  BY <1>1, <1>4, Steps
<1>6. Done("pic", d)
  BY <1>4 DEF Done
<1>7. Context("pic", d) /\ d.frames = << >>
  BY <1>1, <1>2, <1>4, ContextGoesOn DEF StartAt
<1>8. d.cpl = 0
  BY <1>7 DEF Context, UserAt
<1> QED
  BY <1>1, <1>4, <1>5, <1>6, <1>7, <1>8, CodeStep DEF MainInv, StartAt

(* The steps of _start that use memory, the self-tests and pic::init.       *)
LEMMA OtherStartSteps ==
    ASSUME MainInv,
           \/ pmm_initialize \/ use_frames \/ scratch_map \/ address_space_new
           \/ map_identity \/ test_map \/ test_unmap \/ user_code_map \/ user_stack_map
           \/ activate \/ heap_initialize \/ self_test \/ call_pic_init
    PROVE  MainInv'
<1>1. pic \in [vector : {8, 32}, requested : BOOLEAN, in_service : BOOLEAN]
  BY DEF MainInv
<1>2. ASSUME NEW step \in StartAt \ {"int3", "rsp0", "efer", "msrs", "ring3"}, NEW m, NEW check,
             Memory(step, m, check)
      PROVE  MainInv'
  BY <1>1, <1>2, QuietStep DEF Memory, At, machine
<1>3. CASE pmm_initialize
  BY <1>1, <1>3, QuietStep DEF pmm_initialize, At, machine, StartAt
<1>4. CASE activate
  BY <1>1, <1>4, QuietStep DEF activate, At, StartAt
<1>5. CASE call_pic_init
  <2>1. pic' \in [vector : {8, 32}, requested : BOOLEAN, in_service : BOOLEAN]
    BY <1>1, <1>5 DEF call_pic_init, pic_init, IRQ0_VECTOR
  <2> QED
    BY <1>5, <2>1, QuietStep DEF call_pic_init, At, StartAt
<1>6. CASE self_test
  <2>1. PICK step \in {"spinlock", "objects", "ipc", "dispatch"}, passes \in BOOLEAN :
          Setup(step, cpu, passes)
    BY <1>6 DEF self_test
  <2>2. at' \in {Following(at), "halted"} /\ at = step /\ cpu' = cpu /\ pic' = pic
    BY <2>1 DEF Setup, At, machine, MainInv
  <2> QED
    BY <1>1, <2>2, QuietStep DEF StartAt
<1>7. CASE use_frames
  BY <1>2, <1>7 DEF use_frames, StartAt
<1>8. CASE scratch_map
  BY <1>2, <1>8 DEF scratch_map, StartAt
<1>9. CASE address_space_new
  BY <1>2, <1>9 DEF address_space_new, StartAt
<1>10. CASE map_identity
  BY <1>2, <1>10 DEF map_identity, StartAt
<1>11. CASE test_map
  BY <1>2, <1>11 DEF test_map, StartAt
<1>12. CASE test_unmap
  BY <1>2, <1>12 DEF test_unmap, StartAt
<1>13. CASE user_code_map
  BY <1>2, <1>13 DEF user_code_map, StartAt
<1>14. CASE user_stack_map
  BY <1>2, <1>14 DEF user_stack_map, StartAt
<1>15. CASE heap_initialize
  BY <1>2, <1>15 DEF heap_initialize, StartAt
<1> QED
  BY <1>3, <1>4, <1>5, <1>6, <1>7, <1>8, <1>9, <1>10, <1>11, <1>12, <1>13, <1>14, <1>15

(* An event taken in code goes to a handler.                                *)
LEMMA RaiseStep ==
    ASSUME MainInv, NEW vector \in 0 .. 32, NEW words, NEW resume \in Resumable,
           Raise(vector, words, resume),
           \/ at = "int3" /\ resume = "pmm"
           \/ at \in UserAt /\ resume \in UserAt,
           pic' \in [vector : {8, 32}, requested : BOOLEAN, in_service : BOOLEAN]
    PROVE  MainInv'
<1>1. Done(at, cpu) /\ Context(at, cpu) /\ cpu.frames = << >> /\ IsCpu(cpu) /\ cpu.ok = TRUE
  BY DEF MainInv, AtGdt, AtIdt, InCode, InHandler, InSyscall, HasStopped, UserAt
<1>2. Segments(cpu) /\ Gates(cpu) /\ (at \in UserAt => EventStack(cpu))
  BY <1>1 DEF Done, AfterRsp0, AfterEfer, AfterMsrs
<1> DEFINE d == delivered(cpu, vector, words, resume)
<1>3. /\ deliverable(cpu, vector)
      /\ IsCpu(d) /\ d.ok = cpu.ok /\ SameTables(cpu, d)
      /\ Len(d.frames) = 1 /\ Tail(d.frames) = << >>
      /\ LET f == Head(d.frames) IN
           /\ f = d.frames[1] /\ Context(at, f) /\ f.words = words /\ f.resume = resume
           /\ f.stack \in KernelStacks
      /\ d.cs = KERNEL_CODE_SELECTOR /\ d.cpl = 0 /\ d.int_flag = FALSE
      /\ d.ss \in {0, KERNEL_DATA_SELECTOR}
  BY <1>1, <1>2, EventDelivered
<1>4. cpu' = d /\ at' \in {"timer", "exception"}
  BY <1>3 DEF Raise
<1> HIDE DEF d
<1>5. Context(resume, Head(d.frames))
  BY <1>3 DEF Context, UserAt
<1>6. Done(resume, d)
  <2>1. Done(at, d)
    BY <1>1, <1>3, DoneKept
  <2> QED
    BY <2>1 DEF Done, AfterRsp0, AfterEfer, AfterMsrs, UserAt
<1>7. InHandler'
  BY <1>3, <1>4, <1>5, <1>6 DEF InHandler
<1>8. FramesOnKernelStacks'
  <2>1. \A i \in 1 .. Len(d.frames) : i = 1
    BY <1>3
  <2> QED
    BY <1>3, <1>4, <2>1 DEF FramesOnKernelStacks, KernelStacks
<1> QED
  BY <1>1, <1>3, <1>4, <1>7, <1>8 DEF MainInv

(* A handler returns to what it interrupted.                                *)
LEMMA HandlerReturns ==
    ASSUME MainInv, at \in {"exception", "timer"}, cpu' = iretq(cpu),
           at' = (IF iretq(cpu).ok THEN Head(cpu.frames).resume ELSE "undelivered"),
           pic' \in [vector : {8, 32}, requested : BOOLEAN, in_service : BOOLEAN]
    PROVE  MainInv'
<1> DEFINE l == Head(cpu.frames).resume
           d == iretq(cpu)
<1>1. InHandler
  BY DEF MainInv, AtGdt, AtIdt, InCode, InSyscall, HasStopped, StartAt, UserAt
<1>2. /\ l \in Resumable /\ Context(l, Head(cpu.frames)) /\ Done(l, cpu)
      /\ Tail(cpu.frames) = << >> /\ IsCpu(cpu) /\ cpu.ok = TRUE
  BY <1>1 DEF InHandler, MainInv
<1>3. IsCpu(d) /\ d.ok = TRUE /\ SameTables(cpu, d) /\ Context(l, d) /\ d.frames = << >>
  BY <1>2, Iretq DEF Done
<1>4. Done(l, d)
  BY <1>2, <1>3, DoneKept
<1>5. at' = l /\ l \in StartAt \cup UserAt
  BY <1>2, <1>3 DEF Resumable, StartAt
<1> HIDE DEF d, l
<1> QED
  BY <1>3, <1>4, <1>5, CodeStep DEF d

(* The entries into the kernel, the way back, and user mode.                *)
LEMMA ExecuteStep == MainInv /\ Execute => MainInv'
<1> SUFFICES ASSUME MainInv, Execute PROVE MainInv'
  OBVIOUS
<1>1. pic \in [vector : {8, 32}, requested : BOOLEAN, in_service : BOOLEAN]
      /\ IsCpu(cpu) /\ cpu.ok = TRUE
  BY DEF MainInv
<1>2. CASE int3
  <2>1. at = "int3" /\ Raise(3, 2, "pmm") /\ pic' = pic
    BY <1>2, Steps DEF int3, At, machine
  <2> QED
    BY <1>1, <2>1, RaiseStep DEF Resumable
<1>3. CASE exception_return
  <2>1. at = "exception" /\ pic' = pic
    BY <1>3 DEF exception_return, At, machine
  <2>2. CASE Head(cpu.frames).words = build.removed
    BY <1>1, <1>3, <2>1, <2>2, HandlerReturns DEF exception_return
  <2>3. CASE Head(cpu.frames).words # build.removed
    <3>1. cpu' = cpu /\ at' = "lost"
      BY <1>3, <2>3 DEF exception_return
    <3>2. FramesOnKernelStacks'
      BY <3>1 DEF MainInv, FramesOnKernelStacks
    <3>3. cpu.cpl = 0
      BY <2>1 DEF MainInv, AtGdt, AtIdt, InCode, InHandler, InSyscall, HasStopped, StartAt, UserAt
    <3> QED
      BY <1>1, <2>1, <3>1, <3>2, <3>3 DEF MainInv, HasStopped
  <2> QED
    BY <2>2, <2>3
<1>4. CASE timer_return
  <2>1. pic' \in [vector : {8, 32}, requested : BOOLEAN, in_service : BOOLEAN]
    BY <1>1, <1>4 DEF timer_return, end_of_interrupt
  <2> QED
    BY <1>4, <2>1, HandlerReturns DEF timer_return, At
<1>5. CASE enter_ring3
  <2> DEFINE c == [cpu EXCEPT !.cs = USER_CODE_SELECTOR_R3, !.ss = USER_DATA_SELECTOR_R3,
                              !.cpl = 3, !.int_flag = TRUE, !.rsp = "user"]
  <2>1. at = "ring3" /\ cpu' = c /\ pic' = pic
        /\ at' = (IF code_dpl(descriptor(c, c.cs)) # 3 THEN "undelivered"
                  ELSE IF entry = UserPage THEN "user" ELSE "elsewhere")
    BY <1>5 DEF enter_ring3, At, machine
  <2>2. Done("ring3", cpu) /\ cpu.frames = << >>
    BY <2>1, StartFacts DEF StartAt
  <2>0. c = [cpu EXCEPT !.cs = USER_CODE_SELECTOR_R3, !.ss = USER_DATA_SELECTOR_R3,
                        !.cpl = 3, !.int_flag = TRUE, !.rsp = "user"]
    OBVIOUS
  <2> HIDE DEF c
  <2>3. IsCpu(c) /\ c.ok = TRUE /\ c.frames = << >> /\ c.cs = USER_CODE_SELECTOR_R3
        /\ c.ss = USER_DATA_SELECTOR_R3 /\ c.cpl = 3 /\ c.int_flag = TRUE /\ c.rsp = "user"
    BY <1>1, <2>0, <2>2 DEF IsCpu
  <2>4. SameTables(cpu, c)
    BY <1>1, <2>0 DEF IsCpu, SameTables
  <2>5. Done("ring3", c)
    BY <2>2, <2>4, DoneKept
  <2>6. Done("user", c) /\ Done("elsewhere", c) /\ Segments(c)
    BY <2>5 DEF Done, AfterRsp0, AfterEfer, AfterMsrs, UserAt
  <2>7. Context("user", c) /\ Context("elsewhere", c)
    BY <2>3 DEF Context, UserAt
  <2>8. at' \in {"user", "elsewhere"}
    BY <2>1, <2>3, <2>6, Selectors
  <2> QED
    BY <1>1, <2>1, <2>3, <2>6, <2>7, <2>8, CodeStep DEF UserAt
<1>6. CASE user_syscall
  <2>1. at \in UserAt /\ at # "user_hlt" /\ pic' = pic
    BY <1>6 DEF user_syscall, machine, UserAt
  <2>2. Done(at, cpu) /\ Context(at, cpu) /\ cpu.frames = << >>
    BY <2>1 DEF MainInv, AtGdt, AtIdt, InCode, InHandler, InSyscall, HasStopped, UserAt
  <2>3. Msrs(cpu) /\ cpu.sce = TRUE /\ cpu.int_flag = TRUE /\ Done("user", cpu)
    BY <2>1, <2>2 DEF Done, AfterRsp0, AfterEfer, AfterMsrs, Context, UserAt
  <2> DEFINE resume == IF at = "user" THEN "user_hlt" ELSE "elsewhere"
             d == syscall(cpu, resume)
  <2>4. cpu' = d /\ at' = "syscall_entry"
    BY <1>6, <2>3 DEF user_syscall
  <2> HIDE DEF resume
  <2>5. /\ IsCpu(d) /\ d.ok = cpu.ok /\ SameTables(cpu, d) /\ d.frames = cpu.frames
        /\ d.cs = KERNEL_CODE_SELECTOR /\ d.ss = KERNEL_DATA_SELECTOR /\ d.cpl = 0
        /\ d.int_flag = FALSE /\ d.rcx = resume /\ d.r11 = TRUE
    BY <1>1, <2>3, Syscall
  <2> HIDE DEF d
  <2>6. Done("user", d)
    BY <2>3, <2>5, DoneKept
  <2>7. InSyscall'
    BY <2>2, <2>4, <2>5, <2>6 DEF InSyscall, resume, UserAt
  <2>8. FramesOnKernelStacks'
    BY <2>2, <2>4, <2>5 DEF FramesOnKernelStacks
  <2> QED
    BY <1>1, <2>1, <2>4, <2>5, <2>7, <2>8 DEF MainInv
<1>7. CASE user_fault
  BY <1>1, <1>7, RaiseStep DEF user_fault, machine, UserAt, Resumable
<1>8. CASE syscall_entry
  <2>1. InSyscall /\ pic' = pic
    BY <1>8 DEF syscall_entry, At, machine, MainInv, AtGdt, AtIdt, InCode, InHandler, HasStopped,
       StartAt, UserAt
  <2>2. ASSUME NEW stack, NEW label,
               cpu' = [cpu EXCEPT !.rsp = stack, !.int_flag = FALSE], at' = label,
               label \in {"syscall", "sysret"}, label = "sysret" => stack = "user"
        PROVE  MainInv'
    <3>1. /\ IsCpu(cpu') /\ cpu'.ok = TRUE /\ cpu'.frames = cpu.frames /\ cpu'.cs = cpu.cs
          /\ cpu'.ss = cpu.ss /\ cpu'.cpl = cpu.cpl /\ cpu'.int_flag = FALSE
          /\ cpu'.rcx = cpu.rcx /\ cpu'.r11 = cpu.r11 /\ cpu'.rsp = stack
      BY <1>1, <2>2 DEF IsCpu
    <3>2. SameTables(cpu, cpu')
      BY <1>1, <2>2 DEF IsCpu, SameTables
    <3>3. Done("user", cpu')
      BY <2>1, <3>2, DoneKept DEF InSyscall
    <3>4. InSyscall'
      BY <2>1, <2>2, <3>1, <3>3 DEF InSyscall
    <3>5. FramesOnKernelStacks'
      BY <2>1, <3>1 DEF InSyscall, FramesOnKernelStacks
    <3> QED
      BY <1>1, <2>1, <3>1, <3>4, <3>5 DEF MainInv
  <2>3. CASE At("syscall_entry")
    <3>1. cpu' = [cpu EXCEPT !.rsp = cpu.syscall_stack_top] /\ at' = "syscall"
      BY <1>8, <2>3 DEF syscall_entry, At
    <3>2. cpu' = [cpu EXCEPT !.rsp = cpu.syscall_stack_top, !.int_flag = FALSE]
      BY <1>1, <2>1, <3>1 DEF InSyscall, IsCpu
    <3> QED
      BY <2>2, <3>1, <3>2
  <2>4. CASE At("syscall")
    BY <1>8, <2>2, <2>4 DEF syscall_entry, At
  <2>5. CASE At("sysret")
    <3> DEFINE l == cpu.rcx
               d == sysretq(cpu)
    <3>1. cpu' = d /\ at' = l /\ l \in UserAt /\ cpu.rsp = "user" /\ cpu.r11 = TRUE
          /\ Done("user", cpu) /\ cpu.frames = << >>
      BY <1>8, <2>1, <2>5 DEF syscall_entry, At, InSyscall, UserAt
    <3>2. Msrs(cpu)
      BY <3>1 DEF Done, AfterMsrs, UserAt
    <3>3. IsCpu(d) /\ d.ok = cpu.ok /\ SameTables(cpu, d) /\ d.frames = cpu.frames /\ Context(l, d)
      BY <1>1, <3>1, <3>2, Sysretq
    <3> HIDE DEF d
    <3>4. Done("user", d)
      BY <3>1, <3>3, DoneKept
    <3>5. Done(l, d)
      BY <3>1, <3>4 DEF Done, AfterRsp0, AfterEfer, AfterMsrs, UserAt
    <3> QED
      BY <1>1, <2>1, <3>1, <3>3, <3>5, CodeStep
  <2> QED
    BY <1>8, <2>3, <2>4, <2>5 DEF syscall_entry
<1> QED
  BY <1>2, <1>3, <1>4, <1>5, <1>6, <1>7, <1>8 DEF Execute

(* Interrupts reach the processor in user mode only, and the timer and the  *)
(* TLB leave it alone.                                                      *)
LEMMA HardwareStep == MainInv /\ (tick \/ irq0 \/ tlb_fill) => MainInv'
<1> SUFFICES ASSUME MainInv, tick \/ irq0 \/ tlb_fill PROVE MainInv'
  OBVIOUS
<1>1. pic \in [vector : {8, 32}, requested : BOOLEAN, in_service : BOOLEAN]
  BY DEF MainInv
<1>2. ASSUME cpu' = cpu, at' = at,
             pic' \in [vector : {8, 32}, requested : BOOLEAN, in_service : BOOLEAN]
      PROVE  MainInv'
  <2>1. FramesOnKernelStacks'
    BY <1>2 DEF MainInv, FramesOnKernelStacks
  <2>2. AtGdt' \/ AtIdt' \/ InCode' \/ InHandler' \/ InSyscall' \/ HasStopped'
    BY <1>2 DEF MainInv, AtGdt, AtIdt, InCode, InHandler, InSyscall, HasStopped
  <2> QED
    BY <1>2, <2>1, <2>2 DEF MainInv
<1>3. CASE tick
  <2>1. pic' \in [vector : {8, 32}, requested : BOOLEAN, in_service : BOOLEAN]
    BY <1>1, <1>3 DEF tick
  <2> QED
    BY <1>2, <1>3, <2>1 DEF tick
<1>4. CASE tlb_fill
  BY <1>1, <1>2, <1>4 DEF tlb_fill
<1>5. CASE irq0
  <2>1. cpu.int_flag /\ at \notin Stopped /\ Raise(pic.vector, 1, at) /\ pic' = acknowledged(pic)
    BY <1>5 DEF irq0
  <2>2. pic' \in [vector : {8, 32}, requested : BOOLEAN, in_service : BOOLEAN]
    BY <1>1, <2>1 DEF acknowledged
  <2>3. pic.vector \in 0 .. 32
    BY <1>1
  <2>4. at \in UserAt
    BY <2>1 DEF MainInv, AtGdt, AtIdt, InCode, InHandler, InSyscall, HasStopped, Stopped, Context,
       UserAt
  <2> QED
    BY <2>1, <2>2, <2>3, <2>4, RaiseStep DEF Resumable
<1> QED
  BY <1>3, <1>4, <1>5

(* Each step preserves the inductive invariant.                             *)
LEMMA NextMainInv == MainInv /\ [KNext]_kvars => MainInv'
<1> SUFFICES ASSUME MainInv, [KNext]_kvars PROVE MainInv'
  OBVIOUS
<1>1. CASE Start
  BY <1>1, SetupGdtStep, SetupIdtStep, SetupRsp0Step, MsrTestStep, SyscallMsrStep, OtherStartSteps
  DEF Start
<1>2. CASE UNCHANGED kvars
  <2>1. cpu' = cpu /\ at' = at /\ pic' = pic
    BY <1>2 DEF kvars, machine
  <2>2. FramesOnKernelStacks'
    BY <2>1 DEF MainInv, FramesOnKernelStacks
  <2>3. AtGdt' \/ AtIdt' \/ InCode' \/ InHandler' \/ InSyscall' \/ HasStopped'
    BY <2>1 DEF MainInv, AtGdt, AtIdt, InCode, InHandler, InSyscall, HasStopped
  <2> QED
    BY <2>1, <2>2, <2>3 DEF MainInv
<1> QED
  BY <1>1, <1>2, ExecuteStep, HardwareStep DEF KNext

-----------------------------------------------------------------------------
(* MainInv is an inductive invariant, with any memory map, any layout of    *)
(* the kernel and wherever a step runs out of frames.                       *)
THEOREM MainInvariance == KSpec => []MainInv
BY InitMainInv, NextMainInv, PTL DEF KSpec

(* No event comes before its gate, its stack and the segments it needs are  *)
(* in place, and no selector that is loaded names the wrong descriptor.     *)
THEOREM EventsAreHandled == KSpec => []EventsFindHandlers
<1>1. MainInv => EventsFindHandlers
  BY DEF MainInv, AtGdt, AtIdt, InCode, InHandler, InSyscall, HasStopped, EventsFindHandlers,
     StartAt, UserAt
<1> QED
  BY <1>1, MainInvariance, PTL

(* CS and SS are of the privilege level the processor runs at, whichever of *)
(* a gate, IRETQ, SYSCALL, SYSRET and the entry to ring 3 set them.         *)
THEOREM PrivilegesMatch == KSpec => []SegmentsMatchPrivilege
<1>1. MainInv => SegmentsMatchPrivilege
  <2> SUFFICES ASSUME MainInv PROVE SegmentsMatchPrivilege
    OBVIOUS
  <2>1. CASE AtGdt
    <3>1. 24 \div 8 = 3 /\ 16 \div 8 = 2
      OBVIOUS
    <3>2. descriptor(cpu, cpu.cs) = "code64" /\ descriptor(cpu, cpu.ss) = "kernel_data"
      BY <2>1, <3>1 DEF AtGdt, descriptor, stage2_gdt, STAGE2_CODE_SELECTOR, KERNEL_DATA_SELECTOR
    <3>3. code_dpl("code64") = 0 /\ data_dpl("kernel_data") = 0
      BY DEF code_dpl, data_dpl
    <3> QED
      BY <2>1, <3>2, <3>3 DEF AtGdt, SegmentsMatchPrivilege
  <2>2. CASE AtIdt \/ InCode
    <3>1. Segments(cpu) /\ Context(at, cpu)
      BY <2>2 DEF AtIdt, InCode, Done
    <3> QED
      BY <3>1, Selectors DEF Context, SegmentsMatchPrivilege
  <2>3. CASE InHandler \/ InSyscall
    <3>1. Segments(cpu)
      BY <2>3 DEF InHandler, InSyscall, Done
    <3>2. cpu.cs = KERNEL_CODE_SELECTOR /\ cpu.ss \in {0, KERNEL_DATA_SELECTOR} /\ cpu.cpl = 0
      BY <2>3 DEF InHandler, InSyscall
    <3> QED
      BY <3>1, <3>2, Selectors DEF SegmentsMatchPrivilege
  <2>4. CASE HasStopped
    BY <2>4 DEF HasStopped, SegmentsMatchPrivilege, Stopped
  <2> QED
    BY <2>1, <2>2, <2>3, <2>4 DEF MainInv
<1> QED
  BY <1>1, MainInvariance, PTL

(* No frame is pushed on the user's stack: an interrupt cannot come between *)
(* SYSCALL and the switch of stacks, or between the way back and SYSRET.    *)
THEOREM FramesAreOnKernelStacks == KSpec => []FramesOnKernelStacks
<1>1. MainInv => FramesOnKernelStacks
  BY DEF MainInv
<1> QED
  BY <1>1, MainInvariance, PTL

-----------------------------------------------------------------------------
(* Two sets of page tables.  The scratch tables, which are never used       *)
(* again, stay where they are when the kernel's are made.  What a call does *)
(* to the kernel's it does as if the others (D) were not there.             *)

(* The tables T without those of D, and a memory without them.              *)
Rest(T, D) == [t \in DOMAIN T \ D |-> T[t]]

Without(m, D) == Mem(m.pmm, Rest(m.tables, D), m.root, m.at, m.ok)

(* A memory is its fields.                                                  *)
LEMMA MemIs ==
    ASSUME NEW m, NEW p, NEW T, NEW c, NEW a, NEW k, Fields(m, p, T, c, a, k)
    PROVE  m = Mem(p, T, c, a, k)
  BY Zenon DEF Fields, IsMem

(* The fields of a memory without the tables of D.                          *)
LEMMA WithoutFields ==
    ASSUME NEW m, NEW D, m.ok \in BOOLEAN
    PROVE  Fields(Without(m, D), m.pmm, Rest(m.tables, D), m.root, m.at, m.ok)
  BY FieldsOf, Zenon DEF Without

(* The same of a memory that is known to be one.                            *)
LEMMA WithoutOf ==
    ASSUME NEW m, IsMem(m), NEW D
    PROVE  Fields(Without(m, D), m.pmm, Rest(m.tables, D), m.root, m.at, m.ok)
<1>1. m.ok \in BOOLEAN
  BY DEF IsMem
<1> QED
  BY <1>1, WithoutFields

(* The same of a memory whose fields are given.                             *)
LEMMA WithoutIs ==
    ASSUME NEW m, NEW p, NEW T, NEW c, NEW a, NEW k, NEW D, Fields(m, p, T, c, a, k)
    PROVE  Fields(Without(m, D), p, Rest(T, D), c, a, k)
<1>1. m.pmm = p /\ m.tables = T /\ m.root = c /\ m.at = a /\ m.ok = k
  BY Zenon DEF Fields
<1>2. m.ok \in BOOLEAN
  BY Zenon DEF Fields, IsMem
<1>3. Fields(Without(m, D), m.pmm, Rest(m.tables, D), m.root, m.at, m.ok)
  BY <1>2, WithoutFields
<1> QED
  BY <1>1, <1>3, Zenon

(* Memories with the same fields are the same.                              *)
LEMMA SameFields ==
    ASSUME NEW m, NEW r, NEW p, NEW T, NEW c, NEW a, NEW k,
           Fields(m, p, T, c, a, k), Fields(r, p, T, c, a, k)
    PROVE  m = r
<1>1. m = Mem(p, T, c, a, k)
  BY MemIs
<1>2. r = Mem(p, T, c, a, k)
  BY MemIs
<1> QED
  BY <1>1, <1>2, Zenon

(* An entry of another table is set, and a table that is not of D added.    *)
LEMMA RestPut ==
    ASSUME NEW T, NEW D, NEW t \in DOMAIN T \ D, NEW i, NEW e
    PROVE  Rest([T EXCEPT ![t][i] = e], D) = [Rest(T, D) EXCEPT ![t][i] = e]
  BY DEF Rest

(* The tables with one more, and with an entry that leads to it.            *)
Added(T, n) == [s \in DOMAIN T \cup {n} |-> IF s = n THEN zeroed ELSE T[s]]

(* The tables with an empty one at n that entry i of t points to, and with  *)
(* entry i of t set.                                                        *)
Grafted(T, t, i, n, e) == [Added(T, n) EXCEPT ![t][i] = e]

Put(T, t, i, e) == [T EXCEPT ![t][i] = e]

(* Setting an entry of a table that is not in D.                            *)
LEMMA RestPutIs ==
    ASSUME NEW T, NEW D, NEW t, t \in DOMAIN T \ D, NEW i, NEW e
    PROVE  Rest(Put(T, t, i, e), D) = Put(Rest(T, D), t, i, e)
  BY DEF Rest, Put

(* Adding a table that is not in D.                                         *)
LEMMA RestNew ==
    ASSUME NEW T, NEW D, NEW n, n \notin D
    PROVE  Rest(Added(T, n), D) = Added(Rest(T, D), n)
  BY DEF Rest, Added

(* The four things get_or_create_table can do.                              *)
LEMMA ChildIs ==
    ASSUME NEW m, IsMem(m), NEW i, NEW w, NEW u
    PROVE  LET r == get_or_create_table(m, i, w, u)
               x == m.tables[m.at][i]
               n == first_free(m.pmm) * FRAME_SIZE
           IN  /\ ~m.ok => r = m
               /\ m.ok /\ x.present =>
                    Fields(r, m.pmm, [m.tables EXCEPT ![m.at][i] = widened(x, w, u)], m.root,
                           x.address, m.ok)
               /\ m.ok /\ ~x.present /\ ~HasFree(m.pmm) =>
                    Fields(r, m.pmm, m.tables, m.root, m.at, FALSE)
               /\ m.ok /\ ~x.present /\ HasFree(m.pmm) =>
                    Fields(r, mark_allocated(m.pmm, first_free(m.pmm)),
                           Grafted(m.tables, m.at, i, n, make_entry(n, w, u)), m.root, n, m.ok)
<1> DEFINE r == get_or_create_table(m, i, w, u)
           T == m.tables
           t == m.at
           x == T[t][i]
           n == first_free(m.pmm) * FRAME_SIZE
           q == mark_allocated(m.pmm, first_free(m.pmm))
           N == [s \in DOMAIN T \cup {n} |-> IF s = n THEN zeroed ELSE T[s]]
           made == new_table(m)
<1>1. Fields(m, m.pmm, T, m.root, t, m.ok)
  BY DEF Fields
<1>2. CASE ~m.ok
  BY <1>2, NotEntered
<1>3. CASE m.ok /\ x.present
  <2> DEFINE e == widened(x, w, u)
  <2>1. r = [put(m, t, i, e) EXCEPT !.at = x.address]
    BY <1>3 DEF get_or_create_table
  <2>2. Fields(put(m, t, i, e), m.pmm, [T EXCEPT ![t][i] = e], m.root, t, m.ok)
    BY <1>1, FieldsPut, Zenon
  <2>3. Fields(r, m.pmm, [T EXCEPT ![t][i] = e], m.root, x.address, m.ok)
    BY <2>1, <2>2, FieldsAt, Zenon
  <2> QED
    BY <1>3, <2>3
<1>4. CASE m.ok /\ ~x.present /\ ~HasFree(m.pmm)
  <2>1. r = [m EXCEPT !.ok = FALSE]
    BY <1>4 DEF get_or_create_table
  <2>2. Fields(r, m.pmm, T, m.root, t, FALSE)
    BY <1>1, <2>1, FieldsOk, Zenon
  <2> QED
    BY <1>4, <2>2
<1>5. CASE m.ok /\ ~x.present /\ HasFree(m.pmm)
  <2> DEFINE e == make_entry(n, w, u)
             m1 == [m EXCEPT !.pmm = q]
  <2>1. r = [put(made, t, i, e) EXCEPT !.at = n]
    BY <1>5 DEF get_or_create_table
  <2>2. Fields(m1, q, T, m.root, t, m.ok)
    <3>1. m1 = [m EXCEPT !.pmm = q]
      OBVIOUS
    <3> HIDE DEF m1, q, T, t
    <3> QED
      BY <1>1, <3>1, FieldsPmm, Zenon
  <2>3. made = [m1 EXCEPT !.tables = N]
    <3>1. made = [m EXCEPT !.pmm = q, !.tables = N]
      BY DEF new_table
    <3>2. [m EXCEPT !.pmm = q, !.tables = N] = [m1 EXCEPT !.tables = N]
      <4> HIDE DEF q, N
      <4> QED
        OBVIOUS
    <3> QED
      BY <3>1, <3>2, Zenon
  <2>4. Grafted(T, t, i, n, e) = [N EXCEPT ![t][i] = e]
    BY DEF Grafted, Added
  <2> HIDE DEF made, m1, N, q, T, t, e, r, x, n
  <2>5. Fields(made, q, N, m.root, t, m.ok)
    BY <2>2, <2>3, FieldsTables, Zenon
  <2>6. Fields(put(made, t, i, e), q, [N EXCEPT ![t][i] = e], m.root, t, m.ok)
    BY <2>5, FieldsPut, Zenon
  <2>7. Fields(r, q, Grafted(T, t, i, n, e), m.root, n, m.ok)
    BY <2>1, <2>4, <2>6, FieldsAt, Zenon
  <2> QED
    BY <1>5, <2>7 DEF T, t, x, n, q, e, r
<1> QED
  BY <1>2, <1>3, <1>4, <1>5

-----------------------------------------------------------------------------
(* H has the frames of D.                                                   *)
Kept(D, H) == \A d \in D : FrameAt(d, H)

(* A frame that is free is not that of a table of D.                        *)
LEMMA NewNotKept ==
    ASSUME NEW p, PmmOK(p), HasFree(p), NEW D, NEW H, Kept(D, H), H \subseteq p.allocated
    PROVE  first_free(p) * FRAME_SIZE \notin D
<1> DEFINE f == first_free(p)
<1>1. f \in Nat /\ f \notin p.allocated
  BY TakeOne
<1> HIDE DEF f
<1>2. (f * FRAME_SIZE) \div FRAME_SIZE = f
  BY <1>1, FrameAddress
<1> SUFFICES ASSUME f * FRAME_SIZE \in D PROVE FALSE
  BY DEF f
<1> QED
  BY <1>1, <1>2 DEF Kept, FrameAt

(* One level of a walk in the kernel's tables.                              *)
LEMMA GetWithout ==
    ASSUME NEW m, IsMem(m), NEW D, NEW H, Kept(D, H), PmmOK(m.pmm), H \subseteq m.pmm.allocated,
           m.at \in DOMAIN m.tables \ D, NEW i, NEW w, NEW u
    PROVE  LET r == get_or_create_table(m, i, w, u)
           IN  IsMem(r) /\ Without(r, D) = get_or_create_table(Without(m, D), i, w, u)
<1> DEFINE r == get_or_create_table(m, i, w, u)
           o == Without(m, D)
           s == get_or_create_table(o, i, w, u)
           T == m.tables
           t == m.at
           x == T[t][i]
           n == first_free(m.pmm) * FRAME_SIZE
           q == mark_allocated(m.pmm, first_free(m.pmm))
<1>1. m.ok \in BOOLEAN
  BY DEF IsMem
<1>2. Fields(o, m.pmm, Rest(T, D), m.root, t, m.ok)
  BY <1>1, WithoutFields
<1>3. IsMem(o) /\ o.pmm = m.pmm /\ o.tables = Rest(T, D) /\ o.root = m.root /\ o.at = t /\ o.ok = m.ok
  BY <1>2, Zenon DEF Fields
<1>4. Rest(T, D)[t] = T[t]
  BY DEF Rest
<1>5. Rest(T, D)[t][i] = x
  BY <1>4
<1> HIDE DEF o
<1>6. CASE ~m.ok
  <2>1. r = m /\ s = o
    BY <1>3, <1>6, NotEntered
  <2> QED
    BY <2>1 DEF o
<1>7. CASE m.ok /\ x.present
  <2> DEFINE e == widened(x, w, u)
  <2>1. Fields(r, m.pmm, [T EXCEPT ![t][i] = e], m.root, x.address, m.ok)
    BY <1>7, ChildIs
  <2>2. Fields(s, m.pmm, [Rest(T, D) EXCEPT ![t][i] = e], m.root, x.address, m.ok)
    BY <1>3, <1>5, <1>7, ChildIs
  <2>3. Rest([T EXCEPT ![t][i] = e], D) = [Rest(T, D) EXCEPT ![t][i] = e]
    BY RestPut
  <2> HIDE DEF r, s, e, x, T, t
  <2>4. Fields(Without(r, D), m.pmm, Rest([T EXCEPT ![t][i] = e], D), m.root, x.address, m.ok)
    BY <2>1, WithoutIs, Zenon
  <2>5. Fields(s, m.pmm, Rest([T EXCEPT ![t][i] = e], D), m.root, x.address, m.ok)
    BY <2>2, <2>3, Zenon
  <2>6. Without(r, D) = s
    BY <2>4, <2>5, SameFields, Zenon
  <2> QED
    BY <2>1, <2>6, Zenon DEF r, s, o, Fields
<1>8. CASE m.ok /\ ~x.present /\ ~HasFree(m.pmm)
  <2>1. Fields(r, m.pmm, T, m.root, t, FALSE)
    BY <1>8, ChildIs
  <2>2. Fields(s, m.pmm, Rest(T, D), m.root, t, FALSE)
    BY <1>3, <1>5, <1>8, ChildIs
  <2> HIDE DEF r, s, x, T, t
  <2>3. Fields(Without(r, D), m.pmm, Rest(T, D), m.root, t, FALSE)
    BY <2>1, WithoutIs, Zenon
  <2>4. Without(r, D) = s
    BY <2>2, <2>3, SameFields, Zenon
  <2> QED
    BY <2>1, <2>4, Zenon DEF r, s, o, Fields
<1>9. CASE m.ok /\ ~x.present /\ HasFree(m.pmm)
  <2> DEFINE e == make_entry(n, w, u)
  <2>1. Fields(r, q, Grafted(T, t, i, n, e), m.root, n, m.ok)
    BY <1>9, ChildIs
  <2>2. Fields(s, q, Grafted(Rest(T, D), t, i, n, e), m.root, n, m.ok)
    BY <1>3, <1>5, <1>9, ChildIs
  <2>3. n \notin D
    BY <1>9, NewNotKept
  <2>4. Rest(Grafted(T, t, i, n, e), D) = Grafted(Rest(T, D), t, i, n, e)
    <3> HIDE DEF n, e
    <3>1. t \in DOMAIN Added(T, n) \ D
      BY DEF Added
    <3> HIDE DEF T, t
    <3>2. Rest(Grafted(T, t, i, n, e), D) = [Rest(Added(T, n), D) EXCEPT ![t][i] = e]
      <4> DEFINE N == Added(T, n)
      <4>1. Grafted(T, t, i, n, e) = [N EXCEPT ![t][i] = e]
        BY DEF Grafted
      <4>2. t \in DOMAIN N \ D
        BY <3>1
      <4> HIDE DEF N
      <4>3. Rest([N EXCEPT ![t][i] = e], D) = [Rest(N, D) EXCEPT ![t][i] = e]
        BY <4>2, RestPut
      <4> QED
        BY <4>1, <4>3, Zenon DEF N
    <3>3. Rest(Added(T, n), D) = Added(Rest(T, D), n)
      BY <2>3, RestNew
    <3> QED
      BY <3>2, <3>3 DEF Grafted
  <2> HIDE DEF r, s, e, x, T, t, q, n
  <2>5. Fields(Without(r, D), q, Rest(Grafted(T, t, i, n, e), D), m.root, n, m.ok)
    BY <2>1, WithoutIs, Zenon
  <2>6. Fields(s, q, Rest(Grafted(T, t, i, n, e), D), m.root, n, m.ok)
    BY <2>2, <2>4, Zenon
  <2>7. Without(r, D) = s
    BY <2>5, <2>6, SameFields, Zenon
  <2> QED
    BY <2>1, <2>7, Zenon DEF r, s, o, Fields
<1> QED
  BY <1>6, <1>7, <1>8, <1>9

(* The walk of map at the root, and after one and two levels.               *)
Top(m) == [m EXCEPT !.at = m.root]
Step1(m, ix, w, u) == get_or_create_table(Top(m), ix[1], w, u)
Step2(m, ix, w, u) == get_or_create_table(Step1(m, ix, w, u), ix[2], w, u)

(* The walk can go on from r.                                               *)
GoesOn(m, r, H) ==
    /\ IsMem(r) /\ PmmOK(r.pmm) /\ H \subseteq r.pmm.allocated /\ r.root = m.root
    /\ Keeps(m.tables, r.tables)
    /\ r.ok => r.at \in DOMAIN r.tables

(* Each level of the walk of map leaves a memory from which the next can go *)
(* on.                                                                      *)
LEMMA WalkChain ==
    ASSUME NEW m, NEW lev, Good(m, lev), NEW H, NEW S \in SUBSET Nat, Own(m, H, S), m.ok,
           NEW ix \in Indexes, NEW w \in BOOLEAN, NEW u \in BOOLEAN
    PROVE  LET m0 == Top(m)
               m1 == Step1(m, ix, w, u)
               m2 == Step2(m, ix, w, u)
           IN  /\ GoesOn(m, m0, H) /\ m0.ok /\ m0.at = m.root /\ m0.tables = m.tables /\ m0.pmm = m.pmm
               /\ GoesOn(m, m1, H)
               /\ m1.ok => m1.tables[m.root][ix[1]].present /\ m1.tables[m.root][ix[1]].address = m1.at
               /\ GoesOn(m, m2, H)
               /\ m2.ok => /\ m1.ok
                           /\ m2.tables[m1.at][ix[2]].present /\ m2.tables[m1.at][ix[2]].address = m2.at
<1> DEFINE i1 == ix[1]
           i2 == ix[2]
           m0 == Top(m)
           m1 == get_or_create_table(m0, i1, w, u)
           m2 == get_or_create_table(m1, i2, w, u)
<1>1. m1 = Step1(m, ix, w, u) /\ m2 = Step2(m, ix, w, u)
  BY DEF Step1, Step2
<1>2. i1 \in Index /\ i2 \in Index
  BY DEF Indexes
<1>3. /\ Good(m0, lev) /\ Own(m0, H, S) /\ Grown(m, lev, m0, lev) /\ m0.ok
      /\ m0.at = m.root /\ m0.tables = m.tables
      /\ m0.at \in DOMAIN m0.tables /\ lev[m0.at] = 1 /\ Permits(m0.tables, lev, m0.at, w, u)
  BY AtRoot DEF Top
<1>4. m0.pmm = m.pmm
  <2>1. Fields(m, m.pmm, m.tables, m.root, m.at, m.ok)
    BY DEF Good, Fields
  <2>2. Fields(m0, m.pmm, m.tables, m.root, m.root, m.ok)
    BY <2>1, FieldsAt, Zenon DEF Top
  <2> QED
    BY <2>2, Zenon DEF Fields
<1> HIDE DEF m0, i1, i2
<1>5. PICK lev1 : /\ Good(m1, lev1) /\ Own(m1, H, S) /\ Grown(m0, lev, m1, lev1)
                  /\ m1.ok => Entered(m0, m1, lev1, i1, w, u)
  <2>1. lev[m0.at] \in 1 .. 3
    BY <1>3
  <2> QED
    BY <1>2, <1>3, <2>1, GetOrCreate
<1>6. Grown(m, lev, m1, lev1)
  BY <1>3, <1>5, GrownTwice
<1>7. GoesOn(m, m0, H)
  BY <1>3 DEF GoesOn, Good, Own, Grown
<1>8. GoesOn(m, m1, H) /\ (m1.ok => m1.tables[m.root][i1].present /\ m1.tables[m.root][i1].address = m1.at)
  BY <1>3, <1>5, <1>6 DEF GoesOn, Good, Own, Grown, Entered
<1>9. CASE ~m1.ok
  <2>1. m2 = m1
    BY <1>9, NotEntered
  <2> QED
    BY <1>1, <1>3, <1>4, <1>7, <1>8, <1>9, <2>1 DEF m0, i1, i2
<1>10. CASE m1.ok
  <2>1. /\ m1.at \in DOMAIN m1.tables /\ Permits(m1.tables, lev1, m1.at, w, u)
    BY <1>3, <1>5, <1>10 DEF Entered
  <2>2. lev1[m1.at] = 2
    BY <1>3, <1>5, <1>10 DEF Entered, Grown
  <2> HIDE DEF m1
  <2>3. PICK lev2 : /\ Good(m2, lev2) /\ Own(m2, H, S) /\ Grown(m1, lev1, m2, lev2)
                    /\ m2.ok => Entered(m1, m2, lev2, i2, w, u)
    <3>1. lev1[m1.at] \in 1 .. 3
      BY <2>2
    <3> QED
      BY <1>2, <1>5, <1>10, <2>1, <3>1, GetOrCreate
  <2>4. Grown(m, lev, m2, lev2)
    BY <1>6, <2>3, GrownTwice
  <2> HIDE DEF m2
  <2>5. GoesOn(m, m2, H) /\ (m2.ok => m2.tables[m1.at][i2].present /\ m2.tables[m1.at][i2].address = m2.at)
    BY <2>3, <2>4 DEF GoesOn, Good, Own, Grown, Entered
  <2> QED
    BY <1>1, <1>3, <1>4, <1>7, <1>8, <1>10, <2>5 DEF m0, i1, i2
<1> QED
  BY <1>9, <1>10

(* The walk of map, without the tables of D.                                *)
LEMMA WalkedWithout ==
    ASSUME NEW m, IsMem(m), NEW D, NEW H, Kept(D, H), NEW S \in SUBSET Nat, NEW lev,
           Good(Without(m, D), lev), Own(Without(m, D), H, S), m.ok,
           NEW ix \in Indexes, NEW w \in BOOLEAN, NEW u \in BOOLEAN
    PROVE  LET x == Walked(m, ix, w, u)
           IN  IsMem(x) /\ Without(x, D) = Walked(Without(m, D), ix, w, u)
<1> DEFINE o == Without(m, D)
           m0 == Top(m)
           o0 == Top(o)
           m1 == Step1(m, ix, w, u)
           o1 == Step1(o, ix, w, u)
           m2 == Step2(m, ix, w, u)
           o2 == Step2(o, ix, w, u)
           m3 == get_or_create_table(m2, ix[3], w, u)
           o3 == get_or_create_table(o2, ix[3], w, u)
<1>1. m.ok \in BOOLEAN
  BY DEF IsMem
<1>0. Fields(m, m.pmm, m.tables, m.root, m.at, m.ok)
  BY DEF Fields
<1>2. Fields(o, m.pmm, Rest(m.tables, D), m.root, m.at, m.ok)
  BY WithoutOf DEF o
<1>3. o.root = m.root /\ o.ok = m.ok
  BY <1>2, Zenon DEF Fields
<1>4. GoesOn(o, o0, H) /\ o0.ok /\ GoesOn(o, o1, H) /\ GoesOn(o, o2, H)
  BY <1>3, WalkChain
<1>5. IsMem(m0) /\ Without(m0, D) = o0
  <2>1. Fields(m0, m.pmm, m.tables, m.root, m.root, m.ok)
    BY <1>0, FieldsAt, Zenon DEF Top
  <2>2. Fields(o0, m.pmm, Rest(m.tables, D), m.root, m.root, m.ok)
    BY <1>2, <1>3, FieldsAt, Zenon DEF Top
  <2> HIDE DEF m0, o0
  <2>3. Fields(Without(m0, D), m.pmm, Rest(m.tables, D), m.root, m.root, m.ok)
    BY <2>1, WithoutIs
  <2>4. Without(m0, D) = o0
    BY <2>2, <2>3, SameFields
  <2> QED
    BY <2>1, <2>4 DEF Fields
<1>6. m1 = get_or_create_table(m0, ix[1], w, u) /\ o1 = get_or_create_table(o0, ix[1], w, u)
  BY DEF Step1
<1>7. m2 = get_or_create_table(m1, ix[2], w, u) /\ o2 = get_or_create_table(o1, ix[2], w, u)
  BY DEF Step2
<1>8. Walked(m, ix, w, u) = m3 /\ Walked(o, ix, w, u) = o3
  BY DEF Walked, Step1, Step2, Top
<1> HIDE DEF o, m0, o0, m1, o1, m2, o2
<1>9. ASSUME NEW x, IsMem(x), NEW y, Without(x, D) = y, GoesOn(o, y, H), NEW i
      PROVE  LET r == get_or_create_table(x, i, w, u)
             IN  IsMem(r) /\ Without(r, D) = get_or_create_table(y, i, w, u)
  <2>1. x.ok \in BOOLEAN
    BY <1>9 DEF IsMem
  <2>2. Fields(y, x.pmm, Rest(x.tables, D), x.root, x.at, x.ok)
    BY <1>9, <2>1, WithoutFields
  <2>3. y.pmm = x.pmm /\ y.tables = Rest(x.tables, D) /\ y.at = x.at /\ y.ok = x.ok
    BY <2>2 DEF Fields
  <2>4. CASE ~x.ok
    BY <1>9, <2>3, <2>4, NotEntered
  <2>5. CASE x.ok
    <3>1. x.at \in DOMAIN x.tables \ D
      BY <1>9, <2>3, <2>5 DEF GoesOn, Rest
    <3>2. PmmOK(x.pmm) /\ H \subseteq x.pmm.allocated
      BY <1>9, <2>3 DEF GoesOn
    <3> QED
      BY <1>9, <3>1, <3>2, GetWithout
  <2> QED
    BY <2>4, <2>5
<1>10. IsMem(m1) /\ Without(m1, D) = o1
  BY <1>4, <1>5, <1>6, <1>9
<1>11. IsMem(m2) /\ Without(m2, D) = o2
  BY <1>4, <1>7, <1>9, <1>10
<1>12. IsMem(m3) /\ Without(m3, D) = o3
  BY <1>4, <1>9, <1>11
<1> QED
  BY <1>8, <1>12 DEF o

(* So does map.                                                             *)
LEMMA MapWithout ==
    ASSUME NEW m, IsMem(m), NEW D, NEW H, Kept(D, H), NEW S \in SUBSET Nat, NEW lev,
           Good(Without(m, D), lev), Own(Without(m, D), H, S), m.ok,
           NEW va \in Nat, NEW pa \in Nat, NEW w \in BOOLEAN, NEW u \in BOOLEAN
    PROVE  LET r == map(m, va, pa, w, u)
           IN  IsMem(r) /\ Without(r, D) = map(Without(m, D), va, pa, w, u)
<1> DEFINE o == Without(m, D)
           r == map(m, va, pa, w, u)
           s == map(o, va, pa, w, u)
           ix == indexes(va)
           x == Walked(m, ix, w, u)
           y == Walked(o, ix, w, u)
           i4 == ix[4]
           e == make_entry(pa, w, u)
<1>1. ix \in Indexes
  BY IndexDigits
<1>2. r = IF ~MapAllowed(va, pa) THEN [m EXCEPT !.ok = FALSE]
          ELSE IF ~x.ok THEN x
          ELSE IF x.tables[x.at][i4].present THEN [x EXCEPT !.ok = FALSE]
          ELSE put(x, x.at, i4, e)
  BY DEF map, Walked
<1>3. s = IF ~MapAllowed(va, pa) THEN [o EXCEPT !.ok = FALSE]
          ELSE IF ~y.ok THEN y
          ELSE IF y.tables[y.at][i4].present THEN [y EXCEPT !.ok = FALSE]
          ELSE put(y, y.at, i4, e)
  BY DEF map, Walked
<1>4. IsMem(x) /\ Without(x, D) = y
  BY <1>1, WalkedWithout
<1>5. y.ok => y.at \in DOMAIN y.tables
  <2>1. o.ok
    <3>1. m.ok \in BOOLEAN
      BY DEF IsMem
    <3>2. Fields(o, m.pmm, Rest(m.tables, D), m.root, m.at, m.ok)
      BY WithoutOf DEF o
    <3> QED
      BY <3>2 DEF Fields
  <2> HIDE DEF o
  <2>2. PICK lev2 :
          /\ Good(y, lev2) /\ Grown(o, lev, y, lev2)
          /\ y.ok => Arrives(y.tables, o.root, ix) /\ Fourth(y.tables, o.root, ix) = y.at
    BY <1>1, <2>1, WalkCreates DEF o
  <2> HIDE DEF y, ix
  <2>3. Tree(y.tables, o.root, lev2)
    BY <2>2 DEF Good, Grown
  <2> QED
    BY <1>1, <2>2, <2>3, WalkLevels
<1>6. m.ok \in BOOLEAN /\ x.ok \in BOOLEAN
  BY <1>4 DEF IsMem
<1> HIDE DEF r, s, x, y, i4, e
<1>7. ASSUME NEW a, IsMem(a), NEW b, b = Without(a, D)
      PROVE  LET c == [a EXCEPT !.ok = FALSE]
             IN  IsMem(c) /\ Without(c, D) = [b EXCEPT !.ok = FALSE]
  <2> DEFINE c == [a EXCEPT !.ok = FALSE]
             d == [b EXCEPT !.ok = FALSE]
  <2>1. a.ok \in BOOLEAN /\ FALSE \in BOOLEAN
    BY <1>7 DEF IsMem
  <2>2. Fields(a, a.pmm, a.tables, a.root, a.at, a.ok)
    BY <1>7 DEF Fields
  <2>3. Fields(b, a.pmm, Rest(a.tables, D), a.root, a.at, a.ok)
    BY <1>7, <2>1, WithoutFields
  <2>4. Fields(c, a.pmm, a.tables, a.root, a.at, FALSE)
    BY <2>1, <2>2, FieldsOk, Zenon
  <2>5. Fields(d, a.pmm, Rest(a.tables, D), a.root, a.at, FALSE)
    BY <2>1, <2>3, FieldsOk, Zenon
  <2> HIDE DEF c, d
  <2>6. Fields(Without(c, D), a.pmm, Rest(a.tables, D), a.root, a.at, FALSE)
    BY <2>4, WithoutIs
  <2>7. Without(c, D) = d
    BY <2>5, <2>6, SameFields
  <2> QED
    BY <2>4, <2>7 DEF Fields, c, d
<1>8. Fields(y, x.pmm, Rest(x.tables, D), x.root, x.at, x.ok)
  BY <1>4, <1>6, WithoutFields
<1>9. y.ok = x.ok /\ y.at = x.at /\ y.tables = Rest(x.tables, D)
  BY <1>8 DEF Fields
<1>10. CASE ~MapAllowed(va, pa)
  BY <1>2, <1>3, <1>7, <1>10 DEF r, s
<1>11. CASE MapAllowed(va, pa) /\ ~x.ok
  BY <1>2, <1>3, <1>4, <1>9, <1>11 DEF r, s
<1>12. CASE MapAllowed(va, pa) /\ x.ok
  <2>1. x.at \in DOMAIN x.tables \ D
    BY <1>5, <1>9, <1>12 DEF Rest
  <2>2. Rest(x.tables, D)[x.at] = x.tables[x.at]
    BY <2>1 DEF Rest
  <2>3. CASE x.tables[x.at][i4].present
    <3>1. r = [x EXCEPT !.ok = FALSE] /\ s = [y EXCEPT !.ok = FALSE]
      BY <1>2, <1>3, <1>9, <1>12, <2>2, <2>3
    <3>2. IsMem([x EXCEPT !.ok = FALSE]) /\ Without([x EXCEPT !.ok = FALSE], D) = [y EXCEPT !.ok = FALSE]
      BY <1>4, <1>7
    <3> QED
      BY <3>1, <3>2, Zenon DEF r, s
  <2>4. CASE ~x.tables[x.at][i4].present
    <3> DEFINE T == x.tables
               t == x.at
               T2 == [T EXCEPT ![t][i4] = e]
    <3>1. r = put(x, t, i4, e) /\ s = put(y, t, i4, e)
      BY <1>2, <1>3, <1>9, <1>12, <2>2, <2>4
    <3>2. Fields(x, x.pmm, T, x.root, t, x.ok) /\ Fields(y, x.pmm, Rest(T, D), x.root, t, x.ok)
      BY <1>4, <1>8 DEF Fields
    <3>3. Rest(T2, D) = [Rest(T, D) EXCEPT ![t][i4] = e]
      <4>1. t \in DOMAIN T \ D
        BY <2>1
      <4> HIDE DEF T, t, e, i4
      <4>2. Rest(Put(T, t, i4, e), D) = Put(Rest(T, D), t, i4, e)
        BY <4>1, RestPutIs
      <4> QED
        BY <4>2, Zenon DEF Put
    <3> HIDE DEF T, t
    <3>4. Fields(r, x.pmm, T2, x.root, t, x.ok)
      BY <3>1, <3>2, FieldsPut, Zenon
    <3>5. Fields(s, x.pmm, [Rest(T, D) EXCEPT ![t][i4] = e], x.root, t, x.ok)
      BY <3>1, <3>2, FieldsPut, Zenon
    <3> HIDE DEF T2
    <3>6. Fields(s, x.pmm, Rest(T2, D), x.root, t, x.ok)
      BY <3>3, <3>5, Zenon
    <3>7. Fields(Without(r, D), x.pmm, Rest(T2, D), x.root, t, x.ok)
      BY <3>4, WithoutIs
    <3>8. Without(r, D) = s
      BY <3>6, <3>7, SameFields
    <3> QED
      BY <3>4, <3>8 DEF Fields, r, s
  <2> QED
    BY <2>3, <2>4
<1> QED
  BY <1>10, <1>11, <1>12

-----------------------------------------------------------------------------
(* Frames below IDENTITY_END.  Each step of _start spends some of them, and *)
(* the first free frame is one as long as there are any.                    *)

(* The free frames of the allocator p below IDENTITY_END, and that n of     *)
(* them are left.                                                           *)
LowFree(p) == {f \in Frames \ p.used : f * FRAME_SIZE < IDENTITY_END}

Spare(p, n) == Cardinality(LowFree(p)) >= n

(* They can be counted.                                                     *)
LEMMA LowFinite ==
    ASSUME NEW p
    PROVE  IsFiniteSet(LowFree(p)) /\ Cardinality(LowFree(p)) \in Nat /\ LowFree(p) \subseteq Frames
<1>1. LowFree(p) \in SUBSET Frames
  BY DEF LowFree
<1> QED
  BY <1>1, FramesFinite

(* No free frame is before the first.                                       *)
LEMMA FirstIsLeast ==
    ASSUME NEW p, NEW g \in Frames \ p.used
    PROVE  HasFree(p) /\ first_free(p) <= g
<1> DEFINE B == Frames \ p.used
<1>1. B \in SUBSET Nat /\ g \in B
  BY FrameAssumption DEF Frames
<1>2. HasFree(p)
  BY DEF HasFree
<1>3. first_free(p) = CHOOSE f \in B : \A h \in B : f <= h
  BY DEF first_free
<1> HIDE DEF B
<1>4. \E f \in B : \A h \in B : f <= h
  BY <1>1, Least
<1> QED
  BY <1>1, <1>2, <1>3, <1>4

(* While one is left, the frame that allocate_frame takes is one of them.   *)
LEMMA TakeLow ==
    ASSUME NEW p, NEW n \in Nat, n >= 1, Spare(p, n)
    PROVE  /\ HasFree(p) /\ first_free(p) * FRAME_SIZE < IDENTITY_END
           /\ Spare(mark_allocated(p, first_free(p)), n - 1)
<1> DEFINE L == LowFree(p)
           f == first_free(p)
           q == mark_allocated(p, f)
<1>1. IsFiniteSet(L) /\ Cardinality(L) \in Nat /\ Cardinality(L) >= n
  BY LowFinite DEF Spare
<1>2. L # {}
  BY <1>1, FS_EmptySet
<1>3. PICK g : g \in L
  BY <1>2
<1>4. g \in Frames \ p.used /\ g * FRAME_SIZE < IDENTITY_END
  BY <1>3 DEF LowFree
<1>5. HasFree(p) /\ f <= g
  BY <1>4, FirstIsLeast
<1>6. f \in Frames \ p.used
  BY <1>5, FirstFree
<1>7. f \in Nat /\ g \in Nat /\ IDENTITY_END \in Nat
  BY <1>4, <1>6, FrameAssumption, MainAssumption DEF Frames
<1> HIDE DEF f
<1>8. f * FRAME_SIZE <= g * FRAME_SIZE /\ f * FRAME_SIZE \in Nat /\ g * FRAME_SIZE \in Nat
  BY <1>5, <1>7, MultiplesOrdered
<1>9. f * FRAME_SIZE < IDENTITY_END
  BY <1>4, <1>7, <1>8
<1>10. f \in L /\ LowFree(q) = L \ {f}
  BY <1>6, <1>9 DEF LowFree, mark_allocated
<1> HIDE DEF L, q
<1>11. Cardinality(L \ {f}) = Cardinality(L) - 1
  BY <1>1, <1>10, FS_RemoveElement
<1>12. Spare(q, n - 1)
  BY <1>1, <1>10, <1>11 DEF Spare
<1> QED
  BY <1>5, <1>9, <1>12 DEF f, q

(* Frames that are given back are free again.                               *)
LEMMA SpareMore ==
    ASSUME NEW p, NEW q, NEW n, Spare(p, n), n \in Nat, q.used \subseteq p.used
    PROVE  Spare(q, n)
<1>1. IsFiniteSet(LowFree(q)) /\ LowFree(p) \subseteq LowFree(q)
  BY LowFinite DEF LowFree
<1>2. Cardinality(LowFree(p)) <= Cardinality(LowFree(q))
  BY <1>1, FS_Subset
<1>3. Cardinality(LowFree(p)) \in Nat /\ Cardinality(LowFree(q)) \in Nat
  BY LowFinite
<1> QED
  BY <1>2, <1>3 DEF Spare

(* t is a frame below IDENTITY_END; and the tables that r has and m has not *)
(* are such frames.                                                         *)
IsLow(t) == t < IDENTITY_END /\ \E f \in Frames : t = f * FRAME_SIZE

(* The tables of r that m does not have are in such frames.                 *)
NewLow(m, r) == \A t \in DOMAIN r.tables \ DOMAIN m.tables : IsLow(t)

(* From m to r at most j of those frames are spent, and, if there are that  *)
(* many, every new table is in one of them.                                 *)
Spends(m, r, j) ==
    \A n \in Nat : n >= j /\ Spare(m.pmm, n) => Spare(r.pmm, n - j) /\ NewLow(m, r)

(* A call that allocates nothing spends nothing.                            *)
LEMMA SpendsNothing ==
    ASSUME NEW m, NEW r, r.pmm = m.pmm, DOMAIN r.tables = DOMAIN m.tables
    PROVE  Spends(m, r, 0)
<1>1. NewLow(m, r)
  BY DEF NewLow
<1>2. \A n \in Nat : n - 0 = n
  OBVIOUS
<1> QED
  BY <1>1, <1>2 DEF Spends

(* Two calls spend what each spends.                                        *)
LEMMA SpendsBoth ==
    ASSUME NEW m, NEW r, NEW q, NEW i \in Nat, NEW j \in Nat, Spends(m, r, i), Spends(r, q, j)
    PROVE  Spends(m, q, i + j)
<1> SUFFICES ASSUME NEW n \in Nat, n >= i + j, Spare(m.pmm, n)
             PROVE  Spare(q.pmm, n - (i + j)) /\ NewLow(m, q)
  BY DEF Spends
<1>1. n >= i /\ n - i \in Nat /\ n - i >= j /\ (n - i) - j = n - (i + j)
  OBVIOUS
<1>2. Spare(r.pmm, n - i) /\ NewLow(m, r)
  BY <1>1 DEF Spends
<1>3. Spare(q.pmm, (n - i) - j) /\ NewLow(r, q)
  BY <1>1, <1>2 DEF Spends
<1>4. NewLow(m, q)
  BY <1>2, <1>3 DEF NewLow
<1> QED
  BY <1>1, <1>3, <1>4

(* The bound on what a call spends may be larger.                           *)
LEMMA SpendsLess ==
    ASSUME NEW m, NEW r, NEW i \in Nat, NEW j \in Nat, i <= j, Spends(m, r, i)
    PROVE  Spends(m, r, j)
<1> SUFFICES ASSUME NEW n \in Nat, n >= j, Spare(m.pmm, n)
             PROVE  Spare(r.pmm, n - j) /\ NewLow(m, r)
  BY DEF Spends
<1>1. n >= i
  OBVIOUS
<1>2. Spare(r.pmm, n - i) /\ NewLow(m, r)
  BY <1>1 DEF Spends
<1>3. Cardinality(LowFree(r.pmm)) \in Nat
  BY LowFinite
<1>4. Spare(r.pmm, n - j)
  BY <1>2, <1>3 DEF Spare
<1> QED
  BY <1>2, <1>4

(* One level of a walk.                                                     *)
LEMMA GetSpends ==
    ASSUME NEW m, IsMem(m), NEW i, NEW w, NEW u
    PROVE  LET r == get_or_create_table(m, i, w, u)
           IN  /\ Spends(m, r, 1) /\ IsMem(r)
               /\ ~m.ok \/ m.tables[m.at][i].present => Spends(m, r, 0)
<1> DEFINE r == get_or_create_table(m, i, w, u)
           x == m.tables[m.at][i]
           f == first_free(m.pmm)
           n == f * FRAME_SIZE
           q == mark_allocated(m.pmm, f)
           e == make_entry(n, w, u)
<1>1. ASSUME Spends(m, r, 0) PROVE Spends(m, r, 1)
  BY <1>1, SpendsLess
<1>2. CASE ~m.ok
  <2>1. r = m
    BY <1>2, NotEntered
  <2> HIDE DEF r
  <2>2. Spends(m, r, 0)
    BY <2>1, SpendsNothing
  <2> QED
    BY <1>1, <2>1, <2>2 DEF r
<1>3. CASE m.ok /\ x.present
  <2> DEFINE T == [m.tables EXCEPT ![m.at][i] = widened(x, w, u)]
  <2>1. Fields(r, m.pmm, T, m.root, x.address, m.ok)
    BY <1>3, ChildIs
  <2>2. DOMAIN T = DOMAIN m.tables
    OBVIOUS
  <2> HIDE DEF r, T
  <2>3. IsMem(r) /\ r.pmm = m.pmm /\ r.tables = T
    BY <2>1, Zenon DEF Fields
  <2>4. Spends(m, r, 0)
    BY <2>2, <2>3, SpendsNothing
  <2> QED
    BY <1>1, <2>3, <2>4 DEF r
<1>4. CASE m.ok /\ ~x.present /\ ~HasFree(m.pmm)
  <2>1. Fields(r, m.pmm, m.tables, m.root, m.at, FALSE)
    BY <1>4, ChildIs
  <2> HIDE DEF r
  <2>2. IsMem(r) /\ r.pmm = m.pmm /\ r.tables = m.tables
    BY <2>1, Zenon DEF Fields
  <2>3. Spends(m, r, 0)
    BY <2>2, SpendsNothing
  <2> QED
    BY <1>1, <2>2, <2>3 DEF r
<1>5. CASE m.ok /\ ~x.present /\ HasFree(m.pmm)
  <2> DEFINE T == Grafted(m.tables, m.at, i, n, e)
  <2>1. Fields(r, q, T, m.root, n, m.ok)
    BY <1>5, ChildIs
  <2>2. DOMAIN T = DOMAIN m.tables \cup {n}
    BY DEF Grafted, Added
  <2> HIDE DEF r, T
  <2>3. IsMem(r) /\ r.pmm = q /\ r.tables = T
    BY <2>1, Zenon DEF Fields
  <2>4. ASSUME NEW c \in Nat, c >= 1, Spare(m.pmm, c)
        PROVE  Spare(r.pmm, c - 1) /\ NewLow(m, r)
    <3>1. IsLow(n) /\ Spare(q, c - 1)
      BY <2>4, TakeLow, FirstFree DEF IsLow
    <3> HIDE DEF n
    <3> QED
      BY <2>2, <2>3, <3>1 DEF NewLow
  <2>5. Spends(m, r, 1)
    BY <2>4 DEF Spends
  <2> QED
    BY <1>5, <2>3, <2>5 DEF r
<1> QED
  BY <1>2, <1>3, <1>4, <1>5

(* A new table.                                                             *)
LEMMA NewSpends ==
    ASSUME NEW m, IsMem(m), HasFree(m.pmm)
    PROVE  LET r == with_table(m)
               f == first_free(m.pmm)
               n == f * FRAME_SIZE
           IN  /\ Fields(r, mark_allocated(m.pmm, f), Added(m.tables, n), n, m.at, m.ok)
               /\ Spends(m, r, 1)
<1> DEFINE r == with_table(m)
           f == first_free(m.pmm)
           n == f * FRAME_SIZE
           q == mark_allocated(m.pmm, f)
           T == m.tables
           N == [s \in DOMAIN T \cup {n} |-> IF s = n THEN zeroed ELSE T[s]]
           m1 == [m EXCEPT !.pmm = q]
           made == new_table(m)
<1>1. r = [made EXCEPT !.root = n]
  BY DEF with_table
<1>2. made = [m EXCEPT !.pmm = q, !.tables = N]
  BY DEF new_table
<1>3. Added(T, n) = N
  BY DEF Added
<1>4. m = Mem(m.pmm, T, m.root, m.at, m.ok) /\ m.ok \in BOOLEAN
  BY DEF IsMem
<1> DEFINE p0 == m.pmm
           c0 == m.root
           a0 == m.at
           k0 == m.ok
<1>5. r = Mem(q, N, n, a0, k0)
  <2>1. m = Mem(p0, T, c0, a0, k0)
    BY <1>4
  <2> HIDE DEF q, N, T, n, p0, c0, a0, k0
  <2>2. made = Mem(q, N, c0, a0, k0)
    BY <1>2, <2>1 DEF Mem
  <2> HIDE DEF made
  <2> QED
    BY <1>1, <2>2 DEF Mem
<1>6. Fields(r, q, N, n, a0, k0)
  <2>1. k0 \in BOOLEAN
    BY <1>4
  <2> HIDE DEF q, N, n, a0, k0, r
  <2> QED
    BY <1>5, <2>1, FieldsOf, Zenon
<1>7. DOMAIN N = DOMAIN T \cup {n}
  OBVIOUS
<1> HIDE DEF r, N
<1>8. r.pmm = q /\ r.tables = N
  BY <1>6, Zenon DEF Fields
<1>9. ASSUME NEW c \in Nat, c >= 1, Spare(m.pmm, c)
      PROVE  Spare(r.pmm, c - 1) /\ NewLow(m, r)
  <2>1. IsLow(n) /\ Spare(q, c - 1)
    BY <1>9, TakeLow, FirstFree DEF IsLow
  <2> HIDE DEF n
  <2> QED
    BY <1>7, <1>8, <2>1 DEF NewLow
<1>10. Spends(m, r, 1)
  BY <1>9 DEF Spends
<1> QED
  BY <1>3, <1>6, <1>10, Zenon DEF r

-----------------------------------------------------------------------------
(* The first k entries of the walk of ix are there.                         *)
Has(T, root, ix, k) ==
    /\ k >= 1 => T[root][ix[1]].present
    /\ k >= 2 => T[Second(T, root, ix)][ix[2]].present
    /\ k >= 3 => T[Third(T, root, ix)][ix[3]].present

(* A walk that can go on makes the tables it lacks.                         *)
LEMMA WalkSpends ==
    ASSUME NEW m, NEW lev, Good(m, lev), NEW H, NEW S \in SUBSET Nat, Own(m, H, S), m.ok,
           NEW ix \in Indexes, NEW w \in BOOLEAN, NEW u \in BOOLEAN,
           NEW k \in 0 .. 3, Has(m.tables, m.root, ix, k)
    PROVE  Spends(m, Walked(m, ix, w, u), 3 - k)
<1> DEFINE i1 == ix[1]
           i2 == ix[2]
           i3 == ix[3]
           T == m.tables
           root == m.root
           s2 == Second(T, root, ix)
           s3 == Third(T, root, ix)
           m0 == Top(m)
           m1 == Step1(m, ix, w, u)
           m2 == Step2(m, ix, w, u)
           m3 == get_or_create_table(m2, i3, w, u)
<1>1. i1 \in Index /\ i2 \in Index /\ i3 \in Index
  BY DEF Indexes
<1>2. Walked(m, ix, w, u) = m3
  BY DEF Walked, Step1, Step2, Top
<1>3. m1 = get_or_create_table(m0, i1, w, u) /\ m2 = get_or_create_table(m1, i2, w, u)
  BY DEF Step1, Step2
<1>4. /\ GoesOn(m, m0, H) /\ m0.ok /\ m0.at = root /\ m0.tables = T /\ m0.pmm = m.pmm
      /\ GoesOn(m, m1, H)
      /\ m1.ok => m1.tables[root][i1].present /\ m1.tables[root][i1].address = m1.at
      /\ GoesOn(m, m2, H)
      /\ m2.ok => m1.ok /\ m2.tables[m1.at][i2].present /\ m2.tables[m1.at][i2].address = m2.at
  BY WalkChain
<1>5. IsMem(m0) /\ IsMem(m1) /\ IsMem(m2) /\ Keeps(T, m1.tables) /\ Keeps(T, m2.tables)
  BY <1>4 DEF GoesOn
<1>6. Tree(T, root, lev) /\ root \in DOMAIN T /\ lev[root] = 1
  BY DEF Good, Tree
<1>7. T[root][i1].address = s2 /\ T[s2][i2].address = s3
  BY DEF Second, Third
<1> HIDE DEF m0, m1, m2, i1, i2, i3, s2, s3
<1>8. Spends(m, m0, 0)
  BY <1>4, SpendsNothing
<1>9. k >= 1 => T[root][i1].present
  BY DEF Has, i1
<1>10. k >= 2 => T[s2][i2].present
  BY DEF Has, i2, s2
<1>11. k >= 3 => T[s3][i3].present
  BY DEF Has, i3, s3
<1> HIDE DEF T, root
<1>12. Spends(m0, m1, IF k >= 1 THEN 0 ELSE 1)
  <2>1. Spends(m0, m1, 1) /\ (m0.tables[m0.at][i1].present => Spends(m0, m1, 0))
    BY <1>3, <1>5, GetSpends
  <2> QED
    BY <1>4, <1>9, <2>1
<1>13. k >= 1 => s2 \in DOMAIN T /\ lev[s2] = 2
  <2>1. lev[root] \in 1 .. 3
    BY <1>6
  <2>2. k >= 1 => s2 \in DOMAIN T /\ lev[s2] = lev[root] + 1
    BY <1>1, <1>6, <1>7, <1>9, <2>1, Child
  <2> QED
    BY <1>6, <2>2
<1>14. k >= 2 => s3 \in DOMAIN T
  <2>1. k >= 2 => lev[s2] \in 1 .. 3 /\ s2 \in DOMAIN T
    BY <1>13
  <2> QED
    BY <1>1, <1>6, <1>7, <1>10, <2>1, Child
<1>15. k >= 1 /\ m1.ok => m1.at = s2
  BY <1>1, <1>4, <1>5, <1>6, <1>7, <1>9 DEF Keeps
<1>16. Spends(m1, m2, IF k >= 2 THEN 0 ELSE 1)
  <2>1. Spends(m1, m2, 1) /\ (~m1.ok \/ m1.tables[m1.at][i2].present => Spends(m1, m2, 0))
    BY <1>3, <1>5, GetSpends
  <2>2. k >= 2 /\ m1.ok => m1.tables[m1.at][i2].present
    BY <1>1, <1>5, <1>10, <1>13, <1>15 DEF Keeps
  <2> QED
    BY <2>1, <2>2
<1>17. k >= 2 /\ m2.ok => m2.at = s3
  BY <1>1, <1>4, <1>5, <1>7, <1>10, <1>13, <1>15 DEF Keeps
<1>18. Spends(m2, m3, IF k >= 3 THEN 0 ELSE 1)
  <2>1. Spends(m2, m3, 1) /\ (~m2.ok \/ m2.tables[m2.at][i3].present => Spends(m2, m3, 0))
    BY <1>5, GetSpends
  <2>2. k >= 3 /\ m2.ok => m2.tables[m2.at][i3].present
    BY <1>1, <1>5, <1>11, <1>14, <1>17 DEF Keeps
  <2> QED
    BY <2>1, <2>2
<1> DEFINE a1 == IF k >= 1 THEN 0 ELSE 1
           a2 == IF k >= 2 THEN 0 ELSE 1
           a3 == IF k >= 3 THEN 0 ELSE 1
<1>19. a1 \in Nat /\ a2 \in Nat /\ a3 \in Nat /\ ((0 + a1) + a2) + a3 = 3 - k
  OBVIOUS
<1>20. Spends(m0, m1, a1) /\ Spends(m1, m2, a2) /\ Spends(m2, m3, a3)
  BY <1>12, <1>16, <1>18, Zenon
<1> HIDE DEF a1, a2, a3, m3
<1>21. Spends(m, m1, 0 + a1)
  BY <1>8, <1>19, <1>20, SpendsBoth
<1>22. Spends(m, m2, (0 + a1) + a2)
  <2> DEFINE b == 0 + a1
  <2>1. b \in Nat /\ Spends(m, m1, b)
    BY <1>19, <1>21
  <2> HIDE DEF b
  <2>2. Spends(m, m2, b + a2)
    BY <1>19, <1>20, <2>1, SpendsBoth
  <2> QED
    BY <2>2 DEF b
<1>23. Spends(m, m3, ((0 + a1) + a2) + a3)
  <2> DEFINE b == (0 + a1) + a2
  <2>1. b \in Nat /\ Spends(m, m2, b)
    BY <1>19, <1>22
  <2> HIDE DEF b
  <2>2. Spends(m, m3, b + a3)
    BY <1>19, <1>20, <2>1, SpendsBoth
  <2> QED
    BY <2>2 DEF b
<1> QED
  BY <1>2, <1>19, <1>23

(* map adds no table after its walk.                                        *)
LEMMA MapAfterWalk ==
    ASSUME NEW m, IsMem(m), NEW va, NEW pa, NEW w, NEW u
    PROVE  LET x == Walked(m, indexes(va), w, u)
               r == map(m, va, pa, w, u)
           IN  IsMem(x) => /\ IsMem(r)
                           /\ \/ r.pmm = m.pmm /\ r.tables = m.tables
                              \/ r.pmm = x.pmm /\ DOMAIN r.tables = DOMAIN x.tables
<1> DEFINE i4 == indexes(va)[4]
           x == Walked(m, indexes(va), w, u)
           r == map(m, va, pa, w, u)
           e == make_entry(pa, w, u)
<1>1. r = IF ~MapAllowed(va, pa) THEN [m EXCEPT !.ok = FALSE]
          ELSE IF ~x.ok THEN x
          ELSE IF x.tables[x.at][i4].present THEN [x EXCEPT !.ok = FALSE]
          ELSE put(x, x.at, i4, e)
  BY DEF map, Walked
<1> HIDE DEF r, x, e, i4
<1> SUFFICES ASSUME IsMem(x)
             PROVE  /\ IsMem(r)
                    /\ \/ r.pmm = m.pmm /\ r.tables = m.tables
                       \/ r.pmm = x.pmm /\ DOMAIN r.tables = DOMAIN x.tables
  BY DEF r, x
<1>2. ASSUME NEW a, IsMem(a)
      PROVE  LET b == [a EXCEPT !.ok = FALSE]
             IN  IsMem(b) /\ b.pmm = a.pmm /\ b.tables = a.tables
  <2>1. Fields(a, a.pmm, a.tables, a.root, a.at, a.ok)
    BY <1>2 DEF Fields
  <2>2. FALSE \in BOOLEAN
    OBVIOUS
  <2>3. Fields([a EXCEPT !.ok = FALSE], a.pmm, a.tables, a.root, a.at, FALSE)
    BY <2>1, <2>2, FieldsOk, Zenon
  <2> QED
    BY <2>3, Zenon DEF Fields
<1>3. LET b == put(x, x.at, i4, e)
      IN  IsMem(b) /\ b.pmm = x.pmm /\ DOMAIN b.tables = DOMAIN x.tables
  <2>1. Fields(x, x.pmm, x.tables, x.root, x.at, x.ok)
    BY DEF Fields
  <2> DEFINE T == [x.tables EXCEPT ![x.at][i4] = e]
  <2>2. Fields(put(x, x.at, i4, e), x.pmm, T, x.root, x.at, x.ok)
    BY <2>1, FieldsPut, Zenon
  <2>3. DOMAIN T = DOMAIN x.tables
    OBVIOUS
  <2> HIDE DEF T
  <2> QED
    BY <2>2, <2>3, Zenon DEF Fields
<1>4. CASE ~MapAllowed(va, pa)
  BY <1>1, <1>2, <1>4
<1>5. CASE MapAllowed(va, pa) /\ ~x.ok
  BY <1>1, <1>5
<1>6. CASE MapAllowed(va, pa) /\ x.ok /\ x.tables[x.at][i4].present
  BY <1>1, <1>2, <1>6
<1>7. CASE MapAllowed(va, pa) /\ x.ok /\ ~x.tables[x.at][i4].present
  BY <1>1, <1>3, <1>7
<1> QED
  BY <1>4, <1>5, <1>6, <1>7

(* No call takes a table away.                                              *)
LEMMA GetGrows ==
    ASSUME NEW m, IsMem(m), NEW i, NEW w, NEW u
    PROVE  LET r == get_or_create_table(m, i, w, u)
           IN  IsMem(r) /\ DOMAIN m.tables \subseteq DOMAIN r.tables
<1> DEFINE r == get_or_create_table(m, i, w, u)
           x == m.tables[m.at][i]
           n == first_free(m.pmm) * FRAME_SIZE
           e == make_entry(n, w, u)
           T1 == [m.tables EXCEPT ![m.at][i] = widened(x, w, u)]
           T2 == Grafted(m.tables, m.at, i, n, e)
<1>1. DOMAIN T1 = DOMAIN m.tables /\ DOMAIN m.tables \subseteq DOMAIN T2
  BY DEF Grafted, Added
<1>2. IsMem(r)
  BY GetSpends
<1>3. ~m.ok => r = m
  BY ChildIs
<1>4. m.ok /\ x.present => Fields(r, m.pmm, T1, m.root, x.address, m.ok)
  BY ChildIs
<1>5. m.ok /\ ~x.present /\ ~HasFree(m.pmm) => Fields(r, m.pmm, m.tables, m.root, m.at, FALSE)
  BY ChildIs
<1>6. m.ok /\ ~x.present /\ HasFree(m.pmm) =>
        Fields(r, mark_allocated(m.pmm, first_free(m.pmm)), T2, m.root, n, m.ok)
  BY ChildIs
<1> HIDE DEF r, T1, T2
<1>7. r.tables \in {m.tables, T1, T2}
  <2>1. m.ok /\ x.present => r.tables = T1
    BY <1>4, Zenon DEF Fields
  <2>2. m.ok /\ ~x.present /\ ~HasFree(m.pmm) => r.tables = m.tables
    BY <1>5, Zenon DEF Fields
  <2>3. m.ok /\ ~x.present /\ HasFree(m.pmm) => r.tables = T2
    BY <1>6, Zenon DEF Fields
  <2> QED
    BY <1>3, <2>1, <2>2, <2>3
<1>8. DOMAIN m.tables \subseteq DOMAIN r.tables
  BY <1>1, <1>7
<1> QED
  BY <1>2, <1>8 DEF r

(* map takes no table away, even when it fails.                             *)
LEMMA MapGrows ==
    ASSUME NEW m, IsMem(m), NEW va, NEW pa, NEW w, NEW u
    PROVE  LET r == map(m, va, pa, w, u)
           IN  IsMem(r) /\ DOMAIN m.tables \subseteq DOMAIN r.tables
<1> DEFINE ix == indexes(va)
           r == map(m, va, pa, w, u)
           x == Walked(m, ix, w, u)
           m0 == [m EXCEPT !.at = m.root]
           m1 == get_or_create_table(m0, ix[1], w, u)
           m2 == get_or_create_table(m1, ix[2], w, u)
<1>1. x = get_or_create_table(m2, ix[3], w, u)
  BY DEF Walked
<1>2. IsMem(m0) /\ m0.tables = m.tables
  <2>1. Fields(m, m.pmm, m.tables, m.root, m.at, m.ok)
    BY DEF Fields
  <2>2. Fields(m0, m.pmm, m.tables, m.root, m.root, m.ok)
    BY <2>1, FieldsAt, Zenon
  <2> QED
    BY <2>2, Zenon DEF Fields
<1>3. IsMem(m1) /\ DOMAIN m0.tables \subseteq DOMAIN m1.tables
  BY <1>2, GetGrows
<1>4. IsMem(m2) /\ DOMAIN m1.tables \subseteq DOMAIN m2.tables
  BY <1>3, GetGrows
<1>5. IsMem(x) /\ DOMAIN m2.tables \subseteq DOMAIN x.tables
  BY <1>1, <1>4, GetGrows
<1> HIDE DEF m0, m1, m2, x, ix
<1>6. DOMAIN m.tables \subseteq DOMAIN x.tables
  BY <1>2, <1>3, <1>4, <1>5
<1>7. /\ IsMem(r)
      /\ \/ r.pmm = m.pmm /\ r.tables = m.tables
         \/ r.pmm = x.pmm /\ DOMAIN r.tables = DOMAIN x.tables
  BY <1>5, MapAfterWalk DEF x, ix
<1> HIDE DEF r
<1> QED
  BY <1>6, <1>7 DEF r

-----------------------------------------------------------------------------
(* The kernel's tables are a tree beside the tables of D, whose frames H    *)
(* has, and S are the pages of the heap.                                    *)
Fit(m, D, H, S) ==
    /\ IsMem(m) /\ D \subseteq DOMAIN m.tables /\ Kept(D, H) /\ S \in SUBSET Nat
    /\ \E lev : Good(Without(m, D), lev) /\ Own(Without(m, D), H, S)

(* What was mapped still is.                                                *)
Extends(T, T2, root) ==
    \A jx \in Indexes : Leaf(T, root, jx).present => Leaf(T2, root, jx) = Leaf(T, root, jx)

(* Two calls that keep what was mapped.                                     *)
LEMMA ExtendsTwice ==
    ASSUME NEW T, NEW T2, NEW T3, NEW root, Extends(T, T2, root), Extends(T2, T3, root)
    PROVE  Extends(T, T3, root)
  BY DEF Extends

(* A call that maps one page keeps the others.                              *)
LEMMA MapsOneExtends ==
    ASSUME NEW m, NEW r, NEW va, NEW pa, NEW w, NEW u, MapsOne(m, r, va, pa, w, u)
    PROVE  Extends(m.tables, r.tables, m.root)
  BY DEF MapsOne, Extends

(* What a memory without the tables of D has.                               *)
LEMMA WithoutHas ==
    ASSUME NEW m, IsMem(m), NEW D
    PROVE  LET o == Without(m, D)
           IN  /\ IsMem(o) /\ o.pmm = m.pmm /\ o.tables = Rest(m.tables, D) /\ o.root = m.root
               /\ o.at = m.at /\ o.ok = m.ok
<1>1. Fields(Without(m, D), m.pmm, Rest(m.tables, D), m.root, m.at, m.ok)
  BY WithoutOf
<1> QED
  BY <1>1, Zenon DEF Fields

(* What is spent on the kernel's tables is spent on all.                    *)
LEMMA SpendsWithout ==
    ASSUME NEW m, IsMem(m), NEW r, IsMem(r), NEW D, D \subseteq DOMAIN m.tables, NEW j,
           Spends(Without(m, D), Without(r, D), j)
    PROVE  Spends(m, r, j)
<1> DEFINE o == Without(m, D)
           s == Without(r, D)
<1>1. o.pmm = m.pmm /\ o.tables = Rest(m.tables, D) /\ s.pmm = r.pmm /\ s.tables = Rest(r.tables, D)
  BY WithoutHas
<1>2. DOMAIN o.tables = DOMAIN m.tables \ D /\ DOMAIN s.tables = DOMAIN r.tables \ D
  BY <1>1 DEF Rest
<1> HIDE DEF o, s
<1>3. NewLow(o, s) => NewLow(m, r)
  BY <1>2 DEF NewLow
<1> QED
  BY <1>1, <1>3 DEF Spends, o, s

(* What map makes of such tables: one more page if it succeeds, and no more *)
(* new tables than its walk lacks.                                          *)
Fitted(m, r, D, H, S, va, pa, w, u) ==
    LET ix == indexes(va)
        T == Rest(m.tables, D)
        T2 == Rest(r.tables, D)
    IN  /\ Fit(r, D, H, S) /\ r.root = m.root
        /\ r.ok => /\ MapAllowed(va, pa) /\ ~Leaf(T, m.root, ix).present
                   /\ Leaf(T2, m.root, ix) = make_entry(pa, w, u)
                   /\ Extends(T, T2, m.root)
        /\ \A k \in 0 .. 3 : Has(T, m.root, ix, k) => Spends(m, r, 3 - k)

(* map works on the kernel's tables as if the others were not there.        *)
LEMMA MapFits ==
    ASSUME NEW m, NEW D, NEW H, NEW S, Fit(m, D, H, S), m.ok,
           NEW va \in Nat, NEW pa \in Nat, NEW w \in BOOLEAN, NEW u \in BOOLEAN
    PROVE  Fitted(m, map(m, va, pa, w, u), D, H, S, va, pa, w, u)
<1> DEFINE r == map(m, va, pa, w, u)
           ix == indexes(va)
           T == Rest(m.tables, D)
           T2 == Rest(r.tables, D)
           o == Without(m, D)
           s == Without(r, D)
<1>1. IsMem(m) /\ D \subseteq DOMAIN m.tables /\ Kept(D, H) /\ S \in SUBSET Nat
  BY DEF Fit
<1>2. PICK lev : Good(o, lev) /\ Own(o, H, S)
  BY DEF Fit
<1>3. IsMem(r) /\ s = map(o, va, pa, w, u)
  BY <1>1, <1>2, MapWithout
<1>4. o.pmm = m.pmm /\ o.tables = T /\ o.root = m.root /\ o.ok = m.ok
  BY <1>1, WithoutHas
<1>5. s.pmm = r.pmm /\ s.tables = T2 /\ s.root = r.root /\ s.ok = r.ok
  BY <1>3, WithoutHas
<1>6. DOMAIN m.tables \subseteq DOMAIN r.tables
  BY <1>1, MapGrows
<1> HIDE DEF o, s, r, T, T2
<1>7. o.ok
  BY <1>4
<1>8. Mapped(o, s, H, S, va, pa, w, u)
  BY <1>1, <1>2, <1>3, <1>7, Map
<1>9. Fit(r, D, H, S)
  BY <1>1, <1>3, <1>6, <1>8 DEF Fit, Mapped, s
<1>10. r.root = m.root
  BY <1>4, <1>5, <1>8 DEF Mapped
<1>11. ASSUME r.ok
       PROVE  /\ MapAllowed(va, pa) /\ ~Leaf(T, m.root, ix).present
              /\ Leaf(T2, m.root, ix) = make_entry(pa, w, u)
              /\ Extends(T, T2, m.root)
  <2>1. MapsOne(o, s, va, pa, w, u)
    BY <1>5, <1>8, <1>11 DEF Mapped
  <2>2. Extends(o.tables, s.tables, o.root)
    BY <2>1, MapsOneExtends
  <2> QED
    BY <1>4, <1>5, <2>1, <2>2 DEF MapsOne
<1>12. ASSUME NEW k \in 0 .. 3, Has(T, m.root, ix, k) PROVE Spends(m, r, 3 - k)
  <2> DEFINE x == Walked(o, ix, w, u)
  <2>1. ix \in Indexes
    BY IndexDigits
  <2>2. Has(o.tables, o.root, ix, k)
    BY <1>4, <1>12
  <2> HIDE DEF ix
  <2>3. Spends(o, x, 3 - k)
    BY <1>1, <1>2, <1>7, <2>1, <2>2, WalkSpends
  <2>4. IsMem(x)
    <3>1. \E lev2 : Good(x, lev2)
      BY <1>1, <1>2, <1>7, <2>1, WalkCreates
    <3> QED
      BY <3>1 DEF Good
  <2>5. \/ s.pmm = o.pmm /\ s.tables = o.tables
        \/ s.pmm = x.pmm /\ DOMAIN s.tables = DOMAIN x.tables
    <3>1. IsMem(o)
      BY <1>2 DEF Good
    <3> QED
      BY <1>3, <2>4, <3>1, MapAfterWalk DEF ix
  <2>6. 3 - k \in Nat /\ 0 <= 3 - k
    OBVIOUS
  <2>7. Spends(o, s, 3 - k)
    <3>1. CASE s.pmm = o.pmm /\ s.tables = o.tables
      <4>1. Spends(o, s, 0)
        BY <3>1, SpendsNothing
      <4> QED
        BY <2>6, <4>1, SpendsLess
    <3>2. CASE s.pmm = x.pmm /\ DOMAIN s.tables = DOMAIN x.tables
      <4> HIDE DEF x
      <4> QED
        BY <2>3, <3>2 DEF Spends, NewLow
    <3> QED
      BY <2>5, <3>1, <3>2
  <2> QED
    BY <1>1, <1>3, <2>7, SpendsWithout DEF o, s
<1> QED
  BY <1>9, <1>10, <1>11, <1>12 DEF Fitted, r, T, T2

(* The walk of an address does not go through tables of D.                  *)
LEMMA WalkRest ==
    ASSUME NEW T, NEW D, NEW lev, Tree(Rest(T, D), pml4_phys, lev), NEW va \in Nat
    PROVE  walk(T, va) = walk(Rest(T, D), va)
<1> DEFINE R == Rest(T, D)
           ix == indexes(va)
           i1 == ix[1]
           i2 == ix[2]
           i3 == ix[3]
           i4 == ix[4]
           c == pml4_phys
           e1 == R[c][i1]
           e2 == R[e1.address][i2]
           e3 == R[e2.address][i3]
           e4 == R[e3.address][i4]
           f1 == T[c][i1]
           f2 == T[f1.address][i2]
           f3 == T[f2.address][i3]
           f4 == T[f3.address][i4]
<1>1. walk(R, va) = IF ~e1.present THEN <<e1>>
                    ELSE IF ~e2.present THEN <<e1, e2>>
                    ELSE IF ~e3.present THEN <<e1, e2, e3>>
                    ELSE <<e1, e2, e3, e4>>
  BY DEF walk
<1>2. walk(T, va) = IF ~f1.present THEN <<f1>>
                    ELSE IF ~f2.present THEN <<f1, f2>>
                    ELSE IF ~f3.present THEN <<f1, f2, f3>>
                    ELSE <<f1, f2, f3, f4>>
  BY DEF walk
<1>3. \A s \in DOMAIN R : T[s] = R[s]
  BY DEF Rest
<1>4. ix \in Indexes
  BY IndexDigits
<1>5. i1 \in Index /\ i2 \in Index /\ i3 \in Index
  BY <1>4 DEF Indexes
<1>6. c \in DOMAIN R /\ lev[c] = 1 /\ Tree(R, c, lev)
  BY DEF Tree
<1> HIDE DEF R, i1, i2, i3, i4, ix, c
<1>7. f1 = e1
  BY <1>3, <1>6
<1>8. CASE ~e1.present
  BY <1>1, <1>2, <1>7, <1>8 DEF R
<1>9. CASE e1.present
  <2> DEFINE s2 == e1.address
  <2>1. s2 \in DOMAIN R /\ lev[s2] = 2
    <3>1. lev[c] \in 1 .. 3 /\ R[c][i1].present /\ R[c][i1].address = s2
      BY <1>6, <1>9
    <3> HIDE DEF s2
    <3>2. s2 \in DOMAIN R /\ lev[s2] = lev[c] + 1
      BY <1>5, <1>6, <3>1, Child
    <3> QED
      BY <1>6, <3>2
  <2>2. f2 = e2
    BY <1>3, <1>7, <2>1
  <2>3. CASE ~e2.present
    <3> HIDE DEF e1, e2, f1, f2, e3, f3, e4, f4
    <3> QED
      BY <1>1, <1>2, <1>7, <2>2, <2>3, <1>9 DEF R
  <2>4. CASE e2.present
    <3> DEFINE s3 == e2.address
    <3>1. s3 \in DOMAIN R /\ lev[s3] = 3
      <4>1. lev[s2] \in 1 .. 3 /\ R[s2][i2].present /\ R[s2][i2].address = s3
        BY <2>1, <2>4
      <4>2. s2 \in DOMAIN R
        BY <2>1
      <4> HIDE DEF s3, s2
      <4>3. s3 \in DOMAIN R /\ lev[s3] = lev[s2] + 1
        BY <1>5, <1>6, <4>1, <4>2, Child
      <4> QED
        BY <2>1, <4>3 DEF s2
    <3>2. f3 = e3
      BY <1>3, <2>2, <3>1
    <3>3. CASE ~e3.present
      <4> HIDE DEF e1, e2, f1, f2, e3, f3, e4, f4
      <4> QED
        BY <1>1, <1>2, <1>7, <2>2, <2>4, <3>2, <3>3, <1>9 DEF R
    <3>4. CASE e3.present
      <4> DEFINE s4 == e3.address
      <4>1. s4 \in DOMAIN R
        <5>1. lev[s3] \in 1 .. 3 /\ R[s3][i3].present /\ R[s3][i3].address = s4 /\ s3 \in DOMAIN R
          BY <3>1, <3>4
        <5> HIDE DEF s4, s3
        <5> QED
          BY <1>5, <1>6, <5>1, Child
      <4>2. f4 = e4
        BY <1>3, <3>2, <4>1
      <4> HIDE DEF e1, e2, f1, f2, e3, f3, e4, f4
      <4> QED
        BY <1>1, <1>2, <1>7, <2>2, <2>4, <3>2, <3>4, <4>2, <1>9 DEF R
    <3> QED
      BY <3>3, <3>4
  <2> QED
    BY <2>3, <2>4
<1> QED
  BY <1>8, <1>9

-----------------------------------------------------------------------------
(* A page whose walk shares entries with the walk of another finds the      *)
(* tables below them.                                                       *)
LEMMA SharesHas ==
    ASSUME NEW T, NEW root, NEW va, NEW vb, NEW k \in 0 .. 3, Shares(va, vb, k),
           Arrives(T, root, indexes(va))
    PROVE  Has(T, root, indexes(vb), k)
<1> DEFINE ix == indexes(va)
           jx == indexes(vb)
<1>1. /\ k >= 1 => ix[1] = jx[1]
      /\ k >= 2 => ix[1] = jx[1] /\ ix[2] = jx[2]
      /\ k >= 3 => ix[1] = jx[1] /\ ix[2] = jx[2] /\ ix[3] = jx[3]
  BY DEF Shares
<1>2. Arrives(T, root, ix)
  OBVIOUS
<1> HIDE DEF ix, jx
<1>3. Has(T, root, jx, k)
  BY <1>1, <1>2, Zenon DEF Has, Arrives, Second, Third
<1> QED
  BY <1>3 DEF jx

(* The walk of a page that is mapped has its tables.                        *)
LEMMA LeafArrives ==
    ASSUME NEW T, NEW root, NEW ix, Leaf(T, root, ix).present
    PROVE  Arrives(T, root, ix)
  BY DEF Leaf, NotPresent

(* Nothing is said of the first zero entries.                               *)
LEMMA HasNone ==
    ASSUME NEW T, NEW root, NEW ix
    PROVE  Has(T, root, ix, 0)
  BY DEF Has

(* One turn of the loops that map a range of pages.                         *)
RangeStep(x, n, v, p, w, u) ==
    IF x.ok THEN map(x, Page(v, n - 1), Page(p, n - 1), w, u) ELSE x

(* The first n pages are mapped.                                            *)
RangeDone(T, root, v, p, w, u, n) ==
    \A i \in 0 .. n - 1 :
      /\ MapAllowed(Page(v, i), Page(p, i))
      /\ Leaf(T, root, indexes(Page(v, i))) = make_entry(Page(p, i), w, u)

(* One more page of the range.                                              *)
LEMMA RangeNext ==
    ASSUME NEW T, NEW T2, NEW root, NEW v \in Nat, NEW p \in Nat, NEW w, NEW u, NEW n \in Nat,
           RangeDone(T, root, v, p, w, u, n), Extends(T, T2, root),
           MapAllowed(Page(v, n), Page(p, n)),
           Leaf(T2, root, indexes(Page(v, n))) = make_entry(Page(p, n), w, u)
    PROVE  RangeDone(T2, root, v, p, w, u, n + 1)
<1> SUFFICES ASSUME NEW i \in 0 .. (n + 1) - 1
             PROVE  /\ MapAllowed(Page(v, i), Page(p, i))
                    /\ Leaf(T2, root, indexes(Page(v, i))) = make_entry(Page(p, i), w, u)
  BY DEF RangeDone
<1>1. CASE i = n
  BY <1>1
<1>2. CASE i # n
  <2>1. i \in 0 .. n - 1
    BY <1>2
  <2>2. /\ MapAllowed(Page(v, i), Page(p, i))
        /\ Leaf(T, root, indexes(Page(v, i))) = make_entry(Page(p, i), w, u)
    BY <2>1 DEF RangeDone
  <2>3. Page(v, i) \in Nat
    <3>1. i \in Nat
      BY <2>1
    <3> QED
      BY <3>1, PageNat, Zenon
  <2>4. indexes(Page(v, i)) \in Indexes
    BY <2>3, IndexDigits
  <2>5. Leaf(T, root, indexes(Page(v, i))).present
    BY <2>2 DEF make_entry
  <2> QED
    BY <2>2, <2>4, <2>5 DEF Extends
<1> QED
  BY <1>1, <1>2

(* f has the memory after each turn.                                        *)
RangeLoop(f, m, v, p, w, u, last) ==
    f[0] = m /\ \A n \in 1 .. last : f[n] = RangeStep(f[n - 1], n, v, p, w, u)

(* The pages of the range need one page table.                              *)
OneTable(v, last) == \A n \in 0 .. last - 1 : Shares(v, Page(v, n), 3)

(* A loop over pages of one table maps them all or fails, and spends a      *)
(* frame for each of the tables that the walk of the first page lacks.      *)
LEMMA RangeFits ==
    ASSUME NEW m, NEW D, NEW H, NEW S, Fit(m, D, H, S), m.ok,
           NEW v \in Nat, NEW p \in Nat, NEW w \in BOOLEAN, NEW u \in BOOLEAN,
           NEW last \in Nat, NEW f, RangeLoop(f, m, v, p, w, u, last), OneTable(v, last),
           NEW k \in 0 .. 3, Has(Rest(m.tables, D), m.root, indexes(v), k)
    PROVE  LET r == f[last]
           IN  /\ Fit(r, D, H, S) /\ r.root = m.root /\ Spends(m, r, 3 - k)
               /\ r.ok => /\ RangeDone(Rest(r.tables, D), m.root, v, p, w, u, last)
                          /\ Extends(Rest(m.tables, D), Rest(r.tables, D), m.root)
<1> DEFINE T(x) == Rest(x.tables, D)
           Turned(x, n) ==
             /\ Fit(x, D, H, S) /\ x.root = m.root /\ Spends(m, x, 3 - k)
             /\ x.ok => /\ RangeDone(T(x), m.root, v, p, w, u, n)
                        /\ Extends(T(m), T(x), m.root)
           Fine(n) == Turned(f[n], n)
           B == {n \in 0 .. last : ~Fine(n)}
<1>0. 3 - k \in Nat /\ 0 <= 3 - k /\ (3 - k) + 0 = 3 - k
  OBVIOUS
<1>a. f[0] = m /\ \A n \in 1 .. last : f[n] = RangeStep(f[n - 1], n, v, p, w, u)
  BY DEF RangeLoop
<1>1. Turned(m, 0)
  <2>1. Spends(m, m, 0)
    BY SpendsNothing
  <2>2. Spends(m, m, 3 - k)
    BY <1>0, <2>1, SpendsLess
  <2>3. RangeDone(T(m), m.root, v, p, w, u, 0)
    BY DEF RangeDone
  <2>4. Extends(T(m), T(m), m.root)
    BY DEF Extends
  <2> QED
    BY <2>2, <2>3, <2>4
<1>2. ASSUME NEW n \in 1 .. last, NEW x, NEW r, x = f[n - 1], Turned(x, n - 1),
             r = RangeStep(x, n, v, p, w, u)
      PROVE  Turned(r, n)
  <2> DEFINE i == n - 1
             va == Page(v, i)
             pa == Page(p, i)
  <2>1. i \in Nat /\ i \in 0 .. last - 1 /\ i + 1 = n
    OBVIOUS
  <2>2. va \in Nat /\ pa \in Nat
    BY <2>1, PageNat
  <2>3. CASE ~x.ok
    BY <1>2, <2>3 DEF RangeStep
  <2>4. CASE x.ok
    <3>1. r = map(x, va, pa, w, u)
      BY <1>2, <2>4 DEF RangeStep
    <3>2. Fit(x, D, H, S) /\ x.root = m.root
      BY <1>2
    <3> HIDE DEF va, pa, i, T
    <3>3. /\ Fit(r, D, H, S) /\ r.root = x.root
          /\ r.ok => /\ MapAllowed(va, pa)
                     /\ Leaf(T(r), x.root, indexes(va)) = make_entry(pa, w, u)
                     /\ Extends(T(x), T(r), x.root)
          /\ \A c \in 0 .. 3 : Has(T(x), x.root, indexes(va), c) => Spends(x, r, 3 - c)
      <4>1. Fitted(x, map(x, va, pa, w, u), D, H, S, va, pa, w, u)
        BY <2>2, <2>4, <3>2, MapFits
      <4>2. Fitted(x, r, D, H, S, va, pa, w, u)
        BY <3>1, <4>1
      <4> QED
        BY <4>2 DEF Fitted, T
    <3>4. Spends(m, r, 3 - k)
      <4>1. CASE n = 1
        <5>1. x = m /\ va = v
          <6>1. i = 0 /\ n - 1 = 0
            BY <4>1 DEF i
          <6> QED
            BY <1>2, <1>a, <6>1, FrameAssumption DEF va, Page, PAGE_SIZE
        <5> QED
          BY <3>3, <5>1 DEF T
      <4>2. CASE n # 1
        <5>1. RangeDone(T(x), m.root, v, p, w, u, i) /\ 0 \in 0 .. i - 1
          BY <1>2, <2>4, <4>2 DEF i
        <5>2. Page(v, 0) = v
          BY FrameAssumption DEF Page, PAGE_SIZE
        <5>3. Leaf(T(x), x.root, indexes(v)).present
          <6>1. Leaf(T(x), m.root, indexes(Page(v, 0))) = make_entry(Page(p, 0), w, u)
            BY <5>1 DEF RangeDone
          <6> QED
            BY <3>2, <5>2, <6>1 DEF make_entry
        <5>4. Arrives(T(x), x.root, indexes(v))
          BY <5>3, LeafArrives
        <5>5. Shares(v, va, 3)
          BY <2>1 DEF va, OneTable
        <5>6. Has(T(x), x.root, indexes(va), 3)
          BY <5>4, <5>5, SharesHas
        <5>7. Spends(x, r, 0)
          BY <3>3, <5>6
        <5>8. Spends(m, x, 3 - k)
          BY <1>2
        <5>9. Spends(m, r, (3 - k) + 0)
          BY <1>0, <5>7, <5>8, SpendsBoth
        <5> QED
          BY <1>0, <5>9
      <4> QED
        BY <4>1, <4>2
    <3>5. ASSUME r.ok
          PROVE  RangeDone(T(r), m.root, v, p, w, u, n) /\ Extends(T(m), T(r), m.root)
      <4>1. RangeDone(T(x), m.root, v, p, w, u, i) /\ Extends(T(m), T(x), m.root)
        BY <1>2, <2>4 DEF i
      <4>2. /\ MapAllowed(va, pa) /\ Extends(T(x), T(r), m.root)
            /\ Leaf(T(r), m.root, indexes(va)) = make_entry(pa, w, u)
        BY <3>2, <3>3, <3>5
      <4>3. RangeDone(T(r), m.root, v, p, w, u, i + 1)
        BY <2>1, <4>1, <4>2, RangeNext DEF va, pa
      <4> QED
        BY <2>1, <4>1, <4>2, <4>3, ExtendsTwice
    <3> QED
      BY <3>2, <3>3, <3>4, <3>5
  <2> QED
    BY <2>3, <2>4
<1> HIDE DEF Turned
<1>3. \A n \in 1 .. last : Fine(n - 1) => Fine(n)
  BY <1>2, <1>a
<1>4. B = {}
  <2> SUFFICES ASSUME B # {} PROVE FALSE
    OBVIOUS
  <2>1. B \in SUBSET Nat
    OBVIOUS
  <2>2. PICK c \in B : \A n \in B : c <= n
    BY <2>1, Least
  <2>3. c # 0
    BY <1>1, <1>a
  <2>4. c \in 1 .. last /\ c - 1 \in 0 .. last /\ ~(c <= c - 1)
    BY <2>3
  <2>5. Fine(c - 1)
    BY <2>2, <2>4
  <2> QED
    BY <1>3, <2>4, <2>5
<1>5. Fine(last)
  <2>1. last \in 0 .. last
    OBVIOUS
  <2> QED
    BY <1>4, <2>1
<1> QED
  BY <1>5 DEF Turned

(* The loop over the pages of the user's stack.                             *)
LEMMA UserLoop ==
    ASSUME NEW m, NEW pages, pages = USER_STACK_PAGES
    PROVE  \E f : /\ user_stack_mapped(m) = f[pages] /\ f[0] = m
                  /\ \A n \in 1 .. pages :
                       f[n] = UserStep(f[n - 1], n, USER_STACK_VADDR, USER_STACK)
<1> DEFINE Loop(f) == f = [n \in 0 .. pages |->
                            IF n = 0 THEN m
                            ELSE UserStep(f[n - 1], n, USER_STACK_VADDR, USER_STACK)]
           f == CHOOSE x : Loop(x)
<1>0. pages \in Nat
  BY MainAssumption
<1>1. user_stack_mapped(m) = f[pages]
  BY DEF user_stack_mapped, UserStep, user_stack_page
<1>2. \E x : Loop(x)
  <2>1. PICK g : Loops("user", g, pages, m, USER_STACK_VADDR, USER_STACK)
    BY <1>0, LoopExists
  <2>2. \A x, n : LoopStep("user", x, n, USER_STACK_VADDR, USER_STACK) =
                    UserStep(x, n, USER_STACK_VADDR, USER_STACK)
    BY DEF LoopStep
  <2>3. g = [n \in 0 .. pages |-> IF n = 0 THEN m
                                  ELSE LoopStep("user", g[n - 1], n, USER_STACK_VADDR, USER_STACK)]
    BY <2>1 DEF Loops
  <2>4. Loop(g)
    BY <2>2, <2>3
  <2> QED
    BY <2>4
<1>3. Loop(f)
  BY <1>2
<1> HIDE DEF f
<1>4. f[0] = m /\ \A n \in 1 .. pages : f[n] = UserStep(f[n - 1], n, USER_STACK_VADDR, USER_STACK)
  BY <1>0, <1>3
<1> QED
  BY <1>1, <1>4

(* The pages of the identity map.                                           *)
LowPages == IDENTITY_END \div PAGE_SIZE

(* identity_map and the loop over the user's stack.                         *)
LEMMA IdentityFits ==
    ASSUME NEW m, NEW D, NEW H, NEW S, Fit(m, D, H, S), m.ok
    PROVE  LET r == identity_map(m, 0, IDENTITY_END, TRUE)
           IN  /\ Fit(r, D, H, S) /\ r.root = m.root /\ Spends(m, r, 3)
               /\ r.ok => RangeDone(Rest(r.tables, D), m.root, 0, 0, TRUE, FALSE, LowPages)
<1> DEFINE last == LowPages
<1>1. last \in Nat /\ last = (IDENTITY_END - 0) \div PAGE_SIZE
  <2>1. IDENTITY_END \in Nat /\ PAGE_SIZE \in Nat \ {0} /\ IDENTITY_END - 0 = IDENTITY_END
    BY MainAssumption, FrameAssumption DEF PAGE_SIZE
  <2> QED
    BY <2>1, DivMod DEF LowPages
<1> DEFINE w == TRUE
           u == FALSE
           z == 0
           p == 0
<1>0. w \in BOOLEAN /\ u \in BOOLEAN /\ z \in Nat /\ z = 0 /\ p \in Nat
  OBVIOUS
<1>a. \A x, n : IdentityStep(x, n, z, w) = RangeStep(x, n, z, p, w, u)
  BY DEF IdentityStep, RangeStep, Page
<1> HIDE DEF w, u, z, p, last
<1>2. PICK f : /\ identity_map(m, z, IDENTITY_END, w) = f[last] /\ f[0] = m
               /\ \A n \in 1 .. last : f[n] = IdentityStep(f[n - 1], n, z, w)
  <2>1. last \in Nat
    BY <1>1
  <2>2. last = (IDENTITY_END - z) \div PAGE_SIZE
    BY <1>0, <1>1
  <2> QED
    BY <2>1, <2>2, IdentityLoop
<1>3. RangeLoop(f, m, z, p, w, u, last)
  BY <1>2, <1>a DEF RangeLoop
<1>4. OneTable(z, last)
  <2>1. \A n \in 0 .. last - 1 : Page(0, n) = n * PAGE_SIZE
    BY FrameAssumption DEF Page, PAGE_SIZE
  <2> QED
    BY <1>0, <2>1, AddressAssumption DEF LowPages, last, OneTable
<1> DEFINE k == 0
<1>5. Has(Rest(m.tables, D), m.root, indexes(z), k) /\ 3 - k = 3 /\ k \in 0 .. 3
  BY HasNone
<1> HIDE DEF k
<1>b. w \in BOOLEAN /\ u \in BOOLEAN /\ z \in Nat /\ p \in Nat /\ last \in Nat
  BY <1>0, <1>1
<1>c. LET r == f[last]
      IN  /\ Fit(r, D, H, S) /\ r.root = m.root /\ Spends(m, r, 3 - k)
          /\ r.ok => /\ RangeDone(Rest(r.tables, D), m.root, z, p, w, u, last)
                     /\ Extends(Rest(m.tables, D), Rest(r.tables, D), m.root)
  BY <1>3, <1>4, <1>5, <1>b, RangeFits
<1> DEFINE r == f[last]
<1>6. /\ Fit(r, D, H, S) /\ r.root = m.root /\ Spends(m, r, 3 - k)
      /\ r.ok => RangeDone(Rest(r.tables, D), m.root, z, p, w, u, last)
  BY <1>c
<1> HIDE DEF r
<1>7. Spends(m, r, 3)
  BY <1>5, <1>6
<1>8. identity_map(m, 0, IDENTITY_END, TRUE) = r
  BY <1>2, Zenon DEF r, w, z
<1>9. r.ok => RangeDone(Rest(r.tables, D), m.root, 0, 0, TRUE, FALSE, last)
  BY <1>6 DEF w, u, z, p, last
<1> QED
  BY <1>1, <1>6, <1>7, <1>8, <1>9, Zenon DEF last

(* The loop that maps the user's stack, which needs one new table.          *)
LEMMA UserStackFits ==
    ASSUME NEW m, NEW D, NEW H, NEW S, Fit(m, D, H, S), m.ok,
           Has(Rest(m.tables, D), m.root, indexes(USER_STACK_VADDR), 2)
    PROVE  LET r == user_stack_mapped(m)
           IN  /\ Fit(r, D, H, S) /\ r.root = m.root /\ Spends(m, r, 1)
               /\ r.ok => /\ RangeDone(Rest(r.tables, D), m.root, USER_STACK_VADDR, USER_STACK,
                                       TRUE, TRUE, USER_STACK_PAGES)
                          /\ Extends(Rest(m.tables, D), Rest(r.tables, D), m.root)
<1> DEFINE pages == USER_STACK_PAGES
<1>1. pages \in Nat /\ USER_STACK_VADDR \in Nat /\ USER_STACK \in Nat
  BY MainAssumption
<1>2. PICK f : /\ user_stack_mapped(m) = f[pages] /\ f[0] = m
               /\ \A n \in 1 .. pages :
                    f[n] = UserStep(f[n - 1], n, USER_STACK_VADDR, USER_STACK)
  BY UserLoop
<1> DEFINE w == TRUE
<1>0. w \in BOOLEAN
  OBVIOUS
<1>3. RangeLoop(f, m, USER_STACK_VADDR, USER_STACK, w, w, pages)
  BY <1>2 DEF UserStep, RangeStep, Page, RangeLoop
<1> HIDE DEF w
<1>4. OneTable(USER_STACK_VADDR, pages)
  BY AddressAssumption DEF Page, user_stack_page, OneTable
<1>5. 3 - 2 = 1 /\ 2 \in 0 .. 3 /\ TRUE \in BOOLEAN
  OBVIOUS
<1> HIDE DEF pages
<1>6. LET r == f[pages]
      IN  /\ Fit(r, D, H, S) /\ r.root = m.root /\ Spends(m, r, 3 - 2)
          /\ r.ok => /\ RangeDone(Rest(r.tables, D), m.root, USER_STACK_VADDR, USER_STACK,
                                  w, w, pages)
                     /\ Extends(Rest(m.tables, D), Rest(r.tables, D), m.root)
  BY <1>0, <1>1, <1>3, <1>4, <1>5, RangeFits
<1> QED
  BY <1>2, <1>5, <1>6 DEF pages, w

-----------------------------------------------------------------------------
(* What a walk and translate find.                                          *)
LEMMA FitWalk ==
    ASSUME NEW m, NEW D, NEW H, NEW S, Fit(m, D, H, S), m.root = pml4_phys, NEW va \in Nat
    PROVE  LET e == Leaf(Rest(m.tables, D), m.root, indexes(va))
           IN  /\ IsMapped(m.tables, va) <=> e.present
               /\ e.present => /\ Granted(walk(m.tables, va)) = Mapping(e)
                               /\ walk(m.tables, va)[4] = e
<1> DEFINE o == Without(m, D)
           T == Rest(m.tables, D)
           ix == indexes(va)
<1>1. IsMem(m)
  BY DEF Fit
<1>2. PICK lev : Good(o, lev)
  BY DEF Fit
<1>3. o.tables = T /\ o.root = pml4_phys
  BY <1>1, WithoutHas
<1>4. Tree(T, pml4_phys, lev) /\ Rights(T, lev)
  BY <1>2, <1>3 DEF Good
<1>5. walk(m.tables, va) = walk(T, va)
  BY <1>4, WalkRest
<1>6. IsMapped(m.tables, va) <=> IsMapped(T, va)
  BY <1>5 DEF IsMapped
<1> HIDE DEF T, o
<1>7. /\ IsMapped(T, va) <=> Leaf(T, pml4_phys, ix).present
      /\ IsMapped(T, va) => walk(T, va)[4] = Leaf(T, pml4_phys, ix)
  BY <1>4, WalkIs
<1>8. IsMapped(T, va) => Granted(walk(T, va)) = Mapping(Leaf(T, pml4_phys, ix))
  BY <1>4, WalkGrants DEF Mapping
<1> QED
  BY <1>5, <1>6, <1>7, <1>8 DEF T

(* The calls return memories that differ in what the next one sets anew.    *)
LEMMA FitWhole ==
    ASSUME NEW m, NEW D, NEW H, NEW S, Fit(m, D, H, S)
    PROVE  Fit(Whole(m.pmm, m.tables, m.root), D, H, S)
<1> DEFINE x == Whole(m.pmm, m.tables, m.root)
           o == Without(m, D)
           s == Without(x, D)
<1>1. IsMem(m) /\ D \subseteq DOMAIN m.tables /\ Kept(D, H) /\ S \in SUBSET Nat
  BY DEF Fit
<1>2. PICK lev : Good(o, lev) /\ Own(o, H, S)
  BY DEF Fit
<1>3. IsMem(x) /\ x.pmm = m.pmm /\ x.tables = m.tables /\ x.root = m.root
  BY WholeFields
<1> HIDE DEF x
<1>4. o.pmm = m.pmm /\ o.tables = Rest(m.tables, D) /\ o.root = m.root
  BY <1>1, WithoutHas
<1>5. IsMem(s) /\ s.pmm = x.pmm /\ s.tables = Rest(x.tables, D) /\ s.root = x.root
  BY <1>3, WithoutHas
<1> HIDE DEF o, s
<1>6. s.pmm = o.pmm /\ s.tables = o.tables /\ s.root = o.root
  BY <1>3, <1>4, <1>5
<1>7. Good(s, lev) /\ Own(s, H, S)
  BY <1>2, <1>5, <1>6, SameMem
<1>8. Fit(x, D, H, S)
  BY <1>1, <1>3, <1>7 DEF Fit, s
<1> QED
  BY <1>8 DEF x

(* Every table is in a frame that was handed out.                           *)
LEMMA FitTables ==
    ASSUME NEW m, NEW D, NEW H, NEW S, Fit(m, D, H, S)
    PROVE  PmmOK(m.pmm) /\ Kept(DOMAIN m.tables, m.pmm.allocated)
<1> DEFINE o == Without(m, D)
<1>1. IsMem(m) /\ Kept(D, H)
  BY DEF Fit
<1>2. PICK lev : Good(o, lev) /\ Own(o, H, S)
  BY DEF Fit
<1>3. o.pmm = m.pmm /\ DOMAIN o.tables = DOMAIN m.tables \ D
  <2>1. o.pmm = m.pmm /\ o.tables = Rest(m.tables, D)
    BY <1>1, WithoutHas
  <2> HIDE DEF o
  <2> QED
    BY <2>1 DEF Rest
<1> HIDE DEF o
<1>4. PmmOK(m.pmm)
  BY <1>2, <1>3 DEF Good
<1>5. H \subseteq m.pmm.allocated /\ \A t \in DOMAIN m.tables \ D : FrameAt(t, m.pmm.allocated \ H)
  BY <1>2, <1>3 DEF Own
<1>6. \A t \in DOMAIN m.tables : FrameAt(t, m.pmm.allocated)
  BY <1>1, <1>5 DEF Kept, FrameAt
<1> QED
  BY <1>4, <1>6 DEF Kept

(* The new tables of an address space, beside all that are there.           *)
LEMMA RootFits ==
    ASSUME NEW m, IsMem(m), PmmOK(m.pmm), HasFree(m.pmm), Kept(DOMAIN m.tables, m.pmm.allocated)
    PROVE  LET r == with_table(m)
           IN  /\ Fit(r, DOMAIN m.tables, m.pmm.allocated, {})
               /\ r.root = first_free(m.pmm) * FRAME_SIZE /\ r.ok = m.ok
<1> DEFINE f == first_free(m.pmm)
           a == f * FRAME_SIZE
           r == with_table(m)
           D == DOMAIN m.tables
           H == m.pmm.allocated
           q == mark_allocated(m.pmm, f)
           A == Added(m.tables, a)
           T == Rest(A, D)
           lev == [t \in {a} |-> 1]
           s == Without(r, D)
<1>1. Fields(r, q, A, a, m.at, m.ok)
  BY NewSpends, Zenon
<1>2. f \in Nat /\ f \notin H /\ PmmOK(q) /\ q.allocated = H \cup {f}
  BY TakeOne
<1>3. a \in Nat /\ a % FRAME_SIZE = 0 /\ a \div FRAME_SIZE = f
  BY <1>2, FrameAddress
<1>4. a \notin D
  BY <1>2, <1>3 DEF Kept, FrameAt
<1> HIDE DEF f, q, r, H
<1> HIDE DEF a
<1>5. DOMAIN A = D \cup {a} /\ A[a] = zeroed
  BY DEF Added
<1>6. DOMAIN T = {a} /\ T[a] = zeroed /\ T = [t \in DOMAIN T |-> T[t]]
  <2> HIDE DEF A, D
  <2>1. T = [t \in DOMAIN A \ D |-> A[t]]
    BY DEF Rest
  <2>2. DOMAIN A \ D = {a}
    BY <1>4, <1>5
  <2> QED
    BY <1>5, <2>1, <2>2
<1>7. \A i \in Index : ~T[a][i].present
  <2>1. \A i \in Index : ~zeroed[i].present
    BY DEF zeroed, Index, NotPresent
  <2> HIDE DEF T
  <2> QED
    BY <1>6, <2>1
<1>8. zeroed \in [Index -> Entry]
  BY DEF zeroed, NotPresent, Index, Entry
<1> HIDE DEF A, D
<1>9. lev \in [DOMAIN T -> 1 .. 4] /\ lev[a] = 1
  BY <1>6
<1> HIDE DEF T, lev
<1>10. IsTables(T)
  BY <1>3, <1>6, <1>8 DEF IsTables
<1>11. \A x, j, t : ~Above(T, lev, x, j, t)
  BY <1>6, <1>7 DEF Above
<1>12. Rights(T, lev)
  BY <1>6, <1>7 DEF Rights
<1>13. Tree(T, a, lev)
  BY <1>6, <1>7, <1>9, <1>10, <1>11 DEF Tree
<1>14. Fields(s, q, T, a, m.at, m.ok)
  BY <1>1, WithoutIs DEF T
<1>15. IsMem(s) /\ s.pmm = q /\ s.tables = T /\ s.root = a
  BY <1>14, Zenon DEF Fields
<1>16. IsMem(r) /\ r.tables = A /\ r.root = a /\ r.ok = m.ok
  BY <1>1, Zenon DEF Fields
<1> HIDE DEF s
<1>17. Good(s, lev)
  BY <1>2, <1>12, <1>13, <1>15 DEF Good
<1>18. Own(s, H, {})
  <2>1. FrameAt(a, s.pmm.allocated \ H)
    BY <1>2, <1>3, <1>15 DEF FrameAt
  <2>2. f * FRAME_SIZE \in DOMAIN s.tables
    BY <1>6, <1>15 DEF a
  <2> QED
    BY <1>2, <1>6, <1>15, <2>1, <2>2 DEF Own
<1>19. Kept(D, H)
  BY DEF D, H
<1>20. D \subseteq DOMAIN r.tables
  BY <1>5, <1>16
<1>21. Fit(r, D, H, {})
  BY <1>16, <1>17, <1>18, <1>19, <1>20 DEF Fit, s
<1> QED
  BY <1>16, <1>21, Zenon DEF r, D, H, a, f

(* unmap takes one page away and leaves the tables of its walk.             *)
LEMMA UnmapFits ==
    ASSUME NEW m, NEW D, NEW H, Fit(m, D, H, {}), m.root = pml4_phys, NEW va \in Nat,
           Leaf(Rest(m.tables, D), m.root, indexes(va)).present
    PROVE  LET r == unmap(m, va)
               ix == indexes(va)
               T == Rest(m.tables, D)
               T2 == Rest(r.tables, D)
           IN  /\ Fit(r, D, H, {}) /\ r.root = m.root /\ r.pmm = m.pmm
               /\ DOMAIN r.tables = DOMAIN m.tables
               /\ Arrives(T2, m.root, ix)
               /\ \A jx \in Indexes \ {ix} : Leaf(T2, m.root, jx) = Leaf(T, m.root, jx)
<1> DEFINE r == unmap(m, va)
           ix == indexes(va)
           i4 == ix[4]
           T == Rest(m.tables, D)
           T2 == Rest(r.tables, D)
           o == Without(m, D)
           s == Without(r, D)
           U == m.tables
           t == walk(m.tables, va)[3].address
<1>1. IsMem(m) /\ D \subseteq DOMAIN m.tables /\ Kept(D, H)
  BY DEF Fit
<1>2. PICK lev : Good(o, lev) /\ Own(o, H, {})
  BY DEF Fit
<1>3. o.pmm = m.pmm /\ o.tables = T /\ o.root = m.root /\ o.at = m.at /\ o.ok = m.ok
  BY <1>1, WithoutHas
<1>4. Tree(T, pml4_phys, lev)
  BY <1>2, <1>3 DEF Good
<1>5. ix \in Indexes
  BY IndexDigits
<1>6. walk(m.tables, va) = walk(T, va)
  BY <1>4, WalkRest
<1>7. t = walk(T, va)[3].address
  BY <1>6
<1> HIDE DEF t
<1>8. t \in DOMAIN T
  <2>1. Leaf(T, pml4_phys, ix).present
    OBVIOUS
  <2> HIDE DEF T
  <2>2. IsMapped(T, va)
    BY <1>4, <2>1, WalkIs
  <2>3. Arrives(T, pml4_phys, ix) /\ t = Fourth(T, pml4_phys, ix)
    BY <1>4, <1>7, <2>2, WalkIs
  <2> HIDE DEF ix
  <2> QED
    BY <1>4, <1>5, <2>3, WalkLevels
<1>9. t \in DOMAIN U \ D
  BY <1>8 DEF Rest
<1>10. Fields(m, m.pmm, U, m.root, m.at, m.ok)
  BY <1>1 DEF Fields
<1>11. r = put(m, t, i4, NotPresent) /\ unmap(o, va) = put(o, t, i4, NotPresent)
  BY <1>3, <1>7 DEF unmap, t
<1> DEFINE p0 == m.pmm
           c0 == m.root
           a0 == m.at
           k0 == m.ok
           e0 == NotPresent
<1>12. Fields(r, p0, Put(U, t, i4, e0), c0, a0, k0)
  <2>1. Fields(m, p0, U, c0, a0, k0) /\ r = put(m, t, i4, e0)
    BY <1>10, <1>11
  <2> HIDE DEF U, i4, p0, c0, a0, k0, e0, r
  <2>2. Fields(put(m, t, i4, e0), p0, [U EXCEPT ![t][i4] = e0], c0, a0, k0)
    BY <2>1, FieldsPut
  <2> QED
    BY <2>1, <2>2, Zenon DEF Put
<1>13. Fields(unmap(o, va), p0, Put(T, t, i4, e0), c0, a0, k0)
  <2>1. Fields(o, p0, T, c0, a0, k0) /\ unmap(o, va) = put(o, t, i4, e0)
    BY <1>1, <1>11, WithoutOf
  <2> HIDE DEF T, i4, p0, c0, a0, k0, e0, o
  <2>2. Fields(put(o, t, i4, e0), p0, [T EXCEPT ![t][i4] = e0], c0, a0, k0)
    BY <2>1, FieldsPut
  <2> QED
    BY <2>1, <2>2, Zenon DEF Put
<1>14. s = unmap(o, va)
  <2>1. Rest(Put(U, t, i4, e0), D) = Put(T, t, i4, e0)
    BY <1>9, RestPutIs
  <2>2. Fields(s, p0, Rest(Put(U, t, i4, e0), D), c0, a0, k0)
    BY <1>12, WithoutIs
  <2>3. Fields(s, p0, Put(T, t, i4, e0), c0, a0, k0)
    BY <2>1, <2>2, Zenon
  <2> HIDE DEF s, o, T, i4, p0, c0, a0, k0, e0
  <2> QED
    BY <1>13, <2>3, SameFields
<1>15. /\ Good(s, lev) /\ s.root = o.root /\ s.pmm = o.pmm
       /\ DOMAIN s.tables = DOMAIN o.tables
       /\ Arrives(s.tables, o.root, ix)
       /\ \A jx \in Indexes \ {ix} : Leaf(s.tables, o.root, jx) = Leaf(o.tables, o.root, jx)
  <2>1. o.root = pml4_phys /\ Leaf(o.tables, o.root, ix).present
    BY <1>3
  <2> HIDE DEF s, o
  <2>2. LET x == unmap(o, va)
        IN  /\ Good(x, lev) /\ x.root = o.root /\ x.pmm = o.pmm
            /\ DOMAIN x.tables = DOMAIN o.tables
            /\ Arrives(x.tables, o.root, ix)
            /\ \A jx \in Indexes \ {ix} : Leaf(x.tables, o.root, jx) = Leaf(o.tables, o.root, jx)
    BY <1>2, <2>1, Unmap
  <2> QED
    BY <1>14, <2>2
<1>16. IsMem(r) /\ r.pmm = m.pmm /\ r.root = m.root /\ r.tables = Put(U, t, i4, e0)
  <2> HIDE DEF U, r
  <2> QED
    BY <1>12, Zenon DEF Fields
<1>17. DOMAIN r.tables = DOMAIN m.tables
  <2>1. DOMAIN Put(U, t, i4, e0) = DOMAIN U
    BY DEF Put
  <2> HIDE DEF r
  <2> QED
    BY <1>16, <2>1
<1>18. s.tables = T2
  BY <1>16, WithoutHas
<1>19. Own(s, H, {})
  <2> HIDE DEF s, o
  <2> QED
    BY <1>2, <1>15, OwnSame
<1>20. Fit(r, D, H, {})
  <2> HIDE DEF r
  <2> QED
    BY <1>1, <1>15, <1>16, <1>17, <1>19 DEF Fit
<1> HIDE DEF r, T, T2, s, o, ix
<1> QED
  BY <1>3, <1>15, <1>16, <1>17, <1>18, <1>20 DEF r, T, T2, ix

-----------------------------------------------------------------------------
(* The heap.  Its frames are counted with the others that the kernel has.   *)

(* The rollback changes no table's place.                                   *)
LEMMA UndoKeeps ==
    ASSUME NEW x, IsMem(x), NEW n
    PROVE  LET r == UndoStep(x, n)
           IN  IsMem(r) /\ r.ok = x.ok /\ DOMAIN r.tables = DOMAIN x.tables
<1> DEFINE va == heap_page(n - 1)
           r == UndoStep(x, n)
           t == walk(x.tables, va)[3].address
           i == indexes(va)[4]
           e == NotPresent
           p0 == x.pmm
           T0 == x.tables
           c0 == x.root
           a0 == x.at
           k0 == x.ok
           T2 == Put(T0, t, i, e)
           y == unmap(x, va)
           q == freed(y.pmm, walk(x.tables, va)[4].address)
<1>1. CASE ~unmaps(x.tables, va)
  BY <1>1 DEF UndoStep
<1>2. CASE unmaps(x.tables, va)
  <2>1. r = [y EXCEPT !.pmm = q] /\ y = put(x, t, i, e)
    BY <1>2 DEF UndoStep, unmap
  <2>2. Fields(x, p0, T0, c0, a0, k0)
    BY DEF Fields
  <2>3. DOMAIN T2 = DOMAIN T0
    BY DEF Put
  <2> HIDE DEF t, i, e, p0, T0, c0, a0, k0, T2, q, y, r, va
  <2>4. Fields(put(x, t, i, e), p0, [T0 EXCEPT ![t][i] = e], c0, a0, k0)
    BY <2>2, FieldsPut
  <2>5. Fields(y, p0, T2, c0, a0, k0)
    BY <2>1, <2>4, Zenon DEF T2, Put
  <2>6. Fields(r, q, T2, c0, a0, k0)
    BY <2>1, <2>5, FieldsPmm, Zenon
  <2>7. IsMem(r) /\ r.tables = T2 /\ r.ok = k0
    BY <2>6, Zenon DEF Fields
  <2>8. DOMAIN r.tables = DOMAIN T0
    BY <2>3, <2>7, Zenon
  <2> QED
    BY <2>7, <2>8, Zenon DEF r, k0, T0
<1> QED
  BY <1>1, <1>2

(* The whole rollback of the heap.                                          *)
LEMMA RollbackKeeps ==
    ASSUME NEW x, IsMem(x), NEW pages \in Nat
    PROVE  LET r == rollback(x, pages)
           IN  IsMem(r) /\ r.ok = x.ok /\ DOMAIN r.tables = DOMAIN x.tables
<1>1. PICK f : /\ rollback(x, pages) = f[pages] /\ f[0] = x
               /\ \A n \in 1 .. pages : f[n] = UndoStep(f[n - 1], n)
  BY UndoLoop
<1> DEFINE Same(r) == IsMem(r) /\ r.ok = x.ok /\ DOMAIN r.tables = DOMAIN x.tables
           B == {n \in 0 .. pages : ~Same(f[n])}
<1>2. Same(x)
  OBVIOUS
<1>3. ASSUME NEW y, Same(y), NEW n PROVE Same(UndoStep(y, n))
  BY <1>3, UndoKeeps
<1> HIDE DEF Same
<1>4. B = {}
  <2> SUFFICES ASSUME B # {} PROVE FALSE
    OBVIOUS
  <2>1. B \in SUBSET Nat
    OBVIOUS
  <2>2. PICK c \in B : \A n \in B : c <= n
    BY <2>1, Least
  <2>3. c # 0
    BY <1>1, <1>2
  <2>4. c \in 1 .. pages /\ c - 1 \in 0 .. pages /\ ~(c <= c - 1)
    BY <2>3
  <2>5. Same(f[c - 1])
    BY <2>2, <2>4
  <2>6. Same(f[c])
    BY <1>1, <1>3, <2>4, <2>5
  <2> QED
    BY <2>2, <2>6
<1>5. Same(f[pages])
  <2>1. pages \in 0 .. pages
    OBVIOUS
  <2> QED
    BY <1>4, <2>1
<1> QED
  BY <1>1, <1>5 DEF Same

(* A frame is taken for a page.                                             *)
LEMMA FrameFits ==
    ASSUME NEW x, NEW D, NEW H, Fit(x, D, H, {}), HasFree(x.pmm)
    PROVE  LET f == first_free(x.pmm)
               y == [x EXCEPT !.pmm = mark_allocated(x.pmm, f)]
           IN  /\ Fit(y, D, H \cup {f}, {})
               /\ y.pmm = mark_allocated(x.pmm, f) /\ y.tables = x.tables /\ y.root = x.root
               /\ y.ok = x.ok /\ f * FRAME_SIZE \in Nat
<1> DEFINE f == first_free(x.pmm)
           q == mark_allocated(x.pmm, f)
           y == [x EXCEPT !.pmm = q]
           o == Without(x, D)
           s == Without(y, D)
<1>1. IsMem(x) /\ D \subseteq DOMAIN x.tables /\ Kept(D, H)
  BY DEF Fit
<1>2. PICK lev : Good(o, lev) /\ Own(o, H, {})
  BY DEF Fit
<1>3. o.pmm = x.pmm /\ o.tables = Rest(x.tables, D) /\ o.root = x.root
  BY <1>1, WithoutHas
<1>4. PmmOK(x.pmm)
  BY <1>2, <1>3 DEF Good
<1>5. f \in Nat /\ f \notin x.pmm.allocated /\ PmmOK(q) /\ q.allocated = x.pmm.allocated \cup {f}
  BY <1>4, TakeOne
<1>6. f * FRAME_SIZE \in Nat
  BY <1>5, FrameAddress
<1>7. Fields(x, x.pmm, x.tables, x.root, x.at, x.ok)
  BY <1>1 DEF Fields
<1>8. y = [x EXCEPT !.pmm = q]
  OBVIOUS
<1> HIDE DEF f, q, y
<1>9. Fields(y, q, x.tables, x.root, x.at, x.ok)
  BY <1>7, <1>8, FieldsPmm, Zenon
<1>10. IsMem(y) /\ y.pmm = q /\ y.tables = x.tables /\ y.root = x.root /\ y.ok = x.ok
  BY <1>9, Zenon DEF Fields
<1>11. IsMem(s) /\ s.pmm = y.pmm /\ s.tables = Rest(y.tables, D) /\ s.root = y.root
  BY <1>10, WithoutHas
<1> HIDE DEF o, s
<1>12. s.pmm = q /\ s.tables = o.tables /\ s.root = o.root
  BY <1>3, <1>10, <1>11
<1>13. Good(s, lev)
  BY <1>2, <1>5, <1>11, <1>12 DEF Good
<1>14. Own(s, H \cup {f}, {})
  BY <1>2, <1>3, <1>5, <1>12, OwnTaken
<1>15. Kept(D, H \cup {f})
  BY <1>1 DEF Kept, FrameAt
<1>16. Fit(y, D, H \cup {f}, {})
  BY <1>1, <1>10, <1>13, <1>14, <1>15 DEF Fit, s
<1> QED
  BY <1>6, <1>10, <1>16, Zenon DEF y, q, f

(* One more page.                                                           *)
HeapGoesOn(x, r, D, va) ==
    /\ \E H2 : Fit(r, D, H2, {})
    /\ r.root = x.root /\ Extends(Rest(x.tables, D), Rest(r.tables, D), x.root)
    /\ Leaf(Rest(r.tables, D), x.root, indexes(va)).present

(* One turn of the loop of the heap: a frame for the page and the tables    *)
(* that it lacks.                                                           *)
LEMMA HeapTurn ==
    ASSUME NEW x, NEW D, NEW H, Fit(x, D, H, {}), x.ok, NEW n \in Nat, NEW k \in 0 .. 3,
           Has(Rest(x.tables, D), x.root, indexes(heap_page(n)), k)
    PROVE  LET r == heap_map_next(x, n)
           IN  /\ r.ok => HeapGoesOn(x, r, D, heap_page(n))
               /\ Spare(x.pmm, (3 - k) + 1) => NewLow(x, r)
               /\ k = 3 => NewLow(x, r)
<1> DEFINE f == first_free(x.pmm)
           a == f * FRAME_SIZE
           va == heap_page(n)
           q == mark_allocated(x.pmm, f)
           y == [x EXCEPT !.pmm = q]
           w == TRUE
           u == FALSE
           r == map(y, va, a, w, u)
           r2 == [r EXCEPT !.pmm = freed(r.pmm, a)]
           z == [x EXCEPT !.ok = FALSE]
           h == heap_map_next(x, n)
<1>1. h = IF ~HasFree(x.pmm) THEN rollback(z, n) ELSE IF r.ok THEN r ELSE rollback(r2, n)
  BY DEF heap_map_next
<1>2. IsMem(x)
  BY DEF Fit
<1>3. Fields(x, x.pmm, x.tables, x.root, x.at, x.ok)
  BY <1>2 DEF Fields
<1> HIDE DEF h
<1>4. CASE ~HasFree(x.pmm)
  <2>1. z = [x EXCEPT !.ok = FALSE]
    OBVIOUS
  <2> HIDE DEF z
  <2>2. Fields(z, x.pmm, x.tables, x.root, x.at, FALSE)
    BY <1>3, <2>1, FieldsOk, Zenon
  <2>3. IsMem(z) /\ z.tables = x.tables /\ ~z.ok
    BY <2>2, Zenon DEF Fields
  <2>4. rollback(z, n).ok = z.ok /\ DOMAIN rollback(z, n).tables = DOMAIN z.tables
    BY <2>3, RollbackKeeps
  <2>5. ~h.ok /\ DOMAIN h.tables = DOMAIN x.tables
    BY <1>1, <1>4, <2>3, <2>4
  <2> QED
    BY <2>5 DEF NewLow, h
<1>5. CASE HasFree(x.pmm)
  <2>1. /\ Fit(y, D, H \cup {f}, {}) /\ y.pmm = q /\ y.tables = x.tables /\ y.root = x.root
        /\ y.ok = x.ok /\ a \in Nat
    BY <1>5, FrameFits
  <2>2. y.ok
    BY <2>1
  <2>3. va \in Nat /\ w \in BOOLEAN /\ u \in BOOLEAN
    BY HeapPageNat
  <2>4. r = map(y, va, a, w, u)
    OBVIOUS
  <2>5. r2 = [r EXCEPT !.pmm = freed(r.pmm, a)]
    OBVIOUS
  <2> HIDE DEF y, a, r, w, u, r2
  <2>6. Fitted(y, r, D, H \cup {f}, {}, va, a, w, u)
    BY <2>1, <2>2, <2>3, <2>4, MapFits
  <2>7. Has(Rest(y.tables, D), y.root, indexes(va), k)
    BY <2>1
  <2>8. Spends(y, r, 3 - k) /\ Fit(r, D, H \cup {f}, {}) /\ r.root = y.root
    BY <2>6, <2>7 DEF Fitted
  <2>9. r.ok => HeapGoesOn(x, r, D, va)
    <3> SUFFICES ASSUME r.ok PROVE HeapGoesOn(x, r, D, va)
      OBVIOUS
    <3>1. /\ Leaf(Rest(r.tables, D), y.root, indexes(va)) = make_entry(a, w, u)
          /\ Extends(Rest(y.tables, D), Rest(r.tables, D), y.root)
      BY <2>6 DEF Fitted
    <3>2. Leaf(Rest(r.tables, D), y.root, indexes(va)).present
      BY <3>1 DEF make_entry
    <3> HIDE DEF va
    <3> QED
      BY <2>1, <2>8, <3>1, <3>2 DEF HeapGoesOn
  <2>10. h.ok => h = r /\ r.ok
    <3>1. CASE ~r.ok
      <4>1. IsMem(r)
        BY <2>8 DEF Fit
      <4>2. Fields(r, r.pmm, r.tables, r.root, r.at, r.ok)
        BY <4>1 DEF Fields
      <4>3. Fields(r2, freed(r.pmm, a), r.tables, r.root, r.at, r.ok)
        BY <2>5, <4>2, FieldsPmm, Zenon
      <4>4. IsMem(r2) /\ ~r2.ok
        BY <3>1, <4>3, Zenon DEF Fields
      <4>5. rollback(r2, n).ok = r2.ok
        BY <4>4, RollbackKeeps
      <4>6. h = rollback(r2, n)
        BY <1>1, <1>5, <3>1
      <4>7. ~h.ok
        BY <4>4, <4>5, <4>6
      <4> QED
        BY <4>7
    <3>2. CASE r.ok
      BY <1>1, <1>5, <3>2
    <3> QED
      BY <3>1, <3>2
  <2>11. DOMAIN h.tables = DOMAIN r.tables
    <3>1. CASE ~r.ok
      <4>1. IsMem(r)
        BY <2>8 DEF Fit
      <4>2. Fields(r, r.pmm, r.tables, r.root, r.at, r.ok)
        BY <4>1 DEF Fields
      <4>3. Fields(r2, freed(r.pmm, a), r.tables, r.root, r.at, r.ok)
        BY <2>5, <4>2, FieldsPmm, Zenon
      <4>4. IsMem(r2) /\ r2.tables = r.tables
        BY <4>3, Zenon DEF Fields
      <4>5. DOMAIN rollback(r2, n).tables = DOMAIN r2.tables
        BY <4>4, RollbackKeeps
      <4>6. h = rollback(r2, n)
        BY <1>1, <1>5, <3>1
      <4> QED
        BY <4>4, <4>5, <4>6
    <3>2. CASE r.ok
      BY <1>1, <1>5, <3>2
    <3> QED
      BY <3>1, <3>2
  <2>12. NewLow(y, r) => NewLow(x, h)
    BY <2>1, <2>11 DEF NewLow
  <2>13. Spare(x.pmm, (3 - k) + 1) => NewLow(y, r)
    <3> SUFFICES ASSUME Spare(x.pmm, (3 - k) + 1) PROVE NewLow(y, r)
      OBVIOUS
    <3> DEFINE c == (3 - k) + 1
    <3>1. c \in Nat /\ c >= 1 /\ c - 1 = 3 - k /\ 3 - k \in Nat /\ Spare(x.pmm, c)
      OBVIOUS
    <3> HIDE DEF c
    <3>2. Spare(q, c - 1)
      BY <3>1, TakeLow
    <3>3. Spare(y.pmm, 3 - k)
      BY <2>1, <3>1, <3>2
    <3> QED
      BY <2>8, <3>1, <3>3 DEF Spends
  <2>14. k = 3 => NewLow(y, r)
    <3> SUFFICES ASSUME k = 3 PROVE NewLow(y, r)
      OBVIOUS
    <3>1. Spends(y, r, 0)
      <4>1. 3 - k = 0
        OBVIOUS
      <4> QED
        BY <2>8, <4>1
    <3>2. Spare(y.pmm, 0)
      BY LowFinite DEF Spare
    <3> QED
      BY <3>1, <3>2 DEF Spends
  <2>15. h.ok => HeapGoesOn(x, h, D, va)
    BY <2>9, <2>10
  <2> HIDE DEF va, q
  <2> QED
    BY <2>12, <2>13, <2>14, <2>15 DEF h, va
<1> QED
  BY <1>4, <1>5

-----------------------------------------------------------------------------
(* All of the heap: the first page may need two tables, the others none.    *)
LEMMA HeapFits ==
    ASSUME NEW m, NEW D, NEW H, Fit(m, D, H, {}), m.ok,
           Has(Rest(m.tables, D), m.root, indexes(HEAP_START), 1),
           NEW pages \in Nat, OneTable(HEAP_START, pages)
    PROVE  LET r == heap_map(m, pages)
           IN  /\ r.ok => /\ \E H2 : Fit(r, D, H2, {})
                          /\ r.root = m.root
                          /\ Extends(Rest(m.tables, D), Rest(r.tables, D), m.root)
               /\ Spare(m.pmm, 3) => NewLow(m, r)
<1>1. PICK f : /\ heap_map(m, pages) = f[pages] /\ f[0] = m
               /\ \A n \in 1 .. pages : f[n] = HeapStep(f[n - 1], n)
  BY HeapLoop
<1> DEFINE first == indexes(HEAP_START)
           T(x) == Rest(x.tables, D)
           Turned(x, n) ==
             /\ x.ok => /\ \E H2 : Fit(x, D, H2, {})
                        /\ x.root = m.root /\ Extends(T(m), T(x), m.root)
                        /\ n # 0 => Leaf(T(x), m.root, first).present
             /\ Spare(m.pmm, 3) => NewLow(m, x)
           B == {n \in 0 .. pages : ~Turned(f[n], n)}
<1>0. heap_page(0) = HEAP_START /\ \A n \in Nat : Page(HEAP_START, n) = heap_page(n)
  BY VirtualAssumption, FrameAssumption DEF heap_page, Page, PAGE_SIZE
<1>2. Turned(m, 0)
  <2>1. Extends(T(m), T(m), m.root)
    BY DEF Extends
  <2>2. NewLow(m, m)
    BY DEF NewLow
  <2> QED
    BY <2>1, <2>2
<1>3. ASSUME NEW n \in 1 .. pages, NEW x, x = f[n - 1], Turned(x, n - 1)
      PROVE  Turned(HeapStep(x, n), n)
  <2> DEFINE i == n - 1
             va == heap_page(i)
             r == HeapStep(x, n)
  <2>1. i \in Nat /\ i \in 0 .. pages - 1 /\ n # 0
    OBVIOUS
  <2>2. CASE ~x.ok
    <3>1. HeapStep(x, n) = x
      BY <2>2 DEF HeapStep
    <3> QED
      BY <1>3, <2>2, <3>1
  <2>3. CASE x.ok
    <3>1. r = heap_map_next(x, i)
      BY <2>3 DEF HeapStep
    <3>2. PICK H2 : Fit(x, D, H2, {})
      BY <1>3, <2>3
    <3>3. x.root = m.root /\ Extends(T(m), T(x), m.root)
          /\ (i # 0 => Leaf(T(x), m.root, first).present)
      BY <1>3, <2>3
    <3>4. Spare(m.pmm, 3) => NewLow(m, x)
      BY <1>3
    <3>5. /\ r.ok => HeapGoesOn(x, r, D, va) /\ Leaf(T(r), x.root, first).present
          /\ Spare(m.pmm, 3) => NewLow(x, r)
      <4>1. CASE i = 0
        <5>1. x = m /\ va = HEAP_START
          BY <1>0, <1>1, <1>3, <4>1
        <5> DEFINE k == 1
        <5>2. k \in 0 .. 3 /\ (3 - k) + 1 = 3 /\ Has(T(x), x.root, indexes(va), k)
          BY <5>1
        <5> HIDE DEF k, va, i, T, r
        <5>3. LET h == heap_map_next(x, i)
              IN  /\ h.ok => HeapGoesOn(x, h, D, heap_page(i))
                  /\ Spare(x.pmm, (3 - k) + 1) => NewLow(x, h)
                  /\ k = 3 => NewLow(x, h)
          BY <2>1, <2>3, <3>2, <5>2, HeapTurn DEF T, va
        <5>4. /\ r.ok => HeapGoesOn(x, r, D, va)
              /\ Spare(x.pmm, 3) => NewLow(x, r)
          BY <3>1, <5>2, <5>3 DEF va
        <5>5. HeapGoesOn(x, r, D, va) => Leaf(T(r), x.root, first).present
          BY <5>1 DEF HeapGoesOn, T
        <5> QED
          BY <5>1, <5>4, <5>5
      <4>2. CASE i # 0
        <5>1. Leaf(T(x), x.root, first).present
          BY <3>3, <4>2
        <5>2. Arrives(T(x), x.root, first)
          BY <5>1, LeafArrives
        <5>3. Shares(HEAP_START, va, 3)
          BY <1>0, <2>1 DEF OneTable
        <5> DEFINE k == 3
        <5>4. k \in 0 .. 3 /\ k = 3 /\ Shares(HEAP_START, va, k)
          BY <5>3
        <5> HIDE DEF k, va, i, T, r
        <5>5. Has(T(x), x.root, indexes(va), k)
          BY <5>2, <5>4, SharesHas
        <5>6. LET h == heap_map_next(x, i)
              IN  /\ h.ok => HeapGoesOn(x, h, D, heap_page(i))
                  /\ Spare(x.pmm, (3 - k) + 1) => NewLow(x, h)
                  /\ k = 3 => NewLow(x, h)
          BY <2>1, <2>3, <3>2, <5>4, <5>5, HeapTurn DEF T, va
        <5>7. (r.ok => HeapGoesOn(x, r, D, va)) /\ NewLow(x, r)
          BY <3>1, <5>4, <5>6 DEF va
        <5>8. first \in Indexes
          BY VirtualAssumption, IndexDigits
        <5> HIDE DEF first
        <5>9. HeapGoesOn(x, r, D, va) => Leaf(T(r), x.root, first).present
          <6> SUFFICES ASSUME HeapGoesOn(x, r, D, va) PROVE Leaf(T(r), x.root, first).present
            OBVIOUS
          <6>1. Extends(T(x), T(r), x.root)
            BY DEF HeapGoesOn, T
          <6>2. Leaf(T(r), x.root, first) = Leaf(T(x), x.root, first)
            BY <5>1, <5>8, <6>1 DEF Extends
          <6> QED
            BY <5>1, <6>2
        <5> QED
          BY <5>7, <5>9
      <4> QED
        BY <4>1, <4>2
    <3> HIDE DEF r, va, i, T, first
    <3>6. Spare(m.pmm, 3) => NewLow(m, r)
      BY <3>4, <3>5 DEF NewLow
    <3>7. ASSUME r.ok
          PROVE  /\ \E H3 : Fit(r, D, H3, {})
                 /\ r.root = m.root /\ Extends(T(m), T(r), m.root)
                 /\ Leaf(T(r), m.root, first).present
      <4>1. HeapGoesOn(x, r, D, va) /\ Leaf(T(r), x.root, first).present
        BY <3>5, <3>7
      <4>2. /\ \E H3 : Fit(r, D, H3, {})
            /\ r.root = x.root /\ Extends(T(x), T(r), x.root)
        BY <4>1 DEF HeapGoesOn, T
      <4>3. Extends(T(m), T(x), m.root) /\ Extends(T(x), T(r), m.root)
        BY <3>3, <4>2
      <4>4. Extends(T(m), T(r), m.root)
        BY <4>3, ExtendsTwice
      <4> QED
        BY <3>3, <4>1, <4>2, <4>4
    <3> QED
      BY <2>1, <3>6, <3>7 DEF r
  <2> QED
    BY <2>2, <2>3
<1> HIDE DEF Turned
<1>4. B = {}
  <2> SUFFICES ASSUME B # {} PROVE FALSE
    OBVIOUS
  <2>1. B \in SUBSET Nat
    OBVIOUS
  <2>2. PICK c \in B : \A n \in B : c <= n
    BY <2>1, Least
  <2>3. c # 0
    BY <1>1, <1>2
  <2>4. c \in 1 .. pages /\ c - 1 \in 0 .. pages /\ ~(c <= c - 1)
    BY <2>3
  <2>5. Turned(f[c - 1], c - 1)
    BY <2>2, <2>4
  <2>6. Turned(f[c], c)
    BY <1>1, <1>3, <2>4, <2>5
  <2> QED
    BY <2>2, <2>6
<1>5. Turned(f[pages], pages)
  <2>1. pages \in 0 .. pages
    OBVIOUS
  <2> QED
    BY <1>4, <2>1
<1> QED
  BY <1>1, <1>5 DEF Turned

-----------------------------------------------------------------------------
(* The frames that the steps to come need are free below IDENTITY_END.      *)
Enough == Cardinality(LowFrames) >= FRAMES_TO_LAST_TABLE

(* If there were enough frames to begin with, n of them are left.           *)
Left(n) == Enough => Spare(pmm, n)

(* Where the processor is, or will be when its handler returns.             *)
Loc == IF at \in {"exception", "timer"} THEN Head(cpu.frames).resume ELSE at

(* What the tables T of root map: the first 2 MiB, the user's code and its  *)
(* stack; and what the processor may have cached of it.                     *)
LowIn(T, root) == RangeDone(T, root, 0, 0, TRUE, FALSE, LowPages)
CodeIn(T, root, page) ==
    Leaf(T, root, indexes(USER_CODE_VADDR)) = make_entry(page, TRUE, TRUE)
StackIn(T, root) ==
    RangeDone(T, root, USER_STACK_VADDR, USER_STACK, TRUE, TRUE, USER_STACK_PAGES)
CachedIn(c, T, root) ==
    \A va \in DOMAIN c :
      LET e == Leaf(T, root, indexes(va)) IN va \in Nat /\ e.present /\ c[va] = Mapping(e)

(* The user's code is not one of the first pages.                           *)
Beside == \A i \in 0 .. LowPages - 1 : indexes(Page(0, i)) # indexes(USER_CODE_VADDR)

(* The tables of the address space are all but those in D.                  *)
Space(D) == \E H : Fit(mem, D, H, {})
Live(D) == Rest(tables, D)
Full(D) ==
    /\ Space(D) /\ LowIn(Live(D), pml4_phys)
    /\ CodeIn(Live(D), pml4_phys, UserPage) /\ StackIn(Live(D), pml4_phys)

(* CR3 is still the boot page tables, or holds the kernel's; then every     *)
(* cached translation is what a leaf says.                                  *)
Unloaded == cr3 = "boot" /\ DOMAIN tlb = {}
Loaded(D) == cr3 = "kernel" /\ CachedIn(tlb, Live(D), pml4_phys)

(* What each step of _start finds.                                          *)
Booting == IInv /\ pmm.allocated = {} /\ DOMAIN tables = {}
AtFrames == Booting /\ phase = "ready"
AtScratch == PmmOK(pmm) /\ DOMAIN tables = {} /\ Left(13)
AtNew == PmmOK(pmm) /\ Kept(DOMAIN tables, pmm.allocated) /\ Left(9)
AtIdentity == Left(8) /\ \E D : Space(D)
AtTestMap == Left(5) /\ \E D : Space(D) /\ LowIn(Live(D), pml4_phys)
AtTestUnmap == Left(4) /\ \E D : Space(D) /\ LowIn(Live(D), pml4_phys) /\ Beside
AtUserCode ==
    Left(4) /\ \E D : /\ Space(D) /\ LowIn(Live(D), pml4_phys)
                      /\ Arrives(Live(D), pml4_phys, indexes(USER_CODE_VADDR))
AtUserStack ==
    Left(4) /\ \E D : /\ Space(D) /\ LowIn(Live(D), pml4_phys)
                      /\ CodeIn(Live(D), pml4_phys, UserPage)
AtActivate == Left(3) /\ \E D : Full(D)
AtHeap == Left(3) /\ \E D : Full(D) /\ Loaded(D)
Ready == /\ heap = [mapped_pages |-> HEAP_PAGES, initialized |-> TRUE]
         /\ \E D : Full(D) /\ Loaded(D)

(* The places before frames can be allocated, and those after the heap is   *)
(* there.                                                                   *)
BootAt == {"gdt", "idt", "int3", "pmm"}
ReadyAt == {"spinlock", "objects", "ipc", "dispatch", "efer", "msrs", "pic", "ring3",
            "syscall_entry", "syscall", "sysret"} \cup UserAt

(* What the memory is when the processor gets to l.                         *)
Holds(l) ==
    \/ /\ Unloaded
       /\ \/ l \in BootAt /\ Booting
          \/ l = "frames" /\ AtFrames
          \/ l = "scratch" /\ AtScratch
          \/ l = "new" /\ AtNew
          \/ l = "identity" /\ AtIdentity
          \/ l = "test_map" /\ AtTestMap
          \/ l = "test_unmap" /\ AtTestUnmap
          \/ l = "user_code" /\ AtUserCode
          \/ l = "user_stack" /\ AtUserStack
          \/ l \in {"rsp0", "activate"} /\ AtActivate
    \/ l = "heap" /\ AtHeap
    \/ l \in ReadyAt /\ Ready

(* The inductive invariant: wherever the processor is, or will return to,   *)
(* the memory is what that place needs, and a page fault comes only of too  *)
(* few frames.                                                              *)
MemInv ==
    /\ kernel \in KernelRanges /\ entry \in UserEntries
    /\ at = "page_fault" => ~Enough
    /\ at \notin Stopped => Holds(Loc)

(* What holds at a place of _start.                                         *)
LEMMA HoldsAt ==
    ASSUME MemInv, at \notin Stopped, at \notin {"exception", "timer"}
    PROVE  Holds(at)
  BY DEF MemInv, Loc

(* What is shown of a step: where it gets to finds what it needs.           *)
LEMMA Arrived ==
    ASSUME MemInv, UNCHANGED <<kernel, entry>>, at' \notin {"exception", "timer"},
           NEW l, at' = l, at' = "page_fault" => ~Enough', at' \notin Stopped => Holds(l)'
    PROVE  MemInv'
<1>1. Loc' = l
  BY DEF Loc
<1>2. at' \notin Stopped => Holds(Loc)'
  <2> SUFFICES ASSUME at' \notin Stopped PROVE Holds(Loc)'
    OBVIOUS
  <2>1. Holds(l)'
    OBVIOUS
  <2> QED
    BY <1>1, <2>1 DEF Holds
<1> QED
  BY <1>2 DEF MemInv, Stopped

(* Nothing that the predicates are about changes.                           *)
LEMMA StillEnough ==
    ASSUME UNCHANGED <<memory_map, kernel>>
    PROVE  Enough' <=> Enough
  BY DEF Enough, LowFrames, Usable, Reserved, InRange

(* What holds at a place still does when the memory is left alone.          *)
LEMMA HoldsStill ==
    ASSUME NEW l, Holds(l), UNCHANGED <<all_vars, cr3, tlb, entry>>
    PROVE  Holds(l)'
<1>1. /\ pmm' = pmm /\ memory_map' = memory_map /\ kernel' = kernel /\ phase' = phase
      /\ next' = next /\ tables' = tables /\ pml4_phys' = pml4_phys /\ heap' = heap
      /\ cr3' = cr3 /\ tlb' = tlb /\ entry' = entry
  BY DEF all_vars, fa_vars, vm_vars
<1>2. IInv => IInv'
  BY <1>1, NextIInv DEF fa_vars
<1>3. \A n : Left(n)' <=> Left(n)
  BY <1>1, StillEnough DEF Left
<1>4. mem' = mem /\ UserPage' = UserPage
  BY <1>1 DEF mem, UserPage
<1>5. \A D : (Space(D)' <=> Space(D)) /\ Live(D)' = Live(D)
  BY <1>1, <1>4 DEF Space, Live
<1>6. \A D : (Full(D)' <=> Full(D)) /\ (Loaded(D)' <=> Loaded(D))
  BY <1>1, <1>4, <1>5 DEF Full, Loaded
<1>7. Unloaded' <=> Unloaded
  BY <1>1 DEF Unloaded
<1>8. (Booting => Booting') /\ (AtFrames => AtFrames') /\ (AtScratch => AtScratch')
      /\ (AtNew => AtNew')
  BY <1>1, <1>2, <1>3 DEF Booting, AtFrames, AtScratch, AtNew
<1>9. (AtIdentity => AtIdentity') /\ (AtTestMap => AtTestMap') /\ (AtTestUnmap => AtTestUnmap')
      /\ (AtUserCode => AtUserCode') /\ (AtUserStack => AtUserStack')
  BY <1>1, <1>3, <1>4, <1>5 DEF AtIdentity, AtTestMap, AtTestUnmap, AtUserCode, AtUserStack
<1>10. (AtActivate => AtActivate') /\ (AtHeap => AtHeap') /\ (Ready => Ready')
  BY <1>1, <1>3, <1>6 DEF AtActivate, AtHeap, Ready
<1> QED
  BY <1>7, <1>8, <1>9, <1>10 DEF Holds

(* A step that maps while stage 2's tables are in use: with the frames it   *)
(* needs, it does not fault.                                                *)
LEMMA MemoryStep ==
    ASSUME NEW step, NEW m, NEW check, Memory(step, m, check), cr3 = "boot",
           NEW n \in Nat, NEW j \in Nat, j <= n, Left(n), Spends(mem, m, j)
    PROVE  /\ UNCHANGED <<memory_map, kernel, phase, next, cr3, tlb, entry, cpu>>
           /\ \/ at' = "page_fault" /\ ~Enough'
              \/ at' = "halted"
              \/ /\ check /\ at' = Following(step)
                 /\ pmm' = m.pmm /\ tables' = m.tables /\ Left(n - j)'
<1> DEFINE reached == \A t \in DOMAIN m.tables \ DOMAIN tables : Writable(tables, t)
<1>1. UNCHANGED <<memory_map, kernel, phase, next, cr3, tlb, entry, cpu>>
  BY DEF Memory, machine
<1>2. Enough' <=> Enough
  BY <1>1, StillEnough
<1>3. mem.pmm = pmm /\ mem.tables = tables
  BY DEF mem
<1>4. Enough => Spare(m.pmm, n - j) /\ NewLow(mem, m)
  BY <1>3 DEF Left, Spends
<1>5. Enough => reached
  BY <1>3, <1>4 DEF NewLow, IsLow, Writable
<1>6. \/ reached /\ pmm' = m.pmm /\ tables' = m.tables
         /\ at' = (IF check THEN Following(step) ELSE "halted")
      \/ ~reached /\ at' = "page_fault"
  BY DEF Memory
<1> HIDE DEF reached
<1>7. CASE ~reached
  BY <1>1, <1>2, <1>5, <1>6, <1>7
<1>8. CASE reached
  <2>1. pmm' = m.pmm => Left(n - j)'
    BY <1>2, <1>4 DEF Left
  <2> QED
    BY <1>1, <1>6, <1>8, <2>1
<1> QED
  BY <1>7, <1>8

(* Steps that leave memory alone.                                           *)
LEMMA QuietMem ==
    ASSUME MemInv, NEW l, at' = l, at \notin Stopped, UNCHANGED <<all_vars, cr3, tlb, entry>>,
           at' \notin {"exception", "timer", "page_fault"},
           \/ l \in Stopped
           \/ Loc \in BootAt /\ l \in BootAt
           \/ Loc = "rsp0" /\ l = "activate"
           \/ Loc \in ReadyAt /\ l \in ReadyAt
    PROVE  MemInv'
<1>1. Holds(Loc)
  BY DEF MemInv
<1>3. l \notin Stopped => Holds(l)
  <2>1. CASE Loc \in BootAt /\ l \in BootAt
    BY <1>1, <2>1 DEF Holds, BootAt, ReadyAt, UserAt
  <2>2. CASE Loc = "rsp0" /\ l = "activate"
    BY <1>1, <2>2 DEF Holds, BootAt, ReadyAt, UserAt
  <2>3. CASE Loc \in ReadyAt /\ l \in ReadyAt
    BY <1>1, <2>3 DEF Holds, BootAt, ReadyAt, UserAt
  <2> QED
    BY <2>1, <2>2, <2>3
<1>4. l \notin Stopped => Holds(l)'
  BY <1>3, HoldsStill
<1>5. UNCHANGED <<kernel, entry>>
  BY DEF all_vars, fa_vars
<1> QED
  BY <1>4, <1>5, Arrived

(* An event is taken with what code that it interrupts has.                 *)
LEMMA RaiseMem ==
    ASSUME MainInv, MemInv, NEW vector \in 0 .. 32, NEW words, NEW resume,
           Raise(vector, words, resume),
           \/ at = "int3" /\ resume = "pmm"
           \/ at \in UserAt /\ resume \in UserAt,
           UNCHANGED <<all_vars, cr3, tlb, entry>>
    PROVE  MemInv'
<1>1. Done(at, cpu) /\ Context(at, cpu) /\ cpu.frames = << >> /\ IsCpu(cpu)
  BY DEF MainInv, AtGdt, AtIdt, InCode, InHandler, InSyscall, HasStopped, UserAt
<1>2. Segments(cpu) /\ Gates(cpu) /\ (at \in UserAt => EventStack(cpu))
  BY <1>1 DEF Done, AfterRsp0, AfterEfer, AfterMsrs
<1> DEFINE d == delivered(cpu, vector, words, resume)
<1>3. /\ deliverable(cpu, vector)
      /\ IsCpu(d) /\ d.ok = cpu.ok /\ SameTables(cpu, d)
      /\ Len(d.frames) = 1 /\ Tail(d.frames) = << >>
      /\ LET f == Head(d.frames) IN
           /\ f = d.frames[1] /\ Context(at, f) /\ f.words = words /\ f.resume = resume
           /\ f.stack \in KernelStacks
      /\ d.cs = KERNEL_CODE_SELECTOR /\ d.cpl = 0 /\ d.int_flag = FALSE
      /\ d.ss \in {0, KERNEL_DATA_SELECTOR}
  BY <1>1, <1>2, EventDelivered
<1>4. cpu' = d /\ at' \in {"timer", "exception"}
  BY <1>3 DEF Raise
<1> HIDE DEF d
<1>5. Loc' = resume
  BY <1>3, <1>4 DEF Loc
<1>6. Holds(at)
  BY HoldsAt DEF Stopped, UserAt
<1>7. Holds(resume)
  BY <1>6 DEF Holds, BootAt, ReadyAt, UserAt
<1>8. Holds(resume)'
  BY <1>7, HoldsStill
<1>9. Holds(Loc)'
  BY <1>5, <1>8 DEF Holds
<1>10. UNCHANGED <<kernel, entry>>
  BY DEF all_vars, fa_vars
<1> QED
  BY <1>4, <1>9, <1>10 DEF MemInv

(* The handler returns to the code that has it.                             *)
LEMMA ReturnMem ==
    ASSUME MainInv, MemInv, at \in {"exception", "timer"},
           \/ at' = Head(cpu.frames).resume
           \/ at' \in {"undelivered", "lost"},
           UNCHANGED <<all_vars, cr3, tlb, entry>>
    PROVE  MemInv'
<1> DEFINE l == Head(cpu.frames).resume
<1>1. l \in Resumable
  BY DEF MainInv, AtGdt, AtIdt, InCode, InHandler, InSyscall, HasStopped, StartAt, UserAt
<1>2. Loc = l
  BY DEF Loc
<1> HIDE DEF l
<1>3. CASE at' \in {"undelivered", "lost"}
  BY <1>3, QuietMem DEF Stopped
<1>4. CASE at' = l
  <2>1. (Loc \in BootAt /\ l \in BootAt) \/ (Loc \in ReadyAt /\ l \in ReadyAt)
    <3>1. CASE l = "pmm"
      BY <1>2, <3>1 DEF BootAt
    <3>2. CASE l \in UserAt
      <4>1. l \in ReadyAt
        BY <3>2 DEF ReadyAt
      <4> QED
        BY <1>2, <4>1
    <3> QED
      BY <1>1, <3>1, <3>2 DEF Resumable
  <2>2. at \notin Stopped /\ l \notin {"exception", "timer", "page_fault"}
    BY <1>1 DEF Stopped, Resumable, UserAt
  <2> QED
    BY <1>4, <2>1, <2>2, QuietMem
<1> QED
  BY <1>3, <1>4 DEF l

(* User mode, the entries into the kernel and the way back.                 *)
LEMMA ExecuteMem == MainInv /\ MemInv /\ Execute => MemInv'
<1> SUFFICES ASSUME MainInv, MemInv, Execute PROVE MemInv'
  OBVIOUS
<1>0. UNCHANGED <<all_vars, cr3, tlb, entry>>
  BY DEF Execute, enter_ring3, user_syscall, user_fault, syscall_entry, int3, exception_return,
     timer_return, machine
<1>1. CASE int3
  BY <1>0, <1>1, RaiseMem, Steps DEF int3, At
<1>2. CASE exception_return
  BY <1>0, <1>2, ReturnMem DEF exception_return, At
<1>3. CASE timer_return
  BY <1>0, <1>3, ReturnMem DEF timer_return, At
<1>4. CASE enter_ring3
  <2>1. at = "ring3" /\ at' \in {"undelivered", "user", "elsewhere"}
    BY <1>4 DEF enter_ring3, At
  <2> QED
    BY <1>0, <2>1, QuietMem DEF Stopped, ReadyAt, UserAt, Loc
<1>5. CASE user_syscall
  <2>1. at \in UserAt
    BY <1>5 DEF user_syscall, UserAt
  <2>2. CASE cpu.sce
    <3>1. at' = "syscall_entry"
      BY <1>5, <2>2 DEF user_syscall
    <3> QED
      BY <1>0, <2>1, <3>1, QuietMem DEF Stopped, ReadyAt, UserAt, Loc
  <2>3. CASE ~cpu.sce
    BY <1>0, <1>5, <2>1, <2>3, RaiseMem DEF user_syscall
  <2> QED
    BY <2>2, <2>3
<1>6. CASE user_fault
  BY <1>0, <1>6, RaiseMem DEF user_fault, UserAt
<1>7. CASE syscall_entry
  <2>1. InSyscall
    BY <1>7 DEF syscall_entry, At, MainInv, AtGdt, AtIdt, InCode, InHandler, HasStopped,
       StartAt, UserAt
  <2>2. at \in {"syscall_entry", "syscall", "sysret"}
        /\ at' \in {"syscall", "sysret", "user_hlt", "elsewhere"}
    BY <1>7, <2>1 DEF syscall_entry, At, InSyscall
  <2> QED
    BY <1>0, <2>2, QuietMem DEF Stopped, ReadyAt, UserAt, Loc
<1> QED
  BY <1>1, <1>2, <1>3, <1>4, <1>5, <1>6, <1>7 DEF Execute

(* The steps of _start that set up the processor.                           *)
LEMMA SetupMem ==
    ASSUME MainInv, MemInv,
           \/ setup_gdt \/ setup_idt \/ setup_rsp0 \/ self_test \/ run_msr_test
           \/ run_syscall_msr_test \/ call_pic_init
    PROVE  MemInv'
<1>1. ASSUME NEW step \in {"gdt", "idt", "rsp0", "spinlock", "objects", "ipc", "dispatch", "efer",
                          "msrs"}, NEW c, NEW check, Setup(step, c, check)
      PROVE  MemInv'
  <2>1. at = step /\ at' \in {Following(step), "undelivered", "halted"}
        /\ UNCHANGED <<all_vars, cr3, tlb, entry>>
    BY <1>1 DEF Setup, At, machine
  <2>2. Loc = step
    BY <2>1 DEF Loc
  <2>3. CASE step \in {"gdt", "idt"}
    BY <2>1, <2>2, <2>3, Steps, QuietMem DEF Stopped, BootAt
  <2>4. CASE step = "rsp0"
    BY <2>1, <2>2, <2>4, Steps, QuietMem DEF Stopped
  <2>5. CASE step \notin {"gdt", "idt", "rsp0"}
    BY <2>1, <2>2, <2>5, Steps, QuietMem DEF Stopped, ReadyAt
  <2> QED
    BY <2>3, <2>4, <2>5
<1>2. CASE call_pic_init
  <2>1. at = "pic" /\ at' = "ring3" /\ UNCHANGED <<all_vars, cr3, tlb, entry>>
    BY <1>2, Steps DEF call_pic_init, At
  <2> QED
    BY <2>1, QuietMem DEF Stopped, ReadyAt, Loc
<1>3. CASE self_test
  BY <1>1, <1>3 DEF self_test
<1>4. CASE setup_gdt \/ setup_idt
  BY <1>1, <1>4 DEF setup_gdt, setup_idt
<1>5. CASE setup_rsp0
  BY <1>1, <1>5 DEF setup_rsp0
<1>6. CASE run_msr_test \/ run_syscall_msr_test
  BY <1>1, <1>6 DEF run_msr_test, run_syscall_msr_test
<1> QED
  BY <1>2, <1>3, <1>4, <1>5, <1>6

(* The memory that a step leaves is an address space.                       *)
LEMMA SpaceNext ==
    ASSUME NEW r, NEW D, NEW H, Fit(r, D, H, {}), r.root = pml4_phys', pmm' = r.pmm,
           tables' = r.tables
    PROVE  Space(D)' /\ Live(D)' = Rest(r.tables, D)
<1>1. Fit(Whole(r.pmm, r.tables, r.root), D, H, {})
  BY FitWhole
<1>2. mem' = Whole(r.pmm, r.tables, r.root)
  BY DEF mem, Whole, Mem
<1>3. Fit(mem', D, H, {})
  BY <1>1, <1>2
<1> QED
  BY <1>3 DEF Space, Live

(* What is in an address space, and in one that has more.                   *)
LEMMA MoreMapped ==
    ASSUME NEW T, NEW T2, NEW root, Extends(T, T2, root)
    PROVE  /\ LowIn(T, root) => LowIn(T2, root)
           /\ StackIn(T, root) => StackIn(T2, root)
           /\ \A page : CodeIn(T, root, page) => CodeIn(T2, root, page)
           /\ \A c : CachedIn(c, T, root) => CachedIn(c, T2, root)
<1>1. ASSUME NEW v \in Nat, NEW p \in Nat, NEW w, NEW u, NEW n,
             RangeDone(T, root, v, p, w, u, n)
      PROVE  RangeDone(T2, root, v, p, w, u, n)
  <2> SUFFICES ASSUME NEW i \in 0 .. n - 1
               PROVE  /\ MapAllowed(Page(v, i), Page(p, i))
                      /\ Leaf(T2, root, indexes(Page(v, i))) = make_entry(Page(p, i), w, u)
    BY DEF RangeDone
  <2>1. /\ MapAllowed(Page(v, i), Page(p, i))
        /\ Leaf(T, root, indexes(Page(v, i))) = make_entry(Page(p, i), w, u)
    BY <1>1 DEF RangeDone
  <2>2. indexes(Page(v, i)) \in Indexes
    BY PageNat, IndexDigits
  <2>3. make_entry(Page(p, i), w, u).present
    BY DEF make_entry
  <2> QED
    BY <2>1, <2>2, <2>3 DEF Extends
<1>2. LowIn(T, root) => LowIn(T2, root)
  <2> DEFINE z == 0
             w == TRUE
             u == FALSE
  <2>1. z \in Nat
    OBVIOUS
  <2>2. LowIn(T, root) => RangeDone(T, root, z, z, w, u, LowPages)
    BY DEF LowIn
  <2> HIDE DEF z, w, u
  <2>3. LowIn(T, root) => RangeDone(T2, root, z, z, w, u, LowPages)
    BY <1>1, <2>1, <2>2
  <2> QED
    BY <2>3 DEF LowIn, z, w, u
<1>3. StackIn(T, root) => StackIn(T2, root)
  <2> DEFINE w == TRUE
  <2>1. USER_STACK_VADDR \in Nat /\ USER_STACK \in Nat
    BY MainAssumption
  <2>2. StackIn(T, root) => RangeDone(T, root, USER_STACK_VADDR, USER_STACK, w, w, USER_STACK_PAGES)
    BY DEF StackIn
  <2> HIDE DEF w
  <2>3. StackIn(T, root) => RangeDone(T2, root, USER_STACK_VADDR, USER_STACK, w, w, USER_STACK_PAGES)
    BY <1>1, <2>1, <2>2
  <2> QED
    BY <2>3 DEF StackIn, w
<1>4. \A page : CodeIn(T, root, page) => CodeIn(T2, root, page)
  <2>1. indexes(USER_CODE_VADDR) \in Indexes
    BY MainAssumption, IndexDigits
  <2>2. \A page : make_entry(page, TRUE, TRUE).present
    BY DEF make_entry
  <2> QED
    BY <2>1, <2>2 DEF CodeIn, Extends
<1>5. \A c : CachedIn(c, T, root) => CachedIn(c, T2, root)
  <2>1. \A va \in Nat : indexes(va) \in Indexes
    BY IndexDigits
  <2> QED
    BY <2>1 DEF CachedIn, Extends
<1> QED
  BY <1>2, <1>3, <1>4, <1>5

(* FrameAllocator::initialize.                                              *)
LEMMA PmmMem ==
    ASSUME MemInv, pmm_initialize
    PROVE  MemInv'
<1>1. at = "pmm" /\ initialize
      /\ at' = (IF phase' = "ready" THEN "frames" ELSE "pmm")
      /\ UNCHANGED <<tables, pml4_phys, heap, cr3, tlb, entry>>
  BY Steps DEF pmm_initialize, At, vm_vars, machine
<1>2. Holds("pmm")
  BY <1>1, HoldsAt DEF Stopped
<1>3. Unloaded /\ Booting
  BY <1>2 DEF Holds, BootAt, ReadyAt, UserAt
<1>4. IInv'
  BY <1>1, <1>3, NextIInv DEF Next, Booting
<1>5. pmm'.allocated = {}
  BY <1>1, <1>3 DEF Booting, initialize, initialize_start, initialize_release,
     initialize_reserve, release, reserve_range, reserve
<1>6. Unloaded' /\ Booting'
  BY <1>1, <1>3, <1>4, <1>5 DEF Unloaded, Booting
<1>7. kernel' = kernel
  BY <1>1 DEF initialize, initialize_start, initialize_release, initialize_reserve
<1>8. CASE phase' = "ready"
  <2>1. Holds("frames")'
    BY <1>6, <1>8 DEF Holds, AtFrames
  <2> QED
    BY <1>1, <1>7, <1>8, <2>1, Arrived
<1>9. CASE phase' # "ready"
  <2>1. Holds("pmm")'
    BY <1>6 DEF Holds, BootAt
  <2> QED
    BY <1>1, <1>7, <1>9, <2>1, Arrived
<1> QED
  BY <1>8, <1>9

(* Giving a frame back takes none.                                          *)
LEMMA FreedOK ==
    ASSUME NEW p, PmmOK(p), NEW a
    PROVE  PmmOK(freed(p, a)) /\ freed(p, a).used \subseteq p.used
  BY DEF PmmOK, freed

(* allocate_frame, whether or not a frame is left.                          *)
LEMMA AllocatedOne ==
    ASSUME NEW p, PmmOK(p)
    PROVE  /\ PmmOK(allocated_one(p)) /\ p.allocated \subseteq allocated_one(p).allocated
           /\ HasFree(p) => first_free(p) \in allocated_one(p).allocated
           /\ \A n \in Nat : n >= 1 /\ Spare(p, n) => Spare(allocated_one(p), n - 1)
<1>1. CASE HasFree(p)
  <2> DEFINE q == mark_allocated(p, first_free(p))
  <2>1. allocated_one(p) = q
    BY <1>1 DEF allocated_one
  <2>2. PmmOK(q) /\ q.allocated = p.allocated \cup {first_free(p)}
    BY <1>1, TakeOne
  <2>3. \A n \in Nat : n >= 1 /\ Spare(p, n) => Spare(q, n - 1)
    BY TakeLow
  <2> HIDE DEF q
  <2> QED
    BY <2>1, <2>2, <2>3
<1>2. CASE ~HasFree(p)
  <2>1. allocated_one(p) = p
    BY <1>2 DEF allocated_one
  <2>2. \A n \in Nat : n >= 1 /\ Spare(p, n) => FALSE
    BY <1>2, TakeLow
  <2> QED
    BY <1>2, <2>1, <2>2
<1> QED
  BY <1>1, <1>2

(* The first of the three frames is there again, so two are spent.          *)
LEMMA FramesTest ==
    ASSUME NEW p, PmmOK(p)
    PROVE  PmmOK(frames_test(p)) /\ (Spare(p, 15) => Spare(frames_test(p), 13))
<1> DEFINE p1 == allocated_one(p)
           p2 == allocated_one(p1)
           p3 == allocated_one(p2)
           f == first_free(p)
           a == f * FRAME_SIZE
           back == IF HasFree(p) THEN freed(p3, a) ELSE p3
<1>1. /\ PmmOK(p1) /\ (HasFree(p) => f \in p1.allocated)
      /\ \A n \in Nat : n >= 1 /\ Spare(p, n) => Spare(p1, n - 1)
  BY AllocatedOne
<1>2. frames_test(p) = freed(back, 0)
  BY DEF frames_test
<1> HIDE DEF p1
<1>3. /\ PmmOK(p2) /\ p1.allocated \subseteq p2.allocated
      /\ \A n \in Nat : n >= 1 /\ Spare(p1, n) => Spare(p2, n - 1)
  BY <1>1, AllocatedOne
<1> HIDE DEF p2
<1>4. /\ PmmOK(p3) /\ p2.allocated \subseteq p3.allocated
      /\ \A n \in Nat : n >= 1 /\ Spare(p2, n) => Spare(p3, n - 1)
  BY <1>3, AllocatedOne
<1> HIDE DEF p3
<1>5. PmmOK(back)
  BY <1>4, FreedOK
<1>6. Spare(p, 15) => Spare(back, 13)
  <2> SUFFICES ASSUME Spare(p, 15) PROVE Spare(back, 13)
    OBVIOUS
  <2>1. HasFree(p) /\ a < IDENTITY_END
    <3> DEFINE n == 15
    <3>1. n \in Nat /\ n >= 1 /\ Spare(p, n)
      OBVIOUS
    <3> HIDE DEF n
    <3> QED
      BY <3>1, TakeLow
  <2>2. Spare(p1, 14)
    BY <1>1
  <2>3. Spare(p2, 13)
    BY <1>3, <2>2
  <2>4. Spare(p3, 12)
    BY <1>4, <2>3
  <2>5. f \in p3.allocated /\ f \in Frames /\ f \in Nat
    BY <1>1, <1>3, <1>4, <2>1, Handed
  <2>6. a % FRAME_SIZE = 0 /\ a \div FRAME_SIZE = f
    BY <2>5, FrameAddress
  <2> HIDE DEF a
  <2>7. frees(p3, a)
    BY <2>5, <2>6, FrameAssumption DEF frees, Frames
  <2>8. back.used = p3.used \ {f}
    BY <2>1, <2>6, <2>7 DEF freed
  <2>9. f \in p3.used
    BY <1>4, <2>5 DEF PmmOK
  <2> HIDE DEF back
  <2>10. LowFree(back) = LowFree(p3) \cup {f} /\ f \notin LowFree(p3)
    <3>1. f * FRAME_SIZE < IDENTITY_END
      BY <2>1 DEF a
    <3> HIDE DEF f
    <3> QED
      BY <3>1, <2>5, <2>8, <2>9 DEF LowFree
  <2>11. Cardinality(LowFree(back)) = Cardinality(LowFree(p3)) + 1
    BY <2>10, LowFinite, FS_AddElement
  <2>12. Cardinality(LowFree(p3)) \in Nat
    BY LowFinite
  <2> QED
    BY <2>4, <2>11, <2>12 DEF Spare
<1> HIDE DEF back
<1>7. PmmOK(freed(back, 0)) /\ freed(back, 0).used \subseteq back.used
  BY <1>5, FreedOK
<1>8. Spare(back, 13) => Spare(freed(back, 0), 13)
  <2> DEFINE n == 13
             q == freed(back, 0)
  <2>1. n \in Nat /\ q.used \subseteq back.used
    BY <1>7
  <2> HIDE DEF n, q
  <2>2. Spare(back, n) => Spare(q, n)
    BY <2>1, SpareMore
  <2> QED
    BY <2>2 DEF n, q
<1> QED
  BY <1>2, <1>6, <1>7, <1>8

(* run_physical_memory_test.                                                *)
LEMMA FramesMem ==
    ASSUME MemInv, use_frames
    PROVE  MemInv'
<1> DEFINE m == [mem EXCEPT !.pmm = frames_test(@)]
<1>1. Memory("frames", m, TRUE)
  BY DEF use_frames
<1>2. m.tables = tables /\ m.pmm = frames_test(pmm)
  BY DEF mem
<1> HIDE DEF m
<1>3. at = "frames" /\ at' = "scratch" /\ pmm' = frames_test(pmm) /\ tables' = tables
      /\ UNCHANGED <<memory_map, kernel, cr3, tlb, entry>>
  BY <1>1, <1>2, Steps DEF Memory, At, machine
<1>4. Holds("frames")
  BY <1>3, HoldsAt DEF Stopped
<1>5. Unloaded /\ Booting /\ phase = "ready"
  BY <1>4 DEF Holds, AtFrames, BootAt, ReadyAt, UserAt
<1>6. PmmOK(pmm)
  BY <1>5 DEF Booting, IInv, TypeOK, PmmOK
<1>7. Enough => Spare(pmm, 15)
  <2>1. \A f \in Frames : f \notin pmm.used <=> Usable(f) /\ ~Reserved(f)
    BY <1>5 DEF Booting, IInv, FreeExactly
  <2>2. LowFree(pmm) = LowFrames
    BY <2>1 DEF LowFree, LowFrames
  <2> QED
    BY <2>2 DEF Enough, Spare, FRAMES_TO_LAST_TABLE
<1>8. Left(13)'
  BY <1>3, <1>6, <1>7, FramesTest, StillEnough DEF Left
<1>9. PmmOK(pmm')
  BY <1>3, <1>6, FramesTest
<1>10. Holds("scratch")'
  BY <1>3, <1>5, <1>8, <1>9 DEF Holds, AtScratch, Unloaded, Booting
<1> QED
  BY <1>3, <1>10, Arrived

(* mem is a memory.                                                         *)
LEMMA MemOfVars ==
    IsMem(mem) /\ mem.pmm = pmm /\ mem.tables = tables /\ mem.root = pml4_phys /\ mem.ok
<1> DEFINE m == Whole(pmm, tables, pml4_phys)
<1>1. IsMem(m) /\ m.pmm = pmm /\ m.tables = tables /\ m.root = pml4_phys /\ m.ok
  BY WholeFields, Zenon
<1>2. mem = m
  BY MemIsWhole
<1> HIDE DEF m
<1> QED
  BY <1>1, <1>2, Zenon

(* Where a step of _start that maps is, and what Memory makes of it.        *)
LEMMA NotElsewhere ==
    /\ "scratch" \notin Stopped /\ "new" \notin Stopped /\ "identity" \notin Stopped
    /\ "test_map" \notin Stopped /\ "test_unmap" \notin Stopped /\ "user_code" \notin Stopped
    /\ "user_stack" \notin Stopped /\ "rsp0" \notin Stopped /\ "activate" \notin Stopped
    /\ "heap" \notin Stopped
    /\ "halted" \in Stopped /\ "page_fault" \in Stopped
  BY DEF Stopped

(* The end of such a step.                                                  *)
LEMMA MemoryDone ==
    ASSUME MemInv, UNCHANGED <<kernel, entry>>, NEW l, l \notin {"exception", "timer"},
           \/ at' = "page_fault" /\ ~Enough'
           \/ at' = "halted"
           \/ at' = l /\ Holds(l)'
    PROVE  MemInv'
<1>1. CASE at' = "page_fault" /\ ~Enough'
  BY <1>1, Arrived DEF Stopped
<1>2. CASE at' = "halted"
  BY <1>2, Arrived DEF Stopped
<1>3. CASE at' = l /\ Holds(l)' /\ at' # "page_fault"
  BY <1>3, Arrived
<1>4. CASE at' = l /\ Holds(l)' /\ at' = "page_fault"
  BY <1>4 DEF Holds, BootAt, ReadyAt, UserAt
<1> QED
  BY <1>1, <1>2, <1>3, <1>4

(* A page is mapped in new tables.                                          *)
LEMMA ScratchFits ==
    ASSUME PmmOK(pmm), HasFree(pmm), DOMAIN tables = {}
    PROVE  LET r == map(with_table(mem), USER_CODE_VADDR, TEST_PHYSICAL, TRUE, FALSE)
           IN  /\ Spends(mem, r, 4) /\ PmmOK(r.pmm) /\ Kept(DOMAIN r.tables, r.pmm.allocated)
<1> DEFINE m == with_table(mem)
           w == TRUE
           u == FALSE
           r == map(m, USER_CODE_VADDR, TEST_PHYSICAL, w, u)
           D == DOMAIN mem.tables
           H == mem.pmm.allocated
           S == {}
           ix == indexes(USER_CODE_VADDR)
           T == Rest(m.tables, D)
           k == 0
<1>1. IsMem(mem) /\ mem.pmm = pmm /\ mem.tables = tables /\ mem.ok
  BY MemOfVars
<1>2. Kept(D, H)
  BY <1>1 DEF Kept
<1>3. Fit(m, D, H, S) /\ m.ok = mem.ok
  BY <1>1, <1>2, RootFits
<1>4. Spends(mem, m, 1)
  BY <1>1, NewSpends
<1>5. w \in BOOLEAN /\ u \in BOOLEAN /\ USER_CODE_VADDR \in Nat /\ TEST_PHYSICAL \in Nat
  BY MainAssumption
<1>6. Has(T, m.root, ix, k) /\ k \in 0 .. 3 /\ 3 - k = 3
  BY HasNone
<1> HIDE DEF m, w, u, D, H, S, k
<1>7. m.ok
  BY <1>1, <1>3
<1>8. Fitted(m, r, D, H, S, USER_CODE_VADDR, TEST_PHYSICAL, w, u)
  BY <1>3, <1>5, <1>7, MapFits
<1> HIDE DEF r
<1>9. Fit(r, D, H, S) /\ Spends(m, r, 3 - k)
  BY <1>6, <1>8 DEF Fitted
<1>10. Spends(mem, r, 1 + 3)
  BY <1>4, <1>6, <1>9, SpendsBoth
<1>11. PmmOK(r.pmm) /\ Kept(DOMAIN r.tables, r.pmm.allocated)
  BY <1>9, FitTables
<1>12. 1 + 3 = 4
  OBVIOUS
<1> QED
  BY <1>10, <1>11, <1>12 DEF r, m, w, u

(* run_page_table_test.                                                     *)
LEMMA ScratchMem ==
    ASSUME MemInv, scratch_map
    PROVE  MemInv'
<1> DEFINE m == IF HasFree(pmm)
                THEN map(with_table(mem), USER_CODE_VADDR, TEST_PHYSICAL, TRUE, FALSE) ELSE mem
<1>1. Memory("scratch", m, TRUE)
  BY DEF scratch_map
<1>2. at = "scratch"
  BY <1>1 DEF Memory, At
<1>3. Holds("scratch")
  BY <1>2, HoldsAt, NotElsewhere
<1>4. Unloaded /\ PmmOK(pmm) /\ DOMAIN tables = {} /\ Left(13)
  BY <1>3 DEF Holds, AtScratch, BootAt, ReadyAt, UserAt
<1>5. Spends(mem, m, 4) /\ PmmOK(m.pmm) /\ Kept(DOMAIN m.tables, m.pmm.allocated)
  <2>1. CASE HasFree(pmm)
    BY <1>4, <2>1, ScratchFits
  <2>2. CASE ~HasFree(pmm)
    <3>1. m = mem /\ mem.pmm = pmm /\ mem.tables = tables
      BY <2>2, MemOfVars
    <3> HIDE DEF m
    <3>2. Spends(mem, m, 0)
      BY <3>1, SpendsNothing
    <3>3. Spends(mem, m, 4)
      BY <3>2, SpendsLess
    <3> QED
      BY <1>4, <3>1, <3>3 DEF Kept
  <2> QED
    BY <2>1, <2>2
<1> HIDE DEF m
<1>6. /\ UNCHANGED <<kernel, cr3, tlb, entry>>
      /\ \/ at' = "page_fault" /\ ~Enough'
         \/ at' = "halted"
         \/ at' = "new" /\ pmm' = m.pmm /\ tables' = m.tables /\ Left(9)'
  <2> DEFINE n == 13
             j == 4
             step == "scratch"
  <2>1. n \in Nat /\ j \in Nat /\ j <= n /\ n - j = 9 /\ Following(step) = "new"
    BY Steps
  <2>2. Left(n) /\ Spends(mem, m, j) /\ Memory(step, m, TRUE) /\ cr3 = "boot"
    BY <1>1, <1>4, <1>5 DEF Unloaded
  <2> HIDE DEF n, j, step
  <2>3. /\ UNCHANGED <<memory_map, kernel, phase, next, cr3, tlb, entry, cpu>>
        /\ \/ at' = "page_fault" /\ ~Enough'
           \/ at' = "halted"
           \/ at' = Following(step) /\ pmm' = m.pmm /\ tables' = m.tables /\ Left(n - j)'
    BY <2>1, <2>2, MemoryStep
  <2> QED
    BY <2>1, <2>3 DEF Left
<1>7. CASE at' = "new"
  <2>1. Unloaded' /\ AtNew'
    BY <1>4, <1>5, <1>6, <1>7, NotElsewhere DEF Unloaded, AtNew, Stopped
  <2>2. Holds("new")'
    BY <2>1 DEF Holds
  <2> QED
    BY <1>6, <1>7, <2>2, MemoryDone
<1>8. CASE at' # "new"
  BY <1>6, <1>8, MemoryDone
<1> QED
  BY <1>7, <1>8

(* A step that leaves an address space, before CR3 is loaded.               *)
SpaceOr(step, check, m, D, n) ==
    /\ UNCHANGED <<kernel, entry>>
    /\ \/ at' = "page_fault" /\ ~Enough'
       \/ at' = "halted"
       \/ /\ check /\ at' = Following(step)
          /\ Unloaded' /\ Space(D)' /\ Live(D)' = Rest(m.tables, D) /\ Left(n)'

(* A step of _start that passes the memory m on does this.                  *)
LEMMA SpaceStep ==
    ASSUME MemInv, NEW step, NEW m, NEW check, Memory(step, m, check), Unloaded,
           NEW n \in Nat, NEW j \in Nat, j <= n, Left(n), Spends(mem, m, j),
           NEW D, NEW H, Fit(m, D, H, {}), at' = Following(step) => m.root = pml4_phys'
    PROVE  SpaceOr(step, check, m, D, n - j)
<1>1. cr3 = "boot"
  BY DEF Unloaded
<1>2. /\ UNCHANGED <<memory_map, kernel, phase, next, cr3, tlb, entry, cpu>>
      /\ \/ at' = "page_fault" /\ ~Enough'
         \/ at' = "halted"
         \/ /\ check /\ at' = Following(step)
            /\ pmm' = m.pmm /\ tables' = m.tables /\ Left(n - j)'
  BY <1>1, MemoryStep
<1>3. Unloaded'
  BY <1>2 DEF Unloaded
<1>4. ASSUME at' = Following(step), pmm' = m.pmm, tables' = m.tables
      PROVE  Space(D)' /\ Live(D)' = Rest(m.tables, D)
  BY <1>4, SpaceNext
<1> QED
  BY <1>2, <1>3, <1>4 DEF SpaceOr

(* AddressSpace::new.                                                       *)
LEMMA NewMem ==
    ASSUME MemInv, address_space_new
    PROVE  MemInv'
<1> DEFINE m == IF HasFree(pmm) THEN with_table(mem) ELSE mem
<1>1. Memory("new", m, HasFree(pmm)) /\ (at' = "identity" => pml4_phys' = m.root)
  BY Steps DEF address_space_new
<1>2. at = "new"
  BY <1>1 DEF Memory, At
<1>3. Holds("new")
  BY <1>2, HoldsAt, NotElsewhere
<1>4. Unloaded /\ AtNew
  BY <1>3 DEF Holds, BootAt, ReadyAt, UserAt
<1>5. CASE ~HasFree(pmm)
  <2>1. m = mem /\ mem.pmm = pmm /\ mem.tables = tables
    BY <1>5, MemOfVars
  <2> HIDE DEF m
  <2>2. at' = "halted" /\ UNCHANGED <<kernel, entry>>
    BY <1>1, <1>5, <2>1 DEF Memory, machine
  <2> QED
    BY <2>2, Arrived DEF Stopped
<1>6. CASE HasFree(pmm)
  <2> DEFINE D == DOMAIN tables
             H == pmm.allocated
             n == 9
             j == 1
             step == "new"
  <2>1. m = with_table(mem)
    BY <1>6
  <2>2. PmmOK(pmm) /\ Kept(D, H) /\ Left(n)
    BY <1>4 DEF AtNew
  <2> HIDE DEF m
  <2>3. Fit(m, D, H, {}) /\ Spends(mem, m, j)
    BY <1>6, <2>1, <2>2, MemOfVars, RootFits, NewSpends
  <2>4. n \in Nat /\ j \in Nat /\ j <= n /\ n - j = 8 /\ Following(step) = "identity"
    BY Steps
  <2>5. Memory(step, m, HasFree(pmm)) /\ (at' = Following(step) => m.root = pml4_phys')
    BY <1>1, <2>4
  <2> HIDE DEF D, H, n, j, step
  <2>6. SpaceOr(step, HasFree(pmm), m, D, n - j)
    BY <1>4, <2>2, <2>3, <2>4, <2>5, SpaceStep
  <2>7. SpaceOr("new", HasFree(pmm), m, D, 8)
    BY <2>4, <2>6 DEF step
  <2>8. CASE at' = "identity"
    <3>1. Unloaded' /\ AtIdentity'
      BY <2>7, <2>8 DEF SpaceOr, AtIdentity
    <3>2. Holds("identity")'
      BY <3>1 DEF Holds
    <3> QED
      BY <2>7, <2>8, <3>2, MemoryDone DEF SpaceOr
  <2>9. CASE at' # "identity"
    BY <2>7, <2>9, Steps, MemoryDone DEF SpaceOr
  <2> QED
    BY <2>8, <2>9
<1> QED
  BY <1>5, <1>6

(* The identity map.                                                        *)
LEMMA IdentityMem ==
    ASSUME MemInv, map_identity
    PROVE  MemInv'
<1> DEFINE m == identity_map(mem, 0, IDENTITY_END, TRUE)
<1>1. Memory("identity", m, m.ok) /\ pml4_phys' = pml4_phys
  BY DEF map_identity
<1>2. at = "identity"
  BY <1>1 DEF Memory, At
<1>3. Holds("identity")
  BY <1>2, HoldsAt, NotElsewhere
<1>4. Unloaded /\ AtIdentity
  BY <1>3 DEF Holds, BootAt, ReadyAt, UserAt
<1>5. PICK D : Space(D)
  BY <1>4 DEF AtIdentity
<1>6. PICK H : Fit(mem, D, H, {})
  BY <1>5 DEF Space
<1> DEFINE n == 8
           j == 3
           S == {}
           step == "identity"
<1>7. Fit(m, D, H, S) /\ m.root = pml4_phys /\ Spends(mem, m, j)
      /\ (m.ok => LowIn(Rest(m.tables, D), pml4_phys))
  <2>1. mem.ok /\ mem.root = pml4_phys
    BY MemOfVars
  <2>2. Fit(mem, D, H, S)
    BY <1>6
  <2> HIDE DEF S
  <2>3. /\ Fit(m, D, H, S) /\ m.root = mem.root /\ Spends(mem, m, 3)
        /\ m.ok => RangeDone(Rest(m.tables, D), mem.root, 0, 0, TRUE, FALSE, LowPages)
    BY <2>1, <2>2, IdentityFits
  <2> HIDE DEF m
  <2> QED
    BY <2>1, <2>3, Zenon DEF LowIn
<1> HIDE DEF m
<1>8. n \in Nat /\ j \in Nat /\ j <= n /\ n - j = 5 /\ Following(step) = "test_map" /\ Left(n)
      /\ Memory(step, m, m.ok) /\ (at' = Following(step) => m.root = pml4_phys')
  BY <1>1, <1>4, <1>7, Steps DEF AtIdentity
<1> HIDE DEF n, j, step
<1>9. SpaceOr(step, m.ok, m, D, n - j)
  BY <1>4, <1>7, <1>8, SpaceStep
<1>10. SpaceOr("identity", m.ok, m, D, 5)
  BY <1>8, <1>9 DEF step
<1>11. CASE at' = "test_map"
  <2>1. Unloaded' /\ Left(5)' /\ Space(D)' /\ Live(D)' = Rest(m.tables, D) /\ m.ok
        /\ UNCHANGED <<kernel, entry>>
    BY <1>10, <1>11 DEF SpaceOr
  <2>2. LowIn(Live(D), pml4_phys)'
    BY <1>1, <1>7, <2>1
  <2>3. AtTestMap'
    BY <2>1, <2>2 DEF AtTestMap
  <2>4. Holds("test_map")'
    BY <2>1, <2>3 DEF Holds
  <2> QED
    BY <1>11, <2>1, <2>4, MemoryDone
<1>12. CASE at' # "test_map"
  BY <1>10, <1>12, Steps, MemoryDone DEF SpaceOr
<1> QED
  BY <1>11, <1>12

(* What the first pages give the walks that share their tables.             *)
LEMMA LowShared ==
    ASSUME NEW T, NEW root, LowIn(T, root)
    PROVE  /\ Has(T, root, indexes(USER_CODE_VADDR), 2)
           /\ Has(T, root, indexes(USER_STACK_VADDR), 2)
           /\ Has(T, root, indexes(HEAP_START), 1)
<1>1. LowPages \in Nat /\ LowPages >= 1
  <2>1. IDENTITY_END \in Nat /\ PAGE_SIZE \in Nat \ {0}
    BY FrameAssumption, MainAssumption DEF PAGE_SIZE
  <2>2. /\ LowPages \in Nat /\ IDENTITY_END % PAGE_SIZE = 0
        /\ IDENTITY_END = LowPages * PAGE_SIZE + (IDENTITY_END % PAGE_SIZE)
    BY <2>1, DivMod, AddressAssumption DEF LowPages
  <2>3. IDENTITY_END > 0
    BY AddressAssumption
  <2> HIDE DEF LowPages
  <2>4. LowPages # 0
    BY <2>1, <2>2, <2>3
  <2> QED
    BY <2>2, <2>4
<1>2. Page(0, 0) = 0
  BY FrameAssumption DEF Page, PAGE_SIZE
<1>3. Leaf(T, root, indexes(0)).present
  <2>1. 0 \in 0 .. LowPages - 1
    BY <1>1
  <2>2. Leaf(T, root, indexes(Page(0, 0))) = make_entry(Page(0, 0), TRUE, FALSE)
    BY <2>1 DEF LowIn, RangeDone
  <2> QED
    BY <1>2, <2>2 DEF make_entry
<1> DEFINE z == 0
<1>4. Arrives(T, root, indexes(z))
  BY <1>3, LeafArrives
<1>5. Shares(z, USER_CODE_VADDR, 2) /\ Shares(z, USER_STACK_VADDR, 2) /\ Shares(z, HEAP_START, 1)
  BY AddressAssumption
<1> HIDE DEF z
<1> DEFINE i == 1
           j == 2
<1>6. i \in 0 .. 3 /\ j \in 0 .. 3
  OBVIOUS
<1>7. Shares(z, USER_CODE_VADDR, j) /\ Shares(z, USER_STACK_VADDR, j) /\ Shares(z, HEAP_START, i)
  BY <1>5
<1> HIDE DEF i, j
<1>8. /\ Has(T, root, indexes(USER_CODE_VADDR), j)
      /\ Has(T, root, indexes(USER_STACK_VADDR), j)
      /\ Has(T, root, indexes(HEAP_START), i)
  BY <1>4, <1>6, <1>7, SharesHas
<1> QED
  BY <1>8 DEF i, j

(* One page is mapped in the address space.                                 *)
MapsIn(r, D, H, va, pa, w, u, j) ==
    LET ix == indexes(va)
        T == Live(D)
        T2 == Rest(r.tables, D)
    IN  /\ Fit(r, D, H, {}) /\ r.root = pml4_phys /\ Spends(mem, r, j)
        /\ r.ok => /\ ~Leaf(T, pml4_phys, ix).present
                   /\ Leaf(T2, pml4_phys, ix) = make_entry(pa, w, u)
                   /\ Extends(T, T2, pml4_phys)

(* map, called by a step of _start.                                         *)
LEMMA MapSpace ==
    ASSUME NEW D, NEW H, Fit(mem, D, H, {}), NEW va \in Nat, NEW pa \in Nat,
           NEW w \in BOOLEAN, NEW u \in BOOLEAN, NEW k \in 0 .. 3,
           Has(Live(D), pml4_phys, indexes(va), k)
    PROVE  MapsIn(map(mem, va, pa, w, u), D, H, va, pa, w, u, 3 - k)
<1> DEFINE r == map(mem, va, pa, w, u)
           S == {}
<1>1. mem.ok /\ mem.root = pml4_phys /\ mem.tables = tables
  BY MemOfVars
<1>2. Fit(mem, D, H, S)
  OBVIOUS
<1>a. S = {}
  OBVIOUS
<1> HIDE DEF S
<1>3. Fitted(mem, r, D, H, S, va, pa, w, u)
  BY <1>1, <1>2, MapFits
<1> HIDE DEF r
<1>4. Rest(mem.tables, D) = Live(D)
  BY <1>1 DEF Live
<1>5. Fit(r, D, H, {}) /\ r.root = pml4_phys
  BY <1>1, <1>3, <1>a DEF Fitted
<1>6. Spends(mem, r, 3 - k)
  BY <1>1, <1>3, <1>4 DEF Fitted
<1>7. r.ok => /\ ~Leaf(Live(D), pml4_phys, indexes(va)).present
              /\ Leaf(Rest(r.tables, D), pml4_phys, indexes(va)) = make_entry(pa, w, u)
              /\ Extends(Live(D), Rest(r.tables, D), pml4_phys)
  BY <1>1, <1>3, <1>4 DEF Fitted
<1> QED
  BY <1>5, <1>6, <1>7 DEF MapsIn, r

(* The user's code is mapped as a test.                                     *)
LEMMA TestMapMem ==
    ASSUME MemInv, test_map
    PROVE  MemInv'
<1> DEFINE w == TRUE
           u == FALSE
           m == map(mem, USER_CODE_VADDR, TEST_PHYSICAL, w, u)
           check == m.ok /\ translate(m.tables, USER_CODE_VADDR) = TEST_PHYSICAL
<1>1. Memory("test_map", m, check) /\ pml4_phys' = pml4_phys
  BY DEF test_map
<1>2. at = "test_map"
  BY <1>1 DEF Memory, At
<1>3. Holds("test_map")
  BY <1>2, HoldsAt, NotElsewhere
<1>4. Unloaded /\ AtTestMap
  BY <1>3 DEF Holds, BootAt, ReadyAt, UserAt
<1>5. PICK D : Space(D) /\ LowIn(Live(D), pml4_phys)
  BY <1>4 DEF AtTestMap
<1>6. PICK H : Fit(mem, D, H, {})
  BY <1>5 DEF Space
<1> DEFINE n == 5
           k == 2
           j == 3 - k
           step == "test_map"
<1>7. w \in BOOLEAN /\ u \in BOOLEAN /\ k \in 0 .. 3 /\ Has(Live(D), pml4_phys, indexes(USER_CODE_VADDR), k)
  BY <1>5, LowShared
<1>8. USER_CODE_VADDR \in Nat /\ TEST_PHYSICAL \in Nat
  BY MainAssumption
<1>9. n \in Nat /\ j \in Nat /\ j <= n /\ n - j = 4 /\ Following(step) = "test_unmap" /\ Left(n)
  BY <1>4, Steps DEF AtTestMap
<1> HIDE DEF w, u, n, k
<1>10. MapsIn(m, D, H, USER_CODE_VADDR, TEST_PHYSICAL, w, u, j)
  BY <1>6, <1>7, <1>8, MapSpace
<1> HIDE DEF m, j
<1>11. check => m.ok
  OBVIOUS
<1>12. Fit(m, D, H, {}) /\ m.root = pml4_phys /\ Spends(mem, m, j)
  BY <1>10 DEF MapsIn
<1>13. Memory(step, m, check) /\ (at' = Following(step) => m.root = pml4_phys')
  BY <1>1, <1>12
<1> HIDE DEF step, check
<1>14. SpaceOr(step, check, m, D, n - j)
  BY <1>4, <1>9, <1>12, <1>13, SpaceStep
<1>15. SpaceOr("test_map", check, m, D, 4)
  BY <1>9, <1>14 DEF step
<1>16. CASE at' = "test_unmap"
  <2>1. Unloaded' /\ Left(4)' /\ Space(D)' /\ Live(D)' = Rest(m.tables, D) /\ m.ok
        /\ UNCHANGED <<kernel, entry>>
    BY <1>11, <1>15, <1>16 DEF SpaceOr
  <2>2. Extends(Live(D), Rest(m.tables, D), pml4_phys)
        /\ ~Leaf(Live(D), pml4_phys, indexes(USER_CODE_VADDR)).present
    BY <1>10, <2>1 DEF MapsIn
  <2>3. LowIn(Live(D), pml4_phys)'
    BY <1>1, <1>5, <2>1, <2>2, MoreMapped
  <2>4. Beside
    <3> SUFFICES ASSUME NEW i \in 0 .. LowPages - 1
                 PROVE  indexes(Page(0, i)) # indexes(USER_CODE_VADDR)
      BY DEF Beside
    <3>1. Leaf(Live(D), pml4_phys, indexes(Page(0, i))) = make_entry(Page(0, i), TRUE, FALSE)
      BY <1>5 DEF LowIn, RangeDone
    <3>2. make_entry(Page(0, i), TRUE, FALSE).present
      BY DEF make_entry
    <3> QED
      BY <2>2, <3>1, <3>2
  <2>5. AtTestUnmap'
    BY <2>1, <2>3, <2>4 DEF AtTestUnmap, Beside
  <2>6. Holds("test_unmap")'
    BY <2>1, <2>5 DEF Holds
  <2> QED
    BY <1>16, <2>1, <2>6, MemoryDone
<1>17. CASE at' # "test_unmap"
  BY <1>15, <1>17, Steps, MemoryDone DEF SpaceOr
<1> QED
  BY <1>16, <1>17

(* Without the user's code the first pages are still mapped.                *)
LEMMA LowWithout ==
    ASSUME NEW T, NEW T2, NEW root, LowIn(T, root), Beside,
           \A jx \in Indexes \ {indexes(USER_CODE_VADDR)} : Leaf(T2, root, jx) = Leaf(T, root, jx)
    PROVE  LowIn(T2, root)
<1> SUFFICES ASSUME NEW i \in 0 .. LowPages - 1
             PROVE  /\ MapAllowed(Page(0, i), Page(0, i))
                    /\ Leaf(T2, root, indexes(Page(0, i))) = make_entry(Page(0, i), TRUE, FALSE)
  BY DEF LowIn, RangeDone
<1>1. /\ MapAllowed(Page(0, i), Page(0, i))
      /\ Leaf(T, root, indexes(Page(0, i))) = make_entry(Page(0, i), TRUE, FALSE)
  BY DEF LowIn, RangeDone
<1>2. indexes(Page(0, i)) # indexes(USER_CODE_VADDR)
  BY DEF Beside
<1>3. indexes(Page(0, i)) \in Indexes
  <2>1. i \in Nat
    OBVIOUS
  <2>2. Page(0, i) \in Nat
    BY <2>1, PageNat
  <2> QED
    BY <2>2, IndexDigits
<1> QED
  BY <1>1, <1>2, <1>3

(* What the leaves say of the tables.                                       *)
LEMMA SpaceWalk ==
    ASSUME NEW D, Space(D), NEW va \in Nat
    PROVE  LET e == Leaf(Live(D), pml4_phys, indexes(va))
           IN  /\ IsMapped(tables, va) <=> e.present
               /\ e.present => /\ Granted(walk(tables, va)) = Mapping(e)
                               /\ walk(tables, va)[4] = e
<1>1. PICK H : Fit(mem, D, H, {})
  BY DEF Space
<1>2. mem.root = pml4_phys /\ mem.tables = tables
  BY MemOfVars
<1> DEFINE S == {}
<1>3. Fit(mem, D, H, S)
  BY <1>1
<1> HIDE DEF S
<1>4. LET e == Leaf(Rest(mem.tables, D), mem.root, indexes(va))
      IN  /\ IsMapped(mem.tables, va) <=> e.present
          /\ e.present => /\ Granted(walk(mem.tables, va)) = Mapping(e)
                          /\ walk(mem.tables, va)[4] = e
  BY <1>2, <1>3, FitWalk
<1> QED
  BY <1>2, <1>4 DEF Live

(* The test's page is unmapped.                                             *)
LEMMA TestUnmapMem ==
    ASSUME MemInv, test_unmap
    PROVE  MemInv'
<1> DEFINE mapped == unmaps(tables, USER_CODE_VADDR)
           m == IF mapped THEN unmap(mem, USER_CODE_VADDR) ELSE mem
           check == /\ mapped /\ walk(tables, USER_CODE_VADDR)[4].address = TEST_PHYSICAL
                    /\ translate(m.tables, USER_CODE_VADDR) = None
           ix == indexes(USER_CODE_VADDR)
<1>1. Memory("test_unmap", m, check) /\ pml4_phys' = pml4_phys
  BY DEF test_unmap
<1>2. at = "test_unmap"
  BY <1>1 DEF Memory, At
<1>3. Holds("test_unmap")
  BY <1>2, HoldsAt, NotElsewhere
<1>4. Unloaded /\ AtTestUnmap
  BY <1>3 DEF Holds, BootAt, ReadyAt, UserAt
<1>5. PICK D : Space(D) /\ LowIn(Live(D), pml4_phys) /\ Beside
  BY <1>4 DEF AtTestUnmap
<1>6. PICK H : Fit(mem, D, H, {})
  BY <1>5 DEF Space
<1>7. mem.root = pml4_phys /\ mem.tables = tables /\ mem.pmm = pmm
  BY MemOfVars
<1>8. USER_CODE_VADDR \in Nat
  BY MainAssumption
<1>9. /\ Fit(m, D, H, {}) /\ m.root = pml4_phys /\ Spends(mem, m, 0)
      /\ mapped => /\ Arrives(Rest(m.tables, D), pml4_phys, ix)
                   /\ LowIn(Rest(m.tables, D), pml4_phys)
  <2>1. CASE ~mapped
    <3>1. m = mem
      BY <2>1
    <3>2. Spends(mem, mem, 0)
      BY SpendsNothing
    <3> QED
      BY <1>6, <1>7, <2>1, <3>1, <3>2
  <2>2. CASE mapped
    <3> DEFINE r == unmap(mem, USER_CODE_VADDR)
    <3>1. m = r
      BY <2>2
    <3>2. Leaf(Live(D), pml4_phys, ix).present
      BY <1>5, <1>8, <2>2, SpaceWalk DEF unmaps
    <3>3. Leaf(Rest(mem.tables, D), mem.root, ix).present
      BY <1>7, <3>2 DEF Live
    <3>4. /\ Fit(r, D, H, {}) /\ r.root = mem.root /\ r.pmm = mem.pmm
          /\ DOMAIN r.tables = DOMAIN mem.tables
          /\ Arrives(Rest(r.tables, D), mem.root, ix)
          /\ \A jx \in Indexes \ {ix} :
               Leaf(Rest(r.tables, D), mem.root, jx) = Leaf(Rest(mem.tables, D), mem.root, jx)
      BY <1>6, <1>7, <1>8, <3>3, UnmapFits
    <3> HIDE DEF r, m, mapped
    <3>5. Spends(mem, r, 0)
      BY <3>4, SpendsNothing
    <3>6. LowIn(Rest(r.tables, D), pml4_phys)
      BY <1>5, <1>7, <3>4, LowWithout DEF Live
    <3> QED
      BY <1>7, <3>1, <3>4, <3>5, <3>6
  <2> QED
    BY <2>1, <2>2
<1> DEFINE n == 4
           j == 0
           step == "test_unmap"
<1>10. check => mapped
  OBVIOUS
<1> HIDE DEF m, mapped, check
<1>11. /\ n \in Nat /\ j \in Nat /\ j <= n /\ n - j = 4 /\ Following(step) = "user_code"
       /\ Left(n) /\ Spends(mem, m, j)
       /\ Memory(step, m, check) /\ (at' = Following(step) => m.root = pml4_phys')
  BY <1>1, <1>4, <1>9, Steps DEF AtTestUnmap
<1> HIDE DEF n, j, step, check
<1>12. SpaceOr(step, check, m, D, n - j)
  BY <1>4, <1>9, <1>11, SpaceStep
<1>13. SpaceOr("test_unmap", check, m, D, 4)
  BY <1>11, <1>12 DEF step
<1>14. CASE at' = "user_code"
  <2>1. Unloaded' /\ Left(4)' /\ Space(D)' /\ Live(D)' = Rest(m.tables, D) /\ mapped
        /\ UNCHANGED <<kernel, entry>>
    BY <1>10, <1>13, <1>14 DEF SpaceOr
  <2>2. LowIn(Live(D), pml4_phys)' /\ Arrives(Live(D), pml4_phys, ix)'
    BY <1>1, <1>9, <2>1
  <2>3. AtUserCode'
    BY <2>1, <2>2 DEF AtUserCode
  <2>4. Holds("user_code")'
    BY <2>1, <2>3 DEF Holds
  <2> QED
    BY <1>14, <2>1, <2>4, MemoryDone
<1>15. CASE at' # "user_code"
  BY <1>13, <1>15, Steps, MemoryDone DEF SpaceOr
<1> QED
  BY <1>14, <1>15

(* The page of the user's entry.                                            *)
LEMMA UserPageNat ==
    ASSUME MemInv
    PROVE  UserPage \in Nat
<1>1. entry \in Nat
  BY MainAssumption DEF MemInv
<1>2. FRAME_SIZE \in Nat \ {0}
  BY FrameAssumption
<1>3. entry \div FRAME_SIZE \in Nat /\ entry % FRAME_SIZE \in 0 .. FRAME_SIZE - 1
      /\ entry = (entry \div FRAME_SIZE) * FRAME_SIZE + (entry % FRAME_SIZE)
  BY <1>1, <1>2, DivMod
<1>4. (entry \div FRAME_SIZE) * FRAME_SIZE \in Nat
  BY <1>2, <1>3, FrameAddress
<1> DEFINE a == (entry \div FRAME_SIZE) * FRAME_SIZE
           b == entry % FRAME_SIZE
<1>5. entry = a + b /\ a \in Nat /\ b \in Int
  BY <1>2, <1>3, <1>4
<1>6. UserPage = entry - b
  BY DEF UserPage, align_down
<1> HIDE DEF a, b
<1> QED
  BY <1>5, <1>6

(* The step that maps the page of the user's entry.                         *)
LEMMA UserCodeMem ==
    ASSUME MemInv, user_code_map
    PROVE  MemInv'
<1> DEFINE w == TRUE
           m == map(mem, USER_CODE_VADDR, UserPage, w, w)
           check == m.ok /\ translate(m.tables, USER_CODE_VADDR) = UserPage
           ix == indexes(USER_CODE_VADDR)
<1>1. Memory("user_code", m, check) /\ pml4_phys' = pml4_phys
  BY DEF user_code_map
<1>2. at = "user_code"
  BY <1>1 DEF Memory, At
<1>3. Holds("user_code")
  BY <1>2, HoldsAt, NotElsewhere
<1>4. Unloaded /\ AtUserCode
  BY <1>3 DEF Holds, BootAt, ReadyAt, UserAt
<1>5. PICK D : Space(D) /\ LowIn(Live(D), pml4_phys) /\ Arrives(Live(D), pml4_phys, ix)
  BY <1>4 DEF AtUserCode
<1>6. PICK H : Fit(mem, D, H, {})
  BY <1>5 DEF Space
<1> DEFINE n == 4
           k == 3
           j == 3 - k
           step == "user_code"
<1>7. w \in BOOLEAN /\ k \in 0 .. 3 /\ USER_CODE_VADDR \in Nat /\ UserPage \in Nat
  BY MainAssumption, UserPageNat
<1>8. Shares(USER_CODE_VADDR, USER_CODE_VADDR, k)
  BY DEF Shares
<1>9. n \in Nat /\ j \in Nat /\ j <= n /\ n - j = 4 /\ Following(step) = "user_stack" /\ Left(n)
  BY <1>4, Steps DEF AtUserCode
<1> HIDE DEF w, n, k
<1>10. Has(Live(D), pml4_phys, ix, k)
  BY <1>5, <1>7, <1>8, SharesHas
<1>11. MapsIn(m, D, H, USER_CODE_VADDR, UserPage, w, w, j)
  BY <1>6, <1>7, <1>10, MapSpace
<1> HIDE DEF m, j
<1>12. check => m.ok
  OBVIOUS
<1>13. Fit(m, D, H, {}) /\ m.root = pml4_phys /\ Spends(mem, m, j)
  BY <1>11 DEF MapsIn
<1>14. Memory(step, m, check) /\ (at' = Following(step) => m.root = pml4_phys')
  BY <1>1, <1>13
<1> HIDE DEF step, check
<1>15. SpaceOr(step, check, m, D, n - j)
  BY <1>4, <1>9, <1>13, <1>14, SpaceStep
<1>16. SpaceOr("user_code", check, m, D, 4)
  BY <1>9, <1>15 DEF step
<1>17. CASE at' = "user_stack"
  <2>1. Unloaded' /\ Left(4)' /\ Space(D)' /\ Live(D)' = Rest(m.tables, D) /\ m.ok
        /\ UNCHANGED <<kernel, entry>>
    BY <1>12, <1>16, <1>17 DEF SpaceOr
  <2>2. Extends(Live(D), Rest(m.tables, D), pml4_phys)
        /\ Leaf(Rest(m.tables, D), pml4_phys, ix) = make_entry(UserPage, w, w)
    BY <1>11, <2>1 DEF MapsIn
  <2>3. LowIn(Live(D), pml4_phys)'
    BY <1>1, <1>5, <2>1, <2>2, MoreMapped
  <2>4. UserPage' = UserPage
    BY <2>1 DEF UserPage
  <2>5. CodeIn(Rest(m.tables, D), pml4_phys, UserPage)
    BY <2>2 DEF CodeIn, w
  <2>6. CodeIn(Live(D), pml4_phys, UserPage)'
    BY <1>1, <2>1, <2>4, <2>5
  <2>7. AtUserStack'
    BY <2>1, <2>3, <2>6 DEF AtUserStack
  <2>8. Holds("user_stack")'
    BY <2>1, <2>7 DEF Holds
  <2> QED
    BY <1>17, <2>1, <2>8, MemoryDone
<1>18. CASE at' # "user_stack"
  BY <1>16, <1>18, Steps, MemoryDone DEF SpaceOr
<1> QED
  BY <1>17, <1>18

(* The user's stack.                                                        *)
LEMMA UserStackMem ==
    ASSUME MemInv, user_stack_map
    PROVE  MemInv'
<1> DEFINE m == user_stack_mapped(mem)
           check == m.ok /\ translate(m.tables, USER_STACK_VADDR) = USER_STACK
<1>1. Memory("user_stack", m, check) /\ pml4_phys' = pml4_phys
  BY DEF user_stack_map
<1>2. at = "user_stack"
  BY <1>1 DEF Memory, At
<1>3. Holds("user_stack")
  BY <1>2, HoldsAt, NotElsewhere
<1>4. Unloaded /\ AtUserStack
  BY <1>3 DEF Holds, BootAt, ReadyAt, UserAt
<1>5. PICK D : Space(D) /\ LowIn(Live(D), pml4_phys) /\ CodeIn(Live(D), pml4_phys, UserPage)
  BY <1>4 DEF AtUserStack
<1>6. PICK H : Fit(mem, D, H, {})
  BY <1>5 DEF Space
<1> DEFINE n == 4
           j == 1
           step == "user_stack"
           S == {}
<1>7. Has(Live(D), pml4_phys, indexes(USER_STACK_VADDR), 2)
  BY <1>5, LowShared
<1>8. mem.root = pml4_phys /\ mem.tables = tables /\ mem.ok /\ Rest(mem.tables, D) = Live(D)
  BY MemOfVars DEF Live
<1>9. Fit(m, D, H, S) /\ m.root = pml4_phys /\ Spends(mem, m, j)
      /\ (m.ok => /\ StackIn(Rest(m.tables, D), pml4_phys)
                  /\ Extends(Live(D), Rest(m.tables, D), pml4_phys))
  <2>1. Fit(mem, D, H, S) /\ Has(Rest(mem.tables, D), mem.root, indexes(USER_STACK_VADDR), 2)
    BY <1>6, <1>7, <1>8
  <2> HIDE DEF S
  <2>2. /\ Fit(m, D, H, S) /\ m.root = mem.root /\ Spends(mem, m, 1)
        /\ m.ok => /\ RangeDone(Rest(m.tables, D), mem.root, USER_STACK_VADDR, USER_STACK,
                                TRUE, TRUE, USER_STACK_PAGES)
                   /\ Extends(Rest(mem.tables, D), Rest(m.tables, D), mem.root)
    BY <1>8, <2>1, UserStackFits
  <2> HIDE DEF m
  <2> QED
    BY <1>8, <2>2 DEF StackIn
<1>10. check => m.ok
  OBVIOUS
<1> HIDE DEF m
<1>11. /\ n \in Nat /\ j \in Nat /\ j <= n /\ n - j = 3 /\ Following(step) = "rsp0" /\ Left(n)
       /\ Memory(step, m, check) /\ (at' = Following(step) => m.root = pml4_phys')
  BY <1>1, <1>4, <1>9, Steps DEF AtUserStack
<1> HIDE DEF n, j, step, check
<1>12. SpaceOr(step, check, m, D, n - j)
  BY <1>4, <1>9, <1>11, SpaceStep
<1>13. SpaceOr("user_stack", check, m, D, 3)
  BY <1>11, <1>12 DEF step
<1>14. CASE at' = "rsp0"
  <2>1. Unloaded' /\ Left(3)' /\ Space(D)' /\ Live(D)' = Rest(m.tables, D) /\ m.ok
        /\ UNCHANGED <<kernel, entry>>
    BY <1>10, <1>13, <1>14 DEF SpaceOr
  <2>2. UserPage' = UserPage
    BY <2>1 DEF UserPage
  <2>3. /\ LowIn(Rest(m.tables, D), pml4_phys) /\ StackIn(Rest(m.tables, D), pml4_phys)
        /\ CodeIn(Rest(m.tables, D), pml4_phys, UserPage)
    BY <1>5, <1>9, <2>1, MoreMapped
  <2>4. Full(D)'
    BY <1>1, <2>1, <2>2, <2>3 DEF Full
  <2>5. AtActivate'
    BY <2>1, <2>4 DEF AtActivate
  <2>6. Holds("rsp0")'
    BY <2>1, <2>5 DEF Holds
  <2> QED
    BY <1>14, <2>1, <2>6, MemoryDone
<1>15. CASE at' # "rsp0"
  BY <1>13, <1>15, Steps, MemoryDone DEF SpaceOr
<1> QED
  BY <1>14, <1>15

(* The first 2 MiB are mapped to themselves, for the kernel.                *)
LEMMA LowTranslates ==
    ASSUME NEW D, Space(D), LowIn(Live(D), pml4_phys), NEW f \in Nat, NEW p,
           p = f * PAGE_SIZE, p < IDENTITY_END
    PROVE  /\ translate(tables, p) = p
           /\ Granted(walk(tables, p)) = [address |-> p, writable |-> TRUE, user |-> FALSE]
<1>1. IDENTITY_END \in Nat /\ PAGE_SIZE \in Nat \ {0} /\ IDENTITY_END % PAGE_SIZE = 0
  BY FrameAssumption, MainAssumption, AddressAssumption DEF PAGE_SIZE
<1>2. LowPages \in Nat /\ IDENTITY_END = LowPages * PAGE_SIZE + (IDENTITY_END % PAGE_SIZE)
  BY <1>1, DivMod DEF LowPages
<1> HIDE DEF LowPages
<1>3. p \in Nat /\ p = Page(0, f)
  BY <1>1, FrameAddress DEF Page, PAGE_SIZE
<1>4. f < LowPages
  <2>1. LowPages * FRAME_SIZE = IDENTITY_END
    BY <1>1, <1>2, MultiplesOrdered DEF PAGE_SIZE
  <2>2. LowPages <= f => LowPages * FRAME_SIZE <= f * FRAME_SIZE
    BY <1>2, MultiplesOrdered
  <2>3. p = f * FRAME_SIZE
    BY DEF PAGE_SIZE
  <2> QED
    BY <1>1, <1>2, <1>3, <2>1, <2>2, <2>3
<1>5. f \in 0 .. LowPages - 1
  BY <1>2, <1>4
<1> DEFINE e == Leaf(Live(D), pml4_phys, indexes(p))
<1>6. MapAllowed(p, p) /\ e = make_entry(p, TRUE, FALSE)
  BY <1>3, <1>5 DEF LowIn, RangeDone
<1>7. /\ IsMapped(tables, p) <=> e.present
      /\ e.present => /\ Granted(walk(tables, p)) = Mapping(e)
                      /\ walk(tables, p)[4] = e
  BY <1>3, SpaceWalk
<1> HIDE DEF e
<1>8. e.present /\ e.address = p /\ Mapping(e) = [address |-> p, writable |-> TRUE, user |-> FALSE]
  BY <1>6 DEF make_entry, Mapping
<1>9. is_canonical(p) /\ p % PAGE_SIZE = 0
  BY <1>6 DEF MapAllowed
<1>10. translate(tables, p) = walk(tables, p)[4].address + (p % PAGE_SIZE)
  BY <1>7, <1>8, <1>9 DEF translate
<1>11. translate(tables, p) = p
  BY <1>3, <1>7, <1>8, <1>9, <1>10
<1> QED
  BY <1>7, <1>8, <1>11

(* The kernel is in the first 2 MiB.                                        *)
LEMMA KernelIsLow ==
    ASSUME MemInv, NEW p \in KernelPages
    PROVE  p < IDENTITY_END /\ \E f \in Nat : p = f * PAGE_SIZE
<1>1. PICK f \in FramesFrom(align_down(kernel[1]), align_up(kernel[2])) : p = f * PAGE_SIZE
  BY DEF KernelPages
<1>2. f \in Nat /\ f * FRAME_SIZE < align_up(kernel[2])
  BY <1>1 DEF FramesFrom, Frames
<1>3. kernel[2] \in Nat /\ kernel[2] <= IDENTITY_END
  BY FrameAssumption, AddressAssumption DEF MemInv
<1>4. align_up(kernel[2]) <= f * FRAME_SIZE <=> kernel[2] <= f * FRAME_SIZE
  BY <1>2, <1>3, AlignUp
<1>5. f * FRAME_SIZE \in Nat /\ IDENTITY_END \in Nat
  BY <1>2, FrameAddress, MainAssumption
<1>6. align_up(kernel[2]) \in Int
  BY <1>3, FrameAssumption DEF align_up
<1>7. p = f * FRAME_SIZE
  BY <1>1 DEF PAGE_SIZE
<1>8. p < IDENTITY_END
  BY <1>2, <1>3, <1>4, <1>5, <1>6, <1>7
<1> QED
  BY <1>1, <1>2, <1>8

(* CR3 is loaded; the code that goes on is mapped.                          *)
LEMMA ActivateMem ==
    ASSUME MemInv, activate
    PROVE  MemInv'
<1>1. at = "activate" /\ cr3' = "kernel" /\ tlb' = << >>
      /\ at' = (IF \A p \in KernelPages : translate(tables, p) = p THEN "heap" ELSE "page_fault")
      /\ UNCHANGED <<all_vars, entry>>
  BY Steps DEF activate, At
<1>2. Holds("activate")
  BY <1>1, HoldsAt, NotElsewhere
<1>3. AtActivate
  BY <1>2 DEF Holds, BootAt, ReadyAt, UserAt
<1>4. PICK D : Full(D)
  BY <1>3 DEF AtActivate
<1>5. Space(D) /\ LowIn(Live(D), pml4_phys)
  BY <1>4 DEF Full
<1>6. \A p \in KernelPages : translate(tables, p) = p
  BY <1>5, KernelIsLow, LowTranslates
<1>7. at' = "heap"
  BY <1>1, <1>6
<1>8. /\ pmm' = pmm /\ memory_map' = memory_map /\ kernel' = kernel
      /\ tables' = tables /\ pml4_phys' = pml4_phys
  BY <1>1 DEF all_vars, fa_vars, vm_vars
<1>9. Left(3)'
  BY <1>3, <1>8, StillEnough DEF AtActivate, Left
<1>10. mem' = mem /\ UserPage' = UserPage
  BY <1>1, <1>8 DEF mem, UserPage
<1>11. Space(D)' /\ Live(D)' = Live(D)
  BY <1>5, <1>8, <1>10 DEF Space, Live
<1>12. Full(D)'
  BY <1>4, <1>8, <1>10, <1>11 DEF Full
<1>13. Loaded(D)'
  BY <1>1 DEF Loaded, CachedIn
<1>14. AtHeap'
  BY <1>9, <1>12, <1>13 DEF AtHeap
<1>15. Holds("heap")'
  BY <1>14 DEF Holds
<1> QED
  BY <1>1, <1>7, <1>8, <1>15, MemoryDone

(* The heap.                                                                *)
LEMMA HeapMem ==
    ASSUME MemInv, heap_initialize
    PROVE  MemInv'
<1> DEFINE m == heap_map(mem, HEAP_PAGES)
           reached == \A t \in DOMAIN m.tables \ DOMAIN tables : Writable(tables, t)
<1>1. /\ Memory("heap", m, m.ok) /\ pml4_phys' = pml4_phys
      /\ heap' = (IF at' = "page_fault" THEN heap
                  ELSE [mapped_pages |-> IF m.ok THEN HEAP_PAGES ELSE 0, initialized |-> m.ok])
  BY DEF heap_initialize
<1>2. at = "heap"
  BY <1>1 DEF Memory, At
<1>3. Holds("heap")
  BY <1>2, HoldsAt, NotElsewhere
<1>4. AtHeap
  BY <1>3 DEF Holds, BootAt, ReadyAt, UserAt
<1>5. PICK D : Full(D) /\ Loaded(D)
  BY <1>4 DEF AtHeap
<1>6. Space(D) /\ LowIn(Live(D), pml4_phys) /\ StackIn(Live(D), pml4_phys)
      /\ CodeIn(Live(D), pml4_phys, UserPage)
  BY <1>5 DEF Full
<1>7. PICK H : Fit(mem, D, H, {})
  BY <1>6 DEF Space
<1>8. mem.root = pml4_phys /\ mem.tables = tables /\ mem.ok /\ Rest(mem.tables, D) = Live(D)
      /\ mem.pmm = pmm
  BY MemOfVars DEF Live
<1>9. Has(Rest(mem.tables, D), mem.root, indexes(HEAP_START), 1)
  BY <1>6, <1>8, LowShared
<1>10. HEAP_PAGES \in Nat /\ OneTable(HEAP_START, HEAP_PAGES)
  BY MainAssumption, AddressAssumption DEF OneTable, Page, heap_page
<1>11. /\ m.ok => /\ \E H2 : Fit(m, D, H2, {})
                  /\ m.root = mem.root
                  /\ Extends(Rest(mem.tables, D), Rest(m.tables, D), mem.root)
       /\ Spare(mem.pmm, 3) => NewLow(mem, m)
  BY <1>7, <1>8, <1>9, <1>10, HeapFits
<1> HIDE DEF m
<1>12. /\ UNCHANGED <<memory_map, kernel, cr3, tlb, entry>>
       /\ \/ reached /\ pmm' = m.pmm /\ tables' = m.tables
             /\ at' = (IF m.ok THEN "spinlock" ELSE "halted")
          \/ ~reached /\ at' = "page_fault"
  BY <1>1, Steps DEF Memory, machine
<1>13. Enough => reached
  <2> SUFFICES ASSUME Enough, NEW t \in DOMAIN m.tables \ DOMAIN tables
               PROVE  Writable(tables, t)
    OBVIOUS
  <2>1. IsLow(t)
    BY <1>4, <1>8, <1>11 DEF AtHeap, Left, NewLow
  <2>2. PICK f \in Frames : t = f * PAGE_SIZE /\ t < IDENTITY_END
    BY <2>1 DEF IsLow, PAGE_SIZE
  <2>3. f \in Nat
    BY DEF Frames
  <2>4. translate(tables, t) = t
    BY <1>6, <2>2, <2>3, LowTranslates
  <2>5. cr3 = "kernel"
    BY <1>5 DEF Loaded
  <2> QED
    BY <2>4, <2>5 DEF Writable
<1>14. Enough' <=> Enough
  BY <1>12, StillEnough
<1> HIDE DEF reached
<1>15. CASE at' = "page_fault"
  <2>1. ~Enough'
    BY <1>12, <1>13, <1>14, <1>15
  <2> QED
    BY <1>12, <1>15, <2>1, MemoryDone
<1>16. CASE at' = "halted"
  BY <1>12, <1>16, MemoryDone
<1>17. CASE at' = "spinlock"
  <2>1. m.ok /\ pmm' = m.pmm /\ tables' = m.tables
    BY <1>12, <1>17
  <2>2. PICK H2 : Fit(m, D, H2, {})
    BY <1>11, <2>1
  <2>3. m.root = pml4_phys' /\ Extends(Live(D), Rest(m.tables, D), pml4_phys)
    BY <1>1, <1>8, <1>11, <2>1
  <2>4. Space(D)' /\ Live(D)' = Rest(m.tables, D)
    BY <2>1, <2>2, <2>3, SpaceNext
  <2>5. UserPage' = UserPage
    BY <1>12 DEF UserPage
  <2>6. /\ LowIn(Rest(m.tables, D), pml4_phys) /\ StackIn(Rest(m.tables, D), pml4_phys)
        /\ CodeIn(Rest(m.tables, D), pml4_phys, UserPage)
        /\ CachedIn(tlb, Rest(m.tables, D), pml4_phys)
    BY <1>5, <1>6, <2>3, MoreMapped DEF Loaded
  <2>7. Full(D)'
    BY <1>1, <2>4, <2>5, <2>6 DEF Full
  <2>8. Loaded(D)'
    BY <1>1, <1>5, <1>12, <2>4, <2>6 DEF Loaded
  <2>9. m.ok = TRUE
    <3>1. m.ok \in BOOLEAN
      BY <2>2 DEF Fit, IsMem
    <3> QED
      BY <2>1, <3>1, Zenon
  <2>10. heap' = [mapped_pages |-> HEAP_PAGES, initialized |-> TRUE]
    BY <1>1, <1>17, <2>9
  <2>11. Ready'
    BY <2>7, <2>8, <2>10 DEF Ready
  <2>12. Holds("spinlock")'
    BY <2>11 DEF Holds, ReadyAt
  <2> QED
    BY <1>12, <1>17, <2>12, MemoryDone
<1> QED
  BY <1>12, <1>15, <1>16, <1>17

(* A translation is cached.                                                 *)
LEMMA TlbMem ==
    ASSUME MemInv, tlb_fill
    PROVE  MemInv'
<1>1. cr3 = "kernel" /\ at \notin Stopped /\ UNCHANGED <<all_vars, at, cpu, cr3, entry>>
  BY DEF tlb_fill
<1>2. PICK va \in TlbPages \ DOMAIN tlb :
        /\ IsMapped(tables, va)
        /\ tlb' = [p \in DOMAIN tlb \cup {va} |->
                     IF p = va THEN Granted(walk(tables, va)) ELSE tlb[p]]
  BY DEF tlb_fill
<1>3. va \in Nat
  BY MainAssumption
<1>4. /\ pmm' = pmm /\ memory_map' = memory_map /\ kernel' = kernel
      /\ tables' = tables /\ pml4_phys' = pml4_phys /\ heap' = heap
  BY <1>1 DEF all_vars, fa_vars, vm_vars
<1>5. mem' = mem /\ UserPage' = UserPage /\ Loc' = Loc
  BY <1>1, <1>4 DEF mem, UserPage, Loc
<1>6. ASSUME NEW D, Full(D), Loaded(D)
      PROVE  Full(D)' /\ Loaded(D)'
  <2>1. Space(D) /\ CachedIn(tlb, Live(D), pml4_phys)
    BY <1>6 DEF Full, Loaded
  <2>2. Space(D)' /\ Live(D)' = Live(D)
    BY <1>4, <1>5, <2>1 DEF Space, Live
  <2>3. Full(D)'
    BY <1>4, <1>5, <1>6, <2>2 DEF Full
  <2> DEFINE e == Leaf(Live(D), pml4_phys, indexes(va))
  <2>4. e.present /\ Granted(walk(tables, va)) = Mapping(e)
    BY <1>2, <1>3, <2>1, SpaceWalk
  <2>5. CachedIn(tlb', Live(D), pml4_phys)
    <3> SUFFICES ASSUME NEW p \in DOMAIN tlb'
                 PROVE  LET x == Leaf(Live(D), pml4_phys, indexes(p))
                        IN  p \in Nat /\ x.present /\ tlb'[p] = Mapping(x)
      BY DEF CachedIn
    <3>1. CASE p = va
      BY <1>2, <1>3, <2>4, <3>1
    <3>2. CASE p # va
      <4>1. p \in DOMAIN tlb /\ tlb'[p] = tlb[p]
        BY <1>2, <3>2
      <4> QED
        BY <2>1, <4>1 DEF CachedIn
    <3> QED
      BY <3>1, <3>2
  <2>6. Loaded(D)'
    BY <1>1, <1>4, <2>2, <2>5 DEF Loaded
  <2> QED
    BY <2>3, <2>6
<1>7. Holds(Loc)
  BY <1>1 DEF MemInv
<1>8. (Loc = "heap" /\ AtHeap) \/ (Loc \in ReadyAt /\ Ready)
  BY <1>1, <1>7 DEF Holds, Unloaded
<1>9. AtHeap => AtHeap'
  <2>1. Left(3) => Left(3)'
    BY <1>4, StillEnough DEF Left
  <2> QED
    BY <1>6, <2>1 DEF AtHeap
<1>10. Ready => Ready'
  BY <1>4, <1>6 DEF Ready
<1>11. Holds(Loc)'
  BY <1>5, <1>8, <1>9, <1>10 DEF Holds
<1>12. at' # "page_fault" /\ UNCHANGED <<kernel, entry>>
  BY <1>1, <1>4 DEF Stopped
<1> QED
  BY <1>11, <1>12 DEF MemInv

-----------------------------------------------------------------------------
(* The kernel is entered with memory as stage 2 leaves it.                  *)
LEMMA InitMemInv == KInit => MemInv
<1> SUFFICES ASSUME KInit PROVE MemInv
  OBVIOUS
<1>1. at = "gdt" /\ Init /\ cr3 = "boot" /\ tlb = << >> /\ entry \in UserEntries
      /\ DOMAIN tables = {}
  BY Steps DEF KInit, VInit
<1>2. IInv /\ pmm.allocated = {} /\ kernel \in KernelRanges
  BY <1>1, InitIInv DEF Init
<1>3. Booting /\ Unloaded
  BY <1>1, <1>2 DEF Booting, Unloaded
<1>4. Holds("gdt")
  BY <1>3 DEF Holds, BootAt
<1>5. Loc = "gdt"
  BY <1>1 DEF Loc
<1> QED
  BY <1>1, <1>2, <1>4, <1>5 DEF MemInv

(* Neither memory nor the place changes.                                    *)
LEMMA StillMem ==
    ASSUME MemInv, UNCHANGED <<all_vars, at, cpu, cr3, tlb, entry>>
    PROVE  MemInv'
<1>1. Loc' = Loc
  BY DEF Loc
<1>2. UNCHANGED <<memory_map, kernel, entry>>
  BY DEF all_vars, fa_vars
<1>3. Enough' <=> Enough
  BY <1>2, StillEnough
<1>4. at \notin Stopped => Holds(Loc)'
  <2> SUFFICES ASSUME at \notin Stopped PROVE Holds(Loc)'
    OBVIOUS
  <2>1. PICK l : l = Loc
    OBVIOUS
  <2>2. Holds(l)
    BY <2>1 DEF MemInv
  <2>3. Holds(l)'
    BY <2>2, HoldsStill
  <2> QED
    BY <1>1, <2>1, <2>3 DEF Holds
<1> QED
  BY <1>2, <1>3, <1>4 DEF MemInv

(* Each step preserves the inductive invariant.                             *)
LEMMA NextMemInv == MainInv /\ MemInv /\ [KNext]_kvars => MemInv'
<1> SUFFICES ASSUME MainInv, MemInv, [KNext]_kvars PROVE MemInv'
  OBVIOUS
<1>1. CASE Start
  BY <1>1, SetupMem, PmmMem, FramesMem, ScratchMem, NewMem, IdentityMem, TestMapMem, TestUnmapMem,
     UserCodeMem, UserStackMem, ActivateMem, HeapMem DEF Start
<1>2. CASE Execute
  BY <1>2, ExecuteMem
<1>3. CASE tick
  BY <1>3, StillMem DEF tick
<1>4. CASE irq0
  <2>1. cpu.int_flag /\ at \notin Stopped /\ Raise(pic.vector, 1, at)
        /\ UNCHANGED <<all_vars, cr3, tlb, entry>>
    BY <1>4 DEF irq0
  <2>2. pic.vector \in 0 .. 32
    BY DEF MainInv
  <2>3. at \in UserAt
    BY <2>1 DEF MainInv, AtGdt, AtIdt, InCode, InHandler, InSyscall, HasStopped, Stopped, Context,
       UserAt
  <2> QED
    BY <2>1, <2>2, <2>3, RaiseMem
<1>5. CASE tlb_fill
  BY <1>5, TlbMem
<1>6. CASE UNCHANGED kvars
  BY <1>6, StillMem DEF kvars, machine
<1> QED
  BY <1>1, <1>2, <1>3, <1>4, <1>5, <1>6 DEF KNext

(* The steps of _start, the calls they make and the tests between them      *)
(* leave each other the memory they need (MemInv is inductive), with any    *)
(* memory map and wherever a step runs out of frames.                       *)
THEOREM MemInvariance == KSpec => []MemInv
BY InitMemInv, NextMemInv, MainInvariance, PTL DEF KSpec

(* With FRAMES_TO_LAST_TABLE frames free below IDENTITY_END, no new table   *)
(* is in a frame that the active page tables do not map: _start writes page *)
(* tables by their physical addresses and never takes a page fault.         *)
THEOREM TablesAreReached == KSpec => []TablesReachable
<1>1. MemInv => TablesReachable
  BY DEF MemInv, TablesReachable, Enough
<1> QED
  BY <1>1, MemInvariance, PTL

(* Whatever the processor has cached is what the tables now say, although   *)
(* mapping never invalidates and the test of translation unmaps a page.     *)
THEOREM TranslationsAreFresh == KSpec => []NoStaleTranslation
<1>1. MemInv => NoStaleTranslation
  <2> SUFFICES ASSUME MemInv, at \notin Stopped, NEW va \in DOMAIN tlb
               PROVE  IsMapped(tables, va) /\ Granted(walk(tables, va)) = tlb[va]
    BY DEF NoStaleTranslation
  <2>1. Holds(Loc)
    BY DEF MemInv
  <2>2. PICK D : Full(D) /\ Loaded(D)
    BY <2>1 DEF Holds, Unloaded, AtHeap, Ready
  <2>3. Space(D) /\ CachedIn(tlb, Live(D), pml4_phys)
    BY <2>2 DEF Full, Loaded
  <2> DEFINE e == Leaf(Live(D), pml4_phys, indexes(va))
  <2>4. va \in Nat /\ e.present /\ tlb[va] = Mapping(e)
    BY <2>3 DEF CachedIn
  <2>5. /\ IsMapped(tables, va) <=> e.present
        /\ e.present => Granted(walk(tables, va)) = Mapping(e)
    BY <2>3, <2>4, SpaceWalk
  <2> QED
    BY <2>4, <2>5
<1> QED
  BY <1>1, MemInvariance, PTL

(* When user mode runs, the page of its entry and all of its stack are      *)
(* mapped for it, the kernel is mapped for itself alone, the heap is there, *)
(* and the way back, SYSCALL's and an interrupt's, has been set up.         *)
THEOREM UserModeIsReady == KSpec => []UserModeReady
<1>1. MainInv /\ MemInv => UserModeReady
  <2> SUFFICES ASSUME MainInv, MemInv, cpu.cpl = 3
               PROVE  /\ cr3 = "kernel"
                      /\ Granted(walk(tables, USER_CODE_VADDR)) =
                           [address |-> UserPage, writable |-> TRUE, user |-> TRUE]
                      /\ \A n \in 0 .. USER_STACK_PAGES - 1 :
                           /\ IsMapped(tables, user_stack_page(n))
                           /\ Granted(walk(tables, user_stack_page(n))) =
                                [address |-> USER_STACK + n * PAGE_SIZE, writable |-> TRUE,
                                 user |-> TRUE]
                      /\ \A p \in KernelPages :
                           Granted(walk(tables, p)) =
                             [address |-> p, writable |-> TRUE, user |-> FALSE]
                      /\ heap = [mapped_pages |-> HEAP_PAGES, initialized |-> TRUE]
                      /\ cpu.sce /\ cpu.lstar = "unbound_syscall_entry"
                      /\ cpu.tss.rsp0 = cpu.syscall_stack_top /\ cpu.tss.rsp0 # NoStack
    BY DEF UserModeReady
  <2>1. at \in UserAt /\ Done(at, cpu)
    BY DEF MainInv, AtGdt, AtIdt, InCode, InHandler, InSyscall, HasStopped, Context, UserAt
  <2>2. Ready
    <3>1. Holds(at)
      BY <2>1, HoldsAt DEF Stopped, UserAt
    <3> QED
      BY <2>1, <3>1 DEF Holds, BootAt, UserAt
  <2>3. PICK D : Full(D) /\ Loaded(D)
    BY <2>2 DEF Ready
  <2>4. /\ Space(D) /\ LowIn(Live(D), pml4_phys) /\ StackIn(Live(D), pml4_phys)
        /\ CodeIn(Live(D), pml4_phys, UserPage) /\ cr3 = "kernel"
    BY <2>3 DEF Full, Loaded
  <2>5. ASSUME NEW va \in Nat, NEW pa,
               Leaf(Live(D), pml4_phys, indexes(va)) = make_entry(pa, TRUE, TRUE)
        PROVE  /\ IsMapped(tables, va)
               /\ Granted(walk(tables, va)) = [address |-> pa, writable |-> TRUE, user |-> TRUE]
    <3> DEFINE e == Leaf(Live(D), pml4_phys, indexes(va))
    <3>1. /\ IsMapped(tables, va) <=> e.present
          /\ e.present => Granted(walk(tables, va)) = Mapping(e)
      BY <2>4, SpaceWalk
    <3>2. e = make_entry(pa, TRUE, TRUE)
      BY <2>5
    <3> HIDE DEF e
    <3>3. e.present /\ Mapping(e) = [address |-> pa, writable |-> TRUE, user |-> TRUE]
      BY <3>2 DEF make_entry, Mapping
    <3> QED
      BY <3>1, <3>3
  <2>6. Granted(walk(tables, USER_CODE_VADDR)) =
          [address |-> UserPage, writable |-> TRUE, user |-> TRUE]
    BY <2>4, <2>5, MainAssumption DEF CodeIn
  <2>7. ASSUME NEW n \in 0 .. USER_STACK_PAGES - 1
        PROVE  /\ IsMapped(tables, user_stack_page(n))
               /\ Granted(walk(tables, user_stack_page(n))) =
                    [address |-> USER_STACK + n * PAGE_SIZE, writable |-> TRUE, user |-> TRUE]
    <3>1. n \in Nat /\ USER_STACK_VADDR \in Nat
      BY MainAssumption
    <3>2. Page(USER_STACK_VADDR, n) \in Nat
      BY <3>1, PageNat
    <3>3. Leaf(Live(D), pml4_phys, indexes(Page(USER_STACK_VADDR, n))) =
            make_entry(Page(USER_STACK, n), TRUE, TRUE)
      BY <2>4 DEF StackIn, RangeDone
    <3>4. /\ IsMapped(tables, Page(USER_STACK_VADDR, n))
          /\ Granted(walk(tables, Page(USER_STACK_VADDR, n))) =
               [address |-> Page(USER_STACK, n), writable |-> TRUE, user |-> TRUE]
      BY <2>5, <3>2, <3>3
    <3>5. user_stack_page(n) = Page(USER_STACK_VADDR, n)
          /\ USER_STACK + n * PAGE_SIZE = Page(USER_STACK, n)
      BY DEF user_stack_page, Page
    <3> QED
      BY <3>4, <3>5
  <2>8. ASSUME NEW p \in KernelPages
        PROVE  Granted(walk(tables, p)) = [address |-> p, writable |-> TRUE, user |-> FALSE]
    BY <2>4, KernelIsLow, LowTranslates
  <2>9. heap = [mapped_pages |-> HEAP_PAGES, initialized |-> TRUE]
    BY <2>2 DEF Ready
  <2>10. EventStack(cpu) /\ cpu.sce = TRUE /\ Msrs(cpu)
    BY <2>1 DEF Done, AfterRsp0, AfterEfer, AfterMsrs
  <2>11. /\ cpu.sce /\ cpu.lstar = "unbound_syscall_entry"
         /\ cpu.tss.rsp0 = cpu.syscall_stack_top /\ cpu.tss.rsp0 # NoStack
    BY <2>10 DEF EventStack, Msrs, NoStack
  <2> QED
    BY <2>4, <2>6, <2>7, <2>8, <2>9, <2>11
<1> QED
  BY <1>1, MainInvariance, MemInvariance, PTL
=============================================================================
