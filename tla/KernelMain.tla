------------------------------ MODULE KernelMain ------------------------------
(***************************************************************************)
(* _start of kernel/src/bin/kernel.rs after the BootInfo checks: the       *)
(* processor's tables, the frame allocator, two sets of page tables, CR3,  *)
(* the heap, the self-tests, the registers for SYSCALL, and user mode with *)
(* the events that can come in there.  Any step may run out of frames; a   *)
(* check that fails halts.                                                 *)
(*                                                                         *)
(* Memory is what VirtualMemory says.  Page tables are written through the *)
(* identity map, which covers the first 2 MiB only, before and after CR3   *)
(* is loaded; the processor caches translations (tlb) whenever it likes.   *)
(*                                                                         *)
(* build names two things about the kernel: the words that the exception   *)
(* path takes off the stack before IRETQ (1 in the code, 2 in its comment, *)
(* see KernelEntry!ExceptionResumes), and whether pic::init is called (the *)
(* code never does; src/README.md lists it as done).  With 1 the INT3 of   *)
(* _start does not return; what comes after it is shown for the others.    *)
(***************************************************************************)
EXTENDS VirtualMemory, Processor

CONSTANTS
    IDENTITY_END,       \* 0x200000
    TEST_PHYSICAL,      \* 0x100000
    USER_CODE_VADDR,    \* 0x400000
    USER_STACK_VADDR,   \* 0x800000
    USER_STACK_PAGES,   \* 4
    HEAP_PAGES,         \* 4
    USER_STACK,         \* where the linker put the user's stack
    UserEntries,        \* where it may have put unbound_user_test_entry
    Builds,
    TlbPages            \* bound: the pages whose cached translations are followed

ASSUME MainAssumption ==
    /\ {IDENTITY_END, TEST_PHYSICAL, USER_CODE_VADDR, USER_STACK_VADDR, USER_STACK_PAGES,
        HEAP_PAGES, USER_STACK} \subseteq Nat
    /\ UserEntries \subseteq Nat /\ TlbPages \subseteq Nat
    /\ Builds \subseteq [removed : {1, 2}, pic : BOOLEAN]

VARIABLES
    at,         \* the step of _start, or where the processor is after it
    cpu,        \* the processor, see Processor
    cr3,        \* "boot" (stage 2's tables) or "kernel" (pml4_phys)
    tlb,        \* cached translations: page -> what the walk granted
    pic,        \* the interrupt controller
    entry,      \* physical address of unbound_user_test_entry
    build

machine == <<cr3, tlb, pic, entry, build>>
kvars == <<all_vars, at, cpu, machine>>

UserPage == align_down(entry)
user_stack_page(n) == USER_STACK_VADDR + n * PAGE_SIZE

(* The walks of two addresses go through the same first k entries.          *)
Shares(va, vb, k) == \A i \in 1 .. k : indexes(va)[i] = indexes(vb)[i]

(* The identity map has the kernel, which stage 2 could copy to what it     *)
(* maps itself only, and needs one page table; so do the user's stack and   *)
(* the heap.  All are below the same entry of the PML4, and the user's      *)
(* pages below the same PDPT entry as the identity map.                     *)
ASSUME AddressAssumption ==
    /\ IDENTITY_END > 0 /\ IDENTITY_END % PAGE_SIZE = 0
    /\ \A k \in KernelRanges : k[2] <= IDENTITY_END
    /\ \A n \in 0 .. IDENTITY_END \div PAGE_SIZE - 1 : Shares(0, n * PAGE_SIZE, 3)
    /\ Shares(0, USER_CODE_VADDR, 2) /\ Shares(0, USER_STACK_VADDR, 2) /\ Shares(0, HEAP_START, 1)
    /\ \A n \in 0 .. USER_STACK_PAGES - 1 : Shares(USER_STACK_VADDR, user_stack_page(n), 3)
    /\ \A n \in 0 .. HEAP_PAGES - 1 : Shares(HEAP_START, heap_page(n), 3)

(* Mutant: CR3 is loaded before the tables are tested.                      *)
start_order_EarlyActivate ==
    <<"gdt", "idt", "int3", "pmm", "frames", "scratch", "new", "identity", "activate", "test_map",
      "test_unmap", "user_code", "user_stack", "rsp0", "heap", "spinlock", "objects",
      "ipc", "dispatch", "efer", "msrs", "pic", "ring3">>

start_order ==
    <<"gdt", "idt", "int3", "pmm", "frames", "scratch", "new", "identity", "test_map",
      "test_unmap", "user_code", "user_stack", "rsp0", "activate", "heap", "spinlock", "objects",
      "ipc", "dispatch", "efer", "msrs", "pic", "ring3">>

Stopped == {"halted", "page_fault", "lost", "undelivered"}

At(step) == at = step

Following(step) ==
    start_order[1 + CHOOSE i \in 1 .. Len(start_order) - 1 : start_order[i] = step]

KInit ==
    /\ VInit
    /\ at = start_order[1]
    /\ cpu = entered_from_stage2
    /\ cr3 = "boot" /\ tlb = << >>
    /\ pic = bios_pic
    /\ entry \in UserEntries
    /\ build \in Builds

-----------------------------------------------------------------------------
(* Steps that set up the processor.  A selector that names no suitable      *)
(* descriptor faults (ok); a check that fails halts.                        *)
Setup(step, c, check) ==
    /\ At(step)
    /\ cpu' = c
    /\ at' = IF ~c.ok THEN "undelivered" ELSE IF check THEN Following(step) ELSE "halted"
    /\ UNCHANGED <<all_vars, machine>>

setup_gdt ==
    LET c == gdt_init(cpu) IN
      Setup("gdt", c, verify_user_segments(c) /\ verify_task_register(c) /\ c.tss.ist1 # NoStack)

setup_idt == LET c == idt_init(cpu) IN Setup("idt", c, c.idtr)

setup_rsp0 ==
    LET c == initialize_stack(cpu)
        d == set_rsp0(c, c.syscall_stack_top)
    IN  Setup("rsp0", d, c.syscall_stack_top # NoStack /\ d.tss.rsp0 # NoStack)

run_msr_test == LET c == enable_syscall_extensions(cpu) IN Setup("efer", c, c.sce)

run_syscall_msr_test ==
    LET c == init_syscall_msrs(cpu, "unbound_syscall_entry") IN
      Setup("msrs", c, verify_syscall_msrs(c, "unbound_syscall_entry"))

(* The tests of the spinlock, the objects, IPC and the dispatcher pass and  *)
(* leave nothing behind, or halt.                                           *)
self_test ==
    \E step \in {"spinlock", "objects", "ipc", "dispatch"}, passes \in BOOLEAN :
      Setup(step, cpu, passes)

call_pic_init ==
    /\ At("pic")
    /\ pic' = IF build.pic THEN pic_init(pic) ELSE pic
    /\ at' = Following("pic")
    /\ UNCHANGED <<all_vars, cpu, cr3, tlb, entry, build>>

-----------------------------------------------------------------------------
(* Steps that use memory.                                                   *)

(* A table can be written if the address of its frame is mapped to it.      *)
Writable(ts, t) == IF cr3 = "boot" THEN t < IDENTITY_END ELSE translate(ts, t) = t

(* The step made the tables of m, or faulted at one it cannot reach: the    *)
(* handler prints, and coming back faults again.  Its answer is what at'    *)
(* says, and the ghost reply is left alone.                                 *)
Memory(step, m, check) ==
    LET reached == \A t \in DOMAIN m.tables \ DOMAIN tables : Writable(tables, t) IN
      /\ At(step)
      /\ IF reached
         THEN /\ pmm' = m.pmm /\ tables' = m.tables
              /\ at' = IF check THEN Following(step) ELSE "halted"
         ELSE UNCHANGED <<pmm, tables>> /\ at' = "page_fault"
      /\ UNCHANGED <<memory_map, kernel, phase, next, cpu, machine>>

pmm_initialize ==
    /\ At("pmm")
    /\ initialize
    /\ at' = IF phase' = "ready" THEN Following("pmm") ELSE at
    /\ UNCHANGED <<vm_vars, cpu, machine>>

allocated_one(p) == IF HasFree(p) THEN mark_allocated(p, first_free(p)) ELSE p

(* Mutant: the first of the three frames is not given back.                 *)
frames_test_Keeps(p) == allocated_one(allocated_one(allocated_one(p)))

(* Three frames are taken, the first given back, then frame 0.              *)
frames_test(p) ==
    LET taken == allocated_one(allocated_one(allocated_one(p)))
        back == IF HasFree(p) THEN freed(taken, first_free(p) * FRAME_SIZE) ELSE taken
    IN  freed(back, 0)

use_frames ==
    /\ Memory("frames", [mem EXCEPT !.pmm = frames_test(@)], TRUE)
    /\ held' = pmm'.allocated
    /\ UNCHANGED <<pml4_phys, heap, reply>>

(* A new table becomes the root.                                            *)
with_table(m) == [new_table(m) EXCEPT !.root = first_free(m.pmm) * FRAME_SIZE]

(* The first tables, which are never used again: no failure is fatal.       *)
scratch_map ==
    /\ Memory("scratch",
              IF HasFree(pmm) THEN map(with_table(mem), USER_CODE_VADDR, TEST_PHYSICAL, TRUE, FALSE)
              ELSE mem,
              TRUE)
    /\ UNCHANGED <<pml4_phys, heap, held, reply>>

address_space_new ==
    LET m == IF HasFree(pmm) THEN with_table(mem) ELSE mem IN
      /\ Memory("new", m, HasFree(pmm))
      /\ pml4_phys' = IF at' = Following("new") THEN m.root ELSE None
      /\ UNCHANGED <<heap, held, reply>>

(* A map that must succeed and be what translate finds.                     *)
map_identity ==
    LET m == identity_map(mem, 0, IDENTITY_END, TRUE) IN
      Memory("identity", m, m.ok) /\ UNCHANGED <<pml4_phys, heap, held, reply>>

test_map ==
    LET m == map(mem, USER_CODE_VADDR, TEST_PHYSICAL, TRUE, FALSE) IN
      /\ Memory("test_map", m, m.ok /\ translate(m.tables, USER_CODE_VADDR) = TEST_PHYSICAL)
      /\ UNCHANGED <<pml4_phys, heap, held, reply>>

test_unmap ==
    LET mapped == unmaps(tables, USER_CODE_VADDR)
        m == IF mapped THEN unmap(mem, USER_CODE_VADDR) ELSE mem
    IN
      /\ Memory("test_unmap", m,
                /\ mapped /\ walk(tables, USER_CODE_VADDR)[4].address = TEST_PHYSICAL
                /\ translate(m.tables, USER_CODE_VADDR) = None)
      /\ UNCHANGED <<pml4_phys, heap, held, reply>>

(* The page of the entry is mapped; its offset in the page is lost.         *)
user_code_map ==
    LET m == map(mem, USER_CODE_VADDR, UserPage, TRUE, TRUE) IN
      /\ Memory("user_code", m, m.ok /\ translate(m.tables, USER_CODE_VADDR) = UserPage)
      /\ UNCHANGED <<pml4_phys, heap, held, reply>>

(* Mutant: the last page, the first to be used, is left out.                *)
user_stack_mapped_Short(m) ==
    LET mapped[n \in 0 .. USER_STACK_PAGES] ==
          IF n = 0 THEN m
          ELSE LET before == mapped[n - 1]
               IN  IF before.ok
                   THEN map(before, user_stack_page(n - 1), USER_STACK + (n - 1) * PAGE_SIZE,
                            TRUE, TRUE)
                   ELSE before
    IN  mapped[USER_STACK_PAGES - 1]

user_stack_mapped(m) ==
    LET mapped[n \in 0 .. USER_STACK_PAGES] ==
          IF n = 0 THEN m
          ELSE LET before == mapped[n - 1]
               IN  IF before.ok
                   THEN map(before, user_stack_page(n - 1), USER_STACK + (n - 1) * PAGE_SIZE,
                            TRUE, TRUE)
                   ELSE before
    IN  mapped[USER_STACK_PAGES]

user_stack_map ==
    LET m == user_stack_mapped(mem) IN
      /\ Memory("user_stack", m, m.ok /\ translate(m.tables, USER_STACK_VADDR) = USER_STACK)
      /\ UNCHANGED <<pml4_phys, heap, held, reply>>

heap_initialize ==
    LET m == heap_map(mem, HEAP_PAGES) IN
      /\ Memory("heap", m, m.ok)
      /\ heap' = IF at' = "page_fault" THEN heap
                 ELSE [mapped_pages |-> IF m.ok THEN HEAP_PAGES ELSE 0, initialized |-> m.ok]
      /\ UNCHANGED <<pml4_phys, held, reply>>

(* The pages with a byte of the kernel.                                     *)
KernelPages == {f * PAGE_SIZE : f \in FramesFrom(align_down(kernel[1]), align_up(kernel[2]))}

(* Loading CR3 empties the TLB; the next instruction must be mapped.        *)
activate ==
    /\ At("activate")
    /\ cr3' = "kernel" /\ tlb' = << >>
    /\ at' = IF \A p \in KernelPages : translate(tables, p) = p THEN Following("activate")
             ELSE "page_fault"
    /\ UNCHANGED <<all_vars, cpu, pic, entry, build>>

(* The processor caches a translation of the tables CR3 names.              *)
tlb_fill ==
    /\ cr3 = "kernel" /\ at \notin Stopped
    /\ \E va \in TlbPages \ DOMAIN tlb :
         /\ IsMapped(tables, va)
         /\ tlb' = [p \in DOMAIN tlb \cup {va} |->
                      IF p = va THEN Granted(walk(tables, va)) ELSE tlb[p]]
    /\ UNCHANGED <<all_vars, at, cpu, cr3, pic, entry, build>>

-----------------------------------------------------------------------------
(* Events, and the way back.                                                *)

(* words: what is pushed on top of the processor's five words.              *)
Raise(vector, words, resume) ==
    IF deliverable(cpu, vector)
    THEN /\ cpu' = delivered(cpu, vector, words, resume)
         /\ at' = IF vector = IRQ0_VECTOR THEN "timer" ELSE "exception"
    ELSE at' = "undelivered" /\ UNCHANGED cpu

int3 == At("int3") /\ Raise(3, 2, Following("int3")) /\ UNCHANGED <<all_vars, machine>>

(* unbound_exception_handler prints and returns; the way back takes off as  *)
(* many words as the build says.  With a wrong number IRETQ gets no frame.  *)
exception_return ==
    LET f == Head(cpu.frames)
        c == iretq(cpu)
    IN
      /\ At("exception")
      /\ IF f.words = build.removed
         THEN cpu' = c /\ at' = IF c.ok THEN f.resume ELSE "undelivered"
         ELSE UNCHANGED cpu /\ at' = "lost"
      /\ UNCHANGED <<all_vars, machine>>

(* The timer requests IRQ0.                                                 *)
tick ==
    /\ at \notin Stopped /\ ~pic.requested
    /\ pic' = [pic EXCEPT !.requested = TRUE]
    /\ UNCHANGED <<all_vars, at, cpu, cr3, tlb, entry, build>>

(* A hardware interrupt has no error code, also where the stub, the one of  *)
(* the double fault, counts on one: only the vector is pushed.              *)
irq0 ==
    /\ cpu.int_flag /\ pic.requested /\ ~pic.in_service
    /\ at \notin Stopped
    /\ pic' = acknowledged(pic)
    /\ Raise(pic.vector, 1, at)
    /\ UNCHANGED <<all_vars, cr3, tlb, entry, build>>

(* unbound_timer_handler ends the interrupt and returns the frame it got.   *)
timer_return ==
    LET c == iretq(cpu) IN
      /\ At("timer")
      /\ pic' = end_of_interrupt(pic)
      /\ cpu' = c /\ at' = IF c.ok THEN Head(cpu.frames).resume ELSE "undelivered"
      /\ UNCHANGED <<all_vars, cr3, tlb, entry, build>>

-----------------------------------------------------------------------------
(* User mode.  It starts at the first byte of the page: with the test       *)
(* routine if that is where it is, and elsewhere in the kernel's code if    *)
(* not, which may do anything that user mode can.                           *)
enter_ring3 ==
    LET c == [cpu EXCEPT !.cs = USER_CODE_SELECTOR_R3, !.ss = USER_DATA_SELECTOR_R3, !.cpl = 3,
                         !.int_flag = TRUE, !.rsp = "user"]
    IN
      /\ At("ring3")
      /\ cpu' = c
      /\ at' = IF code_dpl(descriptor(c, c.cs)) # 3 THEN "undelivered"
               ELSE IF entry = UserPage THEN "user" ELSE "elsewhere"
      /\ UNCHANGED <<all_vars, machine>>

user_syscall ==
    /\ at \in {"user", "elsewhere"}
    /\ IF cpu.sce
       THEN /\ cpu' = syscall(cpu, IF at = "user" THEN "user_hlt" ELSE "elsewhere")
            /\ at' = "syscall_entry"
       ELSE Raise(6, 2, at)
    /\ UNCHANGED <<all_vars, machine>>

(* HLT, or another instruction that faults; it faults again on return.      *)
user_fault ==
    /\ at \in {"user_hlt", "elsewhere"}
    /\ Raise(13, 2, at)
    /\ UNCHANGED <<all_vars, machine>>

(* unbound_syscall_entry switches stacks, pushes, clears IF, calls the      *)
(* dispatcher, pops and takes the user's stack back before SYSRETQ.         *)
syscall_entry ==
    /\ UNCHANGED <<all_vars, machine>>
    /\ \/ /\ At("syscall_entry")
          /\ cpu' = [cpu EXCEPT !.rsp = cpu.syscall_stack_top]
          /\ at' = "syscall"
       \/ /\ At("syscall")
          /\ cpu' = [cpu EXCEPT !.rsp = "user", !.int_flag = FALSE]
          /\ at' = "sysret"
       \/ /\ At("sysret")
          /\ cpu' = sysretq(cpu)
          /\ at' = cpu.rcx

(* _start up to user mode.                                                  *)
Start ==
    \/ setup_gdt \/ setup_idt \/ setup_rsp0
    \/ pmm_initialize \/ use_frames \/ scratch_map \/ address_space_new
    \/ map_identity \/ test_map \/ test_unmap \/ user_code_map \/ user_stack_map
    \/ activate \/ heap_initialize
    \/ self_test \/ run_msr_test \/ run_syscall_msr_test \/ call_pic_init

(* User mode, and the entries into the kernel and out of it.                *)
Execute ==
    \/ enter_ring3 \/ user_syscall \/ user_fault \/ syscall_entry
    \/ int3 \/ exception_return \/ timer_return

KNext == Start \/ Execute \/ tick \/ irq0 \/ tlb_fill

(* The timer is periodic and the processor executes; it takes a requested   *)
(* interrupt before the next instruction once IF is set.  Nothing is asked  *)
(* of Start: no property says that the kernel gets to user mode.            *)
KSpec == KInit /\ [][KNext]_kvars /\ WF_kvars(Execute) /\ WF_kvars(tick) /\ SF_kvars(irq0)

-----------------------------------------------------------------------------
(* Properties.                                                              *)

(* Every event finds a gate, kernel code and a stack, and every selector    *)
(* that is loaded the kind of segment it is for: the tables are complete    *)
(* before anything uses them.                                               *)
EventsFindHandlers == at # "undelivered"

(* Code and stack segments are of the privilege level the processor runs    *)
(* at, whichever of IRETQ, SYSCALL, SYSRET and a gate set them: the order   *)
(* of the GDT, STAR and the selectors of enter_ring3 agree.                 *)
SegmentsMatchPrivilege ==
    at \notin Stopped =>
      /\ code_dpl(descriptor(cpu, cpu.cs)) = cpu.cpl
      /\ \/ data_dpl(descriptor(cpu, cpu.ss)) = cpu.cpl
         \/ cpu.ss = 0 /\ cpu.cpl = 0

(* No frame is ever pushed on the user's stack, although SYSCALL enters the *)
(* kernel and SYSRET leaves it with RSP there: FMASK keeps interrupts out   *)
(* until the stack is the kernel's.                                         *)
FramesOnKernelStacks ==
    \A i \in 1 .. Len(cpu.frames) : cpu.frames[i].stack \in {"boot", "syscall", "ist1"}

(* User mode runs only when all of the setup worked: its code and stack are *)
(* mapped for it, the kernel is mapped for itself alone, the heap has its   *)
(* pages, and SYSCALL and exceptions have their entries and stacks.         *)
UserModeReady ==
    cpu.cpl = 3 =>
      /\ cr3 = "kernel"
      /\ Granted(walk(tables, USER_CODE_VADDR)) =
           [address |-> UserPage, writable |-> TRUE, user |-> TRUE]
      /\ \A n \in 0 .. USER_STACK_PAGES - 1 :
           /\ IsMapped(tables, user_stack_page(n))
           /\ Granted(walk(tables, user_stack_page(n))) =
                [address |-> USER_STACK + n * PAGE_SIZE, writable |-> TRUE, user |-> TRUE]
      /\ \A p \in KernelPages :
           Granted(walk(tables, p)) = [address |-> p, writable |-> TRUE, user |-> FALSE]
      /\ heap = [mapped_pages |-> HEAP_PAGES, initialized |-> TRUE]
      /\ cpu.sce /\ cpu.lstar = "unbound_syscall_entry"
      /\ cpu.tss.rsp0 = cpu.syscall_stack_top /\ cpu.tss.rsp0 # NoStack

(* While the kernel runs, no cached translation differs from the tables,    *)
(* although unmap and widened rights never execute INVLPG: what they change *)
(* is changed before CR3 is loaded.  (The rollback of the heap is the       *)
(* exception, and a halt follows it.)                                       *)
NoStaleTranslation ==
    at \notin Stopped =>
      \A va \in DOMAIN tlb :
        IsMapped(tables, va) /\ Granted(walk(tables, va)) = tlb[va]

(* The frames that _start hands out up to its last page table: two that the *)
(* test keeps, the four scratch tables, the PML4 and its three tables, the  *)
(* user's two, and the heap's first page and two tables.                    *)
FRAMES_TO_LAST_TABLE == 15

LowFrames == {f \in Frames : Usable(f) /\ ~Reserved(f) /\ f * FRAME_SIZE < IDENTITY_END}

(* With that many frames free in the first 2 MiB, no page table is ever put *)
(* where the kernel cannot reach it.                                        *)
TablesReachable ==
    Cardinality(LowFrames) >= FRAMES_TO_LAST_TABLE => at # "page_fault"

(* With the exception path and the PIC as documented, user mode never keeps *)
(* the timer from its handler, whatever it does.                            *)
TimerKeepsTicking ==
    (cpu.cpl = 3 /\ build = [removed |-> 2, pic |-> TRUE]) ~> At("timer")

-----------------------------------------------------------------------------
(* Statements of the source that the code does not keep.                    *)

(* user.rs: "The target executes SYSCALL immediately."                      *)
TargetExecutesSyscall == at # "elsewhere"

(* pic.rs: "We remap: Master IRQ0..7 -> vectors 32..39": IRQ0 is handled by *)
(* unbound_timer_handler.  pic::init is not called.                         *)
Irq0IsTheTimer == [][irq0 => at' = "timer"]_kvars

(* kernel.rs: "EARLY EXCEPTION TEST: INT3 RETURNED".                        *)
Int3Returns == At("int3") ~> At("pmm")
=============================================================================
