# Unbound OS: TLA+ models, checks and proofs

This directory holds TLA+ models of the parts of Unbound OS that keep state and
make decisions, the TLC configurations that check them on small instances, and
TLAPS proofs of their main properties for instances of every size. Paths below
are relative to the root of the repository.

## 1. The system

Unbound OS is a BIOS boot chain in assembly (`boot/`), a tool that builds the
disk image (`tools/image-builder/`) and a single-processor x86_64 kernel in Rust
(`kernel/src/`). At this commit `_start` (`kernel/src/bin/kernel.rs`)
initialises one subsystem after another, runs a self-test of each, enters user
mode for one system call and idles. The scheduler is complete but is not called:
`kernel.rs:1116` prints `PREEMPTIVE SCHEDULER: PARKED`, and the handler of IRQ 0
(`unbound_timer_handler`, `kernel.rs:1843`) returns the frame it was given
without calling `timer_interrupt`.

| Part | State | Operations | Who calls it |
|---|---|---|---|
| Scheduler (`scheduler/{mod,queue,task}.rs`) | run queue with holes and a count; task table and `task_count`; `current_task`; per task its state, slice, cooperative context, saved frame | `create_task`, `remove_task`, `set_current`, `schedule`, `tick`, `timer_interrupt`, `switch_*`, `init` | the two test functions of the module; nobody calls `timer_interrupt` yet |
| Preemption (`scheduler/mod.rs`, `context.rs`, `idt.rs`) | the CPU, its interrupt flag, saved frames | `run_preemptive_test`, `run_context_switch_test`, `context::switch`, IRQ 0 | the kernel thread and the PIT, asynchronously |
| Objects (`objects/`) | 64 slots: occupied, generation, count, type | `create`, `retain`, `release`, `destroy`, `is_valid`, `get_type` | any holder of a handle, under a spinlock |
| IPC (`ipc/`) | 16 endpoint slots with a generation; a ring buffer of 16 messages each; a lock for the table and one per ring | `create`, `send`, `receive`, `queue_len`, `destroy` | any thread |
| Spinlock (`sync/`) | one flag | `lock`, drop | IPC and objects |
| Frame allocator (`memory/frame_allocator.rs`) | bitmaps of used and handed-out frames, free count | `initialize`, `allocate_frame`, `free_frame` | page tables, heap, `_start` |
| Virtual memory (`memory/{page_table,address_space,heap}.rs`) | page tables in frames, the root, the heap's page count | `map`, `translate`, `unmap`, `identity_map`, `new`, `activate`, `initialize`, `rollback` | `_start` |
| Boot (`boot/stage1`, `boot/stage2`, image builder, `boot_info.rs`) | disk image, low memory with fixed buffers, E820 map, kernel range, `BootInfo` | build, read, E820, ELF load, hand-over | firmware, then the kernel |
| Kernel entry (`idt.rs`, `syscall.asm`, `task.rs`, `context.rs`) | registers and stack words | exception stubs, IRQ 0, SYSCALL, first entry of a task | processor |
| Processor tables (`gdt.rs`, `tss.rs`, `idt.rs`, `msr.rs`, `syscall.rs`, `pic.rs`, `pit.rs`) | GDT, TSS, IDT, STAR, LSTAR, FMASK, EFER; the interrupt controller | `init`, `set_rsp0`, `init_syscall_msrs`, `verify_*`, `end_of_interrupt` | `_start`, then the processor on every event |
| Kernel main and user mode (`bin/kernel.rs`, `user.rs`, `user_entry.asm`) | the step of `_start`; CR3, cached translations; privilege, stack and frames of the processor | the steps of `_start`, `enter_ring3`, SYSCALL, the handlers | stage 2, user mode, the timer |

How they interact: the image builder and stage 2 agree on sectors; stage 2 hands
the kernel range and the memory map to the frame allocator through `BootInfo`;
page tables and heap take frames from the allocator and give them back; the
interrupt path of IRQ 0 returns on the stack that its handler selects, which is
the interrupted one at this commit and would be `timer_interrupt`'s choice once
the handler calls it; IPC and objects are reached through handles with
generations.
`_start` calls all of it in a fixed order, and the processor uses the tables it
leaves behind from the moment an event comes in.

What is hard to get right here, and to test: timer interrupts between any two
steps of the kernel thread; switches that are undone half way; handles that
outlive their objects; counters at their limits; locks taken and dropped inside
one call; calls that run out of frames in the middle; memory-map entries of any
alignment; buffers in low memory that several stages write; hand-counted stack
offsets; a setup of twenty-odd steps whose omissions show only in user mode;
page tables that can be written only while they lie in the identity map, and
translations the processor still has; the instructions of a system call that
run in the kernel on the user's stack. `PROJECT.json` lists each of these under
"hazards" with its line and the properties that cover it.

What makes the parts correct, in short: queue, table and current task agree;
what the CPU runs is what the scheduler believes, no frame is resumed twice and
`timer_interrupt` starves no task; a handle reaches its own object or nothing and counts are
exact; an endpoint is a bounded FIFO with a lifetime; exactly the usable frames
are given out; a page is mapped with the rights asked for and no other page
notices; the kernel arrives in memory unchanged; what is interrupted does not
notice; user mode starts only when all it needs is in place, and whatever comes
in there finds a handler, the right segments and a kernel stack.

## 2. Modules

| Module | Models | Extends |
|---|---|---|
| `Scheduler` | `struct Scheduler` and its functions, called in any order | |
| `Preemption` | kernel thread, tasks and IRQ 0 on one CPU | `Scheduler` |
| `ObjectTable` | the object table and its clients | |
| `IpcManager` | the IPC manager, by several threads, lock by lock | |
| `IpcFifo` | what IPC promises (abstract) | |
| `FrameAllocator` | the physical memory manager | |
| `VirtualMemory` | page tables, address space, heap | `FrameAllocator` |
| `AddressMap` | what an address space promises (abstract) | |
| `BootLoader` | image builder, stages 1 and 2, `BootInfo` checks | |
| `KernelEntry` | exception, IRQ and SYSCALL paths, first entry of a task | |
| `Processor` | GDT, TSS, IDT, MSRs and PIC, and how the processor uses them | |
| `KernelMain` | `_start` step by step, CR3 and the TLB, user mode and its events | `VirtualMemory`, `Processor` |
| `SchedulingProofs` | theorems about `Scheduler` and `Preemption` | `Preemption` |
| other `*Proofs` | theorems about the module of that name | that module (`VirtualMemoryProofs` also `FrameAllocatorProofs`, `KernelMainProofs` also `VirtualMemoryProofs`) |
| `MC*` | the instances TLC checks | |

Definitions carry the names of the source where there is one. An operator
`f_Something` under a comment "Mutant" is a wrong version of `f`, used to show
that a property notices the mistake.

**Scheduler.** `sched` is the struct as one record and every method a function
of its value, so that `timer_interrupt`, which runs with interrupts off, is a
composition of them in one step. `Next` offers every function in any order, with
any id up to a bound, valid or not. The slots of the run queue are kept with
their holes, since `rotate` moves the holes too. The position of a task in the
task table is dropped (tasks are found by id only), and so are priorities and
statistics.

**Preemption.** One CPU runs the kernel thread or a task. `pc` is the kernel
thread's place in `run_preemptive_test` or `run_context_switch_test`; IRQ 0 can
come between any two of its steps when the interrupt flag is set. The two
functions never touch that flag, so both initial values are explored. `wired`
says whether `unbound_timer_handler` calls `timer_interrupt`: at this commit it
does not and the timer changes nothing (`IRQ0Returns`); `IRQ0Schedules` is the
same interrupt path with a handler that does, for which `timer_interrupt` and the
path are written. The safety properties hold of both, the liveness property is
about the second. A saved
frame is named after the flow of control it suspends; when the flow runs again,
remaining pointers to the frame become `StaleFrame`. The model decides *which*
flow is resumed; it assumes that resuming a frame restores the flow's stack,
which for a task's first, synthetic frame is wrong as the frame is laid out
(section 6). `_start` does not call the two tests at this commit either.

**ObjectTable.** Every method holds the lock throughout and is one step. Ghost
variables tell the objects of one slot apart: `<<i, r>>` is the object created
in slot `i` after `r` others. Clients release only references they hold, but
anyone may `destroy`, so holders of destroyed objects and their late releases
are part of the model.

**IpcManager.** A call is split at each lock operation: table lock, queue lock,
the work, and for `destroy` the gap between dropping the queue's lock and
clearing the slot. A handle of any age may be used. The ghost `life` counts the
lifetimes of a slot. `boxes` maps the ring buffers to sequences and
`ImplementsFifo` states that every behaviour is one of `IpcFifo`, results
included.

**FrameAllocator.** `initialize` is one step per memory-map entry and per
reserved range; the loops over the frames of one entry are set operations.
`align_up`, `align_down` and the checked addition are arithmetic over bytes, so
rounding errors are visible. The properties speak of bytes, not of rounded
addresses.

**VirtualMemory.** Page tables are functions from table addresses to entries; a
walk goes through four levels, of two entries each in the instance. `map`
creates missing tables, widens the rights of existing ones, and fails half way
when frames run out; `identity_map` stops at the first page it cannot map; heap
initialisation rolls back. `translate` and `unmap` have branches for huge pages
that no entry of these tables reaches, and they are left out. The ghost `reply`
is the last call on the address space, what it was asked for and whether it
succeeded. `ImplementsAddressMap` maps the tables to what the processor makes of
them, a function from pages to address and rights, and states that every step is
one of `AddressMap`: the pages of a call that answers with success, with the
address and rights it was given, and no other; no page at all for a call that
fails, wherever it stopped; and for `identity_map`, which undoes nothing, the
pages before the one that failed.

**BootLoader.** Memory is a function from granules of 16 KiB (one disk read) to
what is in them. The image builder may refuse for reasons the model does not
follow (a bad stage 1, a stage 2 that is too long). The buffer of the kernel file, the E820 map, `BootInfo` and the
stack are at their places in the code. The firmware may fail any call.

**KernelEntry.** The stack is a sequence of words and a register holds a token
for its content. Pushes, pops and offsets are those of the code. The Rust
functions may leave anything in the registers they need not preserve. The
processor pushes an error code for the vectors that have one (`CPU_ERROR_CODE`),
on processors without the extensions behind vectors 21, 29 and 30; which stubs
push a dummy instead is a table of its own (`STUB_ERROR_CODE`).

**Processor.** One record is the processor with the tables it was given. A
descriptor is its kind, a stack its name and a gate its IST number. Below the
kernel's functions stand the rules of the processor, from its manual: which
stack an event is delivered on, what IRETQ checks, and that SYSCALL and SYSRET
compute selectors from STAR and look at no descriptor.

**KernelMain.** `at` is the step of `_start`, in the order of `start_order`; each
step is one action, with the checks that halt. Memory is `VirtualMemory`'s:
`map`, `identity_map`, the heap and the allocator are the same operators, called
in the order and with the arguments of `_start`, so that any of them can run out
of frames. A page table can be written if its address is mapped to itself by the
tables in CR3: 0 to 2 MiB, both in stage 2's tables and in the kernel's; a step
that would write elsewhere faults. `tlb_fill` caches a translation of two pages
(the page that is mapped, unmapped and mapped again, and the first page of the
heap) at any time. User mode starts at the first byte of the entry's page: at
the test routine, or `elsewhere`, where it may do anything. The timer requests
IRQ0 at any time; it is taken when IF is set.

The code as it stands does not get past the INT3 of `_start` (section 6), and
never calls `pic::init`. `build` therefore has two parts, the words that the
exception path removes and whether `pic::init` is called before user mode. All
four combinations are checked. The one of the code ends at the INT3; with the
exception path as its comment describes it the rest of `_start` is reached, and
all properties but the last say the same with and without the PIC.

## 3. Runs

| Run | Instance | Shows |
|---|---|---|
| `scheduler` | 3 slots, 2 tasks, 3 ids, slice 2 | queue, table, counters and current task agree after any calls; a timer interrupt loses no task |
| `preemption` | 4 slots, 3 tasks, 5 ids, slice 2 | no frame resumed twice, CPU and scheduler agree, failed tests clean up; no starvation where the handler calls `timer_interrupt` |
| `objects` | 2 slots, 2 generations, 2 references, 2 retirements | no handle reaches another object; counts are exact at the limit; only `destroy` takes a referenced object away |
| `ipc` | 2 endpoints of capacity 2, 2 threads, 1 reuse | refinement of `IpcFifo`, mutual exclusion, empty reuse, locks let go |
| `frames` | 6 frames of 4 bytes, all maps of up to 2 of 32 entries | exactly the right frames are free, the count is exact |
| `virtual_memory` | 4 levels of 2 entries, 10 frames | refinement of `AddressMap` (every call does what it answers), rights, tree, one use per frame |
| `boot` | kernels of 0 to 33 granules, up to 16 of them bootable | kernel and memory map reach `_start` intact, range exact, boot ends |
| `entry` | 29 exceptions, IRQ 0, SYSCALL, first entry | the timer is not noticed; SYSRET returns; the handler reads its frame |
| `kernel_main` | tables of 24 entries, 28 frames, 26 memory maps, 3 kernels, 2 entries, 4 builds | user mode only after a complete setup, tables in reach, no stale translation; events find handlers, segments and kernel stacks; the timer goes on |
| `boot_large` | kernels of 16 and 17 granules | violated: section 6 |
| `entry_exception`, `entry_number` | as `entry` | violated: section 6 |

**Why the bounds are enough.** The scheduler's instance has one slot more than
tasks, so a rotation meets holes at the front, in the middle and at the end, and
one id more than tasks, so creates are refused. Preemption has room for the two
tasks of a test and one left over that can never be switched to, and a second
test that does not fit. Two generations and two retirements take an object slot
all the way round. A ring of two messages fills, wraps and empties; two threads
and one reuse suffice for every race between a call and a `destroy`. Frames of
four bytes allow all alignments of both ends of an entry; entries overlap each
other and the reserved ranges, and one sum exceeds the address limit
(`ADDRESS_LIMIT` stands for 2^64). With ten frames, one of them kept by a
caller at times, mappings run out at every level of a walk, and the heap's two
pages lie in different last-level tables; callers map one of them before or
after the heap, with and without rights, a page of the upper half, and a
non-canonical and an unaligned address, which are refused. In `kernel_main` a table has 24
entries, as many as the identity map has pages, so that the identity map fills
one page table and the user's code, its stack and the heap need tables of their
own, as they do with 512; memory ends after any number of frames, so that it
runs out at every step, and has frames above the identity map or not; the three
kernels leave 16, 15 and 14 frames below it, on both sides of the 15 that
`TablesReachable` speaks of. (In the kernel these are the frames between the end
of the kernel and 2 MiB, as the whole first MiB is reserved.) The bounds on ids, slices,
retirements, lives and held frames are constants that only appear in guards.

Deadlock is checked except where the system may stop: `preemption` (the tests
return, or the cooperative test faults), `boot` (ends in the kernel or a halt),
`entry` (a path that returns to the wrong place goes no further),
`kernel_main` (a check that fails halts).

**Fairness.** `Preemption` assumes weak fairness of IRQ 0 (`IRQ0Schedules`),
because the PIT is programmed as a periodic timer, and strong fairness of the kernel thread's
steps: timer interrupts may disable a step by taking the CPU, and each time the
thread has the CPU back the processor executes instructions of it between two
interrupts. `IpcManager` assumes that a thread inside a call goes on; nothing is
assumed of threads waiting for the lock, as a spinlock gives them no guarantee.
`BootLoader` assumes that the processor does not stop between steps.
`KernelMain` assumes weak fairness of the timer and of execution in user mode
and in the entry paths, and strong fairness of IRQ0: user mode can leave and
enter the state with IF set for ever, and the processor takes a requested
interrupt before the next instruction there. Nothing is assumed of the steps of
`_start`.

## 4. Proofs

All theorems hold for every value of the constants that satisfies the named
assumptions: sizes are positive, the task table is not larger than the run
queue, `None`-like values are distinct from real ones, ranges are not empty,
no endpoint is reused so often that its generation wraps, the buffers of the
boot lie as they do in the code (`LayoutAssumption`), and the addresses that are
mapped are below 2^64, which is a multiple of what four levels of tables span
(`VirtualAssumption`). None of them needs fairness.

`KernelMain` has one more, `AddressAssumption`, for its memory. The identity map is
whole pages of one page table and holds the kernel: `stage2.asm` copies the
segments in long mode, when only the first 2 MiB are mapped (line 1373), and
`kernel.rs:592` maps the same 2 MiB. The user's code and stack (0x400000 and
0x800000, `user.rs:5`) are below the same entry of the PDPT as these, the heap
(0x40000000, `heap.rs:7`) below the same entry of the PML4, and the stack and the
heap each fit in one page table. This decides how many tables each step makes,
which is what `TablesReachable` counts. Where the physical pages lie is not
assumed, and neither is that the frames suffice.

- **`SchedulingProofs`**, for `Scheduler`: `TypeCorrect`, `QueueAndTableAgree`,
  `CurrentNeverDangles`, `TimerLosesNoTask`. The inductive invariant is
  `SchedInv` of the struct's value: types, agreement of queue and table, and a
  current task that exists. They need each other: `remove_task` chooses a new
  current task from the queue, and it exists only because queue and table
  agree. The queue is abstracted by `Holds(q, S)`, "q holds exactly the ids S,
  each once, and counts them"; push, remove and rotate are lemmas about it.
  Each method then has a lemma that it preserves `SchedInv`.
- **`SchedulingProofs`**, for `Preemption`: `PreemptInvariance`, and from it
  `NothingStaleIsResumed`, `WhatRunsIsCurrent`, `RunningIsCurrent`,
  `FramesOfWaitingTasks`, `FailedTestUndone`, wherever interrupts fall and for
  any sizes. None of the five is inductive. `PreemptInv` takes `SchedInv` from
  the scheduler and adds who owns each saved frame: the flow that runs owns none,
  a suspended flow is owned by exactly one task (the kernel thread's may be saved
  in the task that was current when it was interrupted), and what the kernel
  thread's place in the test says of its two tasks. The scheduler's methods come
  in through lemmas on what they change of a task's frame and state.
- **`ObjectTableProofs`**: `TypeCorrect`, `HandlesAreSound`, `GetTypeIsSound`,
  `CountsAreExact`, `LiveObjectsStay`. `StaleHandlesRefused` is not inductive. The strengthening is
  `GenerationIsBirth` (before the wrap the generation counts the objects the
  slot has lost, so no two have the same handle), `FutureUnborn` and
  `IssuedHere`.
- **`IpcManagerProofs`**: `TypeCorrect`, `MutualExclusion`, `Refinement`: any
  number of threads sees bounded FIFOs. The invariant adds to the types that
  generations are lives (`HandlesOK`), rings are rings and closed endpoints are
  empty (`QueuesOK`), a call past its handle check has a valid handle, and one
  about to clear finds an empty queue (`CallsOK`); the last holds only because
  of `LocksHeld`. `SendAppends` and `ReceiveTakesHead` show that the ring
  operations are `Append` and `Head`/`Tail`. `FreedQueuesAreEmpty` adds
  `RestEmpty`: the slots of a ring outside its messages are empty, which `receive`
  keeps only because it takes the message out of its slot.
- **`FrameAllocatorProofs`**: `TypeCorrect`, `CountIsExact`,
  `FreeFramesAreRight`, `HandsOutUsable`, `MovesOneFrame`, for any frame size,
  memory map and ranges. `Progress` says which frames are free after n entries
  or ranges. Lemmas connect rounding with bytes (`AlignUp`, `AlignDown`,
  `RegionFrames`, `RangeFrames`).
- **`VirtualMemoryProofs`**: `MemoryInvariance`, and from it `TablesAreTree`,
  `RightsAreGranted`, `FramesHaveOneUse` and the refinement
  `AddressMapImplemented`, for any number of entries, frame size, memory map, heap
  and set of requests. None is inductive, and each needs the others: a walk ends in
  one table only because the tables are a tree, they stay one only because the
  allocator's next frame is nobody's, and that is so only because every frame
  handed out has an owner. `VInv` states the three together: a level for each table
  such that all but the root hang on one entry of the level above (`Tree`), no
  entry with a right that the entry above lacks (`Rights`), and each frame handed
  out with a caller, a table, or one page of the heap (`Own`). Pages with the same
  four indexes are the same page (`PagesApart`), so that setting a leaf changes one
  page (`LeafSet`). One level of a walk (`GetOrCreate`), a walk, `map` and `unmap`
  are lemmas about the memory they are given; `identity_map`, the heap's loop and
  its rollback are functions, and the lemmas about them look at the first turn
  that could break what the loop keeps (`IdentityMaps`, `HeapMaps`, `Rollback`).
  For the refinement the mappings are read off the leaves (`MappingsAre`), and what
  each call adds to or takes from them is compared with its answer (`Follows`): a
  `map` that fails has the leaves it had, the heap's rollback takes back every
  leaf it had set, and `identity_map` succeeds exactly if it got to the end.
- **`BootLoaderProofs`**: `FittingKernelIsIntact`, `RangeIsExact`,
  `MemoryMapIsIntact`. `BootInv` says for each place of the boot which parts of
  the file are in the buffer, which segments are copied and zeroed (later ones
  spare earlier ones if they do not overlap), what `low` and `high` have seen, and
  that nothing is written over the E820 map once it is there. The first theorem
  carries the condition that the file ends below the map's buffer; the run
  `boot_large` shows that it cannot be dropped.
- **`KernelEntryProofs`**: `IrqIsTransparent`, `SyscallComesBack`,
  `HandlerIsGivenFrame`, for any contents of the registers and anything the Rust
  functions leave in the ones they may change. `EntryInv` gives the words of the
  stack at each place of the three paths; lemmas about pushing and popping a list
  of registers connect them.
- **`KernelMainProofs`**, the processor: `EventsAreHandled`, `PrivilegesMatch`,
  `FramesAreOnKernelStacks`, for any memory map, layout and entry, in all four
  builds and wherever frames run out. `MainInv` says for each place which tables
  are set up (`Done`), with which segments, stack and interrupt flag the
  processor is there (`Context`), and in a handler the same of the frame it will
  return to; between SYSCALL and SYSRET it says that interrupts are off, which is
  why no frame is pushed on the user's stack. Where the processor has stopped it
  is in the kernel.
- **`KernelMainProofs`**, the memory: `MemInvariance`, and from it
  `TablesAreReached`, `TranslationsAreFresh` and `UserModeIsReady`, as generally.
  None of the three is inductive: user mode needs what eight earlier steps have
  mapped, and nothing that the later ones do may have taken it away. `MemInv` has
  a predicate for each step of `_start` (`Holds`), read at the place the
  processor will return to while it is in a handler. It states what the steps so
  far have mapped, by the leaves of the tables and not by walks (`LowIn`,
  `CodeIn`, `StackIn`); that nothing is cached before CR3 is loaded, and that
  afterwards what is cached is what a leaf says (`CachedIn`); and how many frames
  below 2 MiB are left (`Left`: 13 before the scratch tables, then 9, 8, 5, 4, 4,
  4, 3, and 3 before the heap), if there were 15.
  The scratch tables stay in memory beside the kernel's, so the tables are not one
  tree. `Fit(m, D, H, S)` says that they are one, with rights and owners as in
  `VirtualMemoryProofs`, without the tables D, whose frames are among those
  handed out; the lemmas there are applied to the memory without D (`Without`), and a
  call on the one is shown to be the call on the other (`MapWithout` and the like).
  `Spends(m, r, j)` says that a call takes at most j frames below 2 MiB and, while
  there are that many, puts every new table in one: the allocator takes the first
  free frame (`TakeLow`), and a walk makes only the tables that it lacks (`Has`,
  `WalkSpends`). That the unmap of the test takes nothing from the first 2 MiB
  is known because the step before found the user's page not mapped (`Beside`).

The attempt to prove `FailedTestLeavesNothing` showed that an earlier version of
`Preemption` removed tasks that the code leaves alone when the first of the two
cannot be created (`mod.rs:966`); the model has been corrected.

Only model-checked: liveness (`BothTasksKeepRunning`, `TableLockReleased`,
`BootEnds`, `TimerKeepsTicking`), since liveness under fairness is out of the
prover's reach. Every other property of the passing runs is a theorem.
Proved and not checked by a run of its own: `TypesTruthful`, `OneFrameMoves` and
the `TypeOK` of `FrameAllocator`.

## 5. What is not modelled

`arch/x86_64/syscall.S` is not built. The scripts of the spinlock, object, IPC
and dispatcher tests of `_start` are one step each that passes or halts; the
calls they make are modelled where they belong. `pit::init`, `pic::enable_irq`
and `disable_irq` are called by nobody. Non-maskable interrupts, machine checks
and interrupts other than IRQ0 are left out; the NMI's gate has no stack of its
own (`idt.rs:443`), so one that came between SYSCALL and the stack switch would be
delivered on the user's stack. Serial output, the mode switches and boot page
tables of stage 2 and the memory ordering of the spinlock are left out.
A lock held across an interrupt is not modelled, as no handler takes one. A slot whose generation has
gone round 2^32 times is excluded from the properties about handles: a stale
handle is accepted again then. `align_up` of an address in the last page below
2^64 overflows in Rust and not in the model.

## 6. Where the code and its comments disagree

Each of these is stated as a property, all but the first at the end of its
module. The first three have a run that shows the counterexample; the others
are violated under the configurations of the passing runs.

- `BootLoader!KernelIntact` for kernels over 256 KiB (`boot_large`). The kernel
  file is read to 0x20000 and may be 512 KiB, and the E820 map is written to
  0x60000 before the segments are copied. The image builder's comment says that
  the largest kernel buffer ends where the E820 buffer begins. The passing run
  is therefore about kernels up to 256 KiB.
- `KernelEntry!ExceptionResumes` (`entry_exception`). The common exception path
  removes 8 bytes (`idt.rs:853`) where the comment above says vector and error
  code, 16 bytes; IRETQ takes the error code as RIP.
- `KernelEntry!NumberDispatched` (`entry_number`). The offsets in `syscall.asm`
  are one slot off, and the number dispatched on is the user's RSI.
- `KernelEntry!TaskStartsOnItsStack`. IRETQ in long mode pops
  RSP and SS too; the synthetic frame of a task has no words for them, so the
  task gets zeros.
- `KernelEntry!R12Kept`. `syscall.asm:38` overwrites R12 with the user's RSP
  before anything is saved; the comment at line 35 calls this safe.
- `Preemption!RoundRobin`. `queue.rs:125` calls `rotate` a round robin, but it
  rotates the holes of the array as well: after the switch from slot 0 the
  remaining task stays first for many rotations, and an expired slice goes to
  the task that just had it. `BothTasksKeepRunning` shows that no task starves
  all the same, where the timer handler calls the scheduler.
- `Preemption!TimerPreempts`. The header of `scheduler/mod.rs` speaks of
  timer-driven preemptive scheduling, and `timer_interrupt` (`mod.rs:405`) does
  it, but nothing calls it: `unbound_timer_handler` sets `next_rsp` to the frame
  it was given (`kernel.rs:1850`), so a task that has been entered keeps the CPU.
  `README.md:49` lists the integration as open.
- `Preemption!CooperativeSwitchIntact`. `run_context_switch_test` switches to a
  task whose context was never set up (`mod.rs:796`) and jumps to address 0; the
  header of `mod.rs` says cooperative switching remains intact.
- `Scheduler!ContextsUseStoredStack`. `create_initial_task` sets up a context in
  a local `Task` and then moves it (`mod.rs:604`), which the comment at
  `mod.rs:986` says must not be done.
- `KernelMain!Int3Returns`. With the exception path as it is coded the INT3 at
  `kernel.rs:278` does not come back, and `EARLY EXCEPTION TEST: INT3 RETURNED`
  (`kernel.rs:281`) is not printed.
- `KernelMain!TargetExecutesSyscall`. `user.rs:48` says that the target of
  `enter_ring3` executes SYSCALL immediately. `kernel.rs:741` maps the page of
  the test routine and `kernel.rs:1145` enters at the first byte of the page; the
  routine's offset in it is lost, and nothing aligns the routine to a page.
- `KernelMain!Irq0IsTheTimer`. `pic.rs:15` says that IRQ0 is remapped to vector
  32. Nothing calls `pic::init`, so it arrives as vector 8, the double fault,
  whose stub counts on an error code that a hardware interrupt does not push.

Two smaller ones without a property: `README.md` says the timer runs at 64 Hz
and `pit.rs` programs 100 Hz; `frame_allocator.rs:106` speaks of 42 sectors and
reserves 16 KiB, where stage 2 reads 1024 sectors (harmless, as all of the
first MiB is reserved).

## 7. Plan

Every safety property of section 3 is proved. What would come next: the scripts of
the object, IPC and dispatcher tests of `_start`, which are one step each in
`KernelMain`, as calls of `ObjectTable` and `IpcManager`; and the scheduler in user
mode, once `_start` calls it.
