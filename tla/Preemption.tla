----------------------------- MODULE Preemption ------------------------------
(***************************************************************************)
(* The scheduler at work on one CPU: the kernel thread inside               *)
(* run_preemptive_test or run_context_switch_test, the tasks it starts, and *)
(* IRQ0 whenever interrupts are on.                                         *)
(*                                                                         *)
(* At this commit unbound_timer_handler resumes the frame it interrupted,   *)
(* and nothing calls timer_interrupt.  The entry path is written to resume  *)
(* whatever frame the handler returns, and timer_interrupt to return one:   *)
(* wired says whether the handler calls it.  Without it the timer changes   *)
(* nothing; the properties hold with and without.                           *)
(*                                                                         *)
(* A flow of control is the kernel thread or a task.  A saved interrupt     *)
(* frame is named after the flow it suspends.  Once that flow runs again    *)
(* the frame is dead memory, but the pointers to it stay: they become       *)
(* StaleFrame here, which still passes validate_interrupt_frame (that looks *)
(* at the words, and nothing overwrites them at once).                      *)
(*                                                                         *)
(* The module is about which flow is resumed, and when.  Resuming a frame   *)
(* gives its flow the registers and the stack it had; for the synthetic     *)
(* frame of a new task this is what the comment of prepare_preemptive_start *)
(* says and what KernelEntry!TaskStartsOnItsStack shows to be wrong for the *)
(* frame as it is laid out.                                                 *)
(***************************************************************************)
EXTENDS Scheduler

CONSTANTS
    StaleFrame,     \* a pointer to a frame whose flow has run since
    Tests           \* which of the two tests the kernel thread may call

Kernel == 0
Flows == {Kernel} \cup 1 .. MaxTaskId

ASSUME FlowFramesAssumption ==
    /\ StaleFrame \notin Flows
    /\ Frames = Flows \cup {StaleFrame}
    /\ ValidFrames = Frames
    /\ Tests \subseteq {"preemptive", "context"}

VARIABLES
    cpu,        \* the flow that is executing
    int_flag,   \* RFLAGS.IF
    pc,         \* where the kernel thread is
    a, b,       \* task_a_id and task_b_id of the running test
    fault,      \* "none", or what the CPU was made to resume
    wired       \* does unbound_timer_handler call timer_interrupt? Not yet

kvars == <<pc, a, b>>
pvars == <<vars, cpu, int_flag, pc, a, b, fault, wired>>

-----------------------------------------------------------------------------
(* Flow f runs: every pointer to a frame of f, and the start context of f   *)
(* that pops its synthetic frame, is used up.                               *)
Consume(s, f) ==
    [s EXCEPT !.tasks = [t \in Present(s) |->
        [s.tasks[t] EXCEPT
            !.interrupt_rsp = IF @ = f THEN StaleFrame ELSE @,
            !.context.rip = IF t = f /\ @ = "trampoline" THEN "consumed" ELSE @]]]

PInit ==
    /\ Init
    /\ cpu = Kernel
    /\ int_flag \in BOOLEAN       \* the tests neither set nor clear it
    /\ pc = "start" /\ a = None /\ b = None
    /\ fault = "none"
    /\ wired \in BOOLEAN

KernelAt(l) == cpu = Kernel /\ fault = "none" /\ pc = l

Goto(l) == pc' = l /\ UNCHANGED <<cpu, int_flag, a, b, fault, wired>>

(* Tasks that were there before the test: none of them is ever entered.     *)
InitialTask == KernelAt("start") /\ create_initial_task /\ Goto("start")

CallTest(test) ==
    /\ KernelAt("start") \/ KernelAt("returned") \/ KernelAt("ctxReturned")
    /\ nextTaskId + 1 <= MaxTaskId
    /\ a' = nextTaskId /\ b' = nextTaskId + 1
    /\ nextTaskId' = nextTaskId + 2
    /\ pc' = IF test = "preemptive" THEN "createA" ELSE "ctxCreateA"
    /\ UNCHANGED <<sched, cpu, int_flag, fault, wired>>

(* Mutant: a test that returns early leaves its first task behind.          *)
CreateOrReturn_NoUndo(id, undo, then, return) ==
    /\ sched' = IF CanCreate(sched, id) THEN create_task(sched, id, Task_new) ELSE sched
    /\ UNCHANGED nextTaskId
    /\ Goto(IF CanCreate(sched, id) THEN then ELSE return)

(* create_task(task) by the test; on None it undoes the creation of `undo`, *)
(* if there is one, and returns.                                            *)
CreateOrReturn(id, undo, then, return) ==
    /\ sched' = IF CanCreate(sched, id) THEN create_task(sched, id, Task_new)
                ELSE IF undo = None THEN sched ELSE remove_task(sched, undo)
    /\ UNCHANGED nextTaskId
    /\ Goto(IF CanCreate(sched, id) THEN then ELSE return)

(* The task was created by the step before, so that it is found: the branch *)
(* CONTEXT INIT FAILED is not reached.                                      *)
Prepare(id) ==
    /\ sched' = with_task(sched, id, prepare_preemptive_start(sched.tasks[id], id))
    /\ UNCHANGED nextTaskId

run_preemptive_test ==
    \/ KernelAt("createA") /\ CreateOrReturn(a, None, "prepareA", "returned")
    \/ KernelAt("prepareA") /\ Prepare(a) /\ Goto("createB")
    \/ KernelAt("createB") /\ CreateOrReturn(b, a, "prepareB", "returned")
    \/ KernelAt("prepareB") /\ Prepare(b) /\ Goto("setCurrent")
    \/ /\ KernelAt("setCurrent")
       /\ sched' = set_current(sched, a)
       /\ UNCHANGED nextTaskId
       /\ Goto("markRunning")
    \/ /\ KernelAt("markRunning")
       /\ sched' = running_afresh(sched, a)
       /\ UNCHANGED nextTaskId
       /\ Goto("select")

(* No initialize_context: the tasks keep the empty context of Task::new.    *)
run_context_switch_test ==
    \/ KernelAt("ctxCreateA") /\ CreateOrReturn(a, None, "ctxCreateB", "ctxReturned")
    \/ KernelAt("ctxCreateB") /\ CreateOrReturn(b, None, "select", "ctxReturned")

(* switch_kernel_to_task(a), up to the context switch ...                   *)
Select == KernelAt("select") /\ switch_kernel_to_task(a) /\ Goto("switch")

(* ... and context::switch: jmp context.rip.  The trampoline irets through  *)
(* the synthetic frame, whose RFLAGS have IF set.                           *)
ContextSwitch ==
    /\ KernelAt("switch")
    /\ LET rip == sched.tasks[a].context.rip IN
         \/ /\ rip = "trampoline"
            /\ sched' = Consume(sched, a)
            /\ cpu' = a /\ int_flag' = TRUE /\ pc' = "parked"
            /\ UNCHANGED fault
         \/ /\ rip # "trampoline"
            /\ fault' = rip
            /\ UNCHANGED <<sched, cpu, int_flag, pc>>
    /\ UNCHANGED <<nextTaskId, a, b, wired>>

(* unbound_irq0 with unbound_timer_handler as it is: the frame it was given *)
(* is popped again, and no pointer to it was kept.                          *)
IRQ0Returns == ~wired /\ int_flag /\ fault = "none" /\ UNCHANGED pvars

(* unbound_irq0 with a handler that calls timer_interrupt: the interrupt    *)
(* gate clears IF, timer_interrupt decides, and iretq resumes the chosen    *)
(* frame with the IF it was saved with (set).                               *)
IRQ0Schedules ==
    /\ wired /\ int_flag /\ fault = "none"
    /\ LET r == timer_interrupt(sched, cpu)
           f == IF r.ret = NullFrame THEN cpu ELSE r.ret
       IN  /\ cpu' = IF f \in Flows THEN f ELSE cpu
           /\ fault' = IF f \in Flows THEN "none" ELSE "stale_frame"
           /\ sched' = Consume(r.sched, f)
    /\ int_flag' = TRUE
    /\ UNCHANGED <<nextTaskId, kvars, wired>>

KernelStep ==
    \/ InitialTask
    \/ \E test \in Tests : CallTest(test)
    \/ run_preemptive_test
    \/ run_context_switch_test
    \/ Select
    \/ ContextSwitch

PNext == KernelStep \/ IRQ0Returns \/ IRQ0Schedules

(* The PIT is periodic, so a timer interrupt that stays possible happens;   *)
(* the kernel thread runs whenever it has the CPU.  Both take turns: the    *)
(* thread makes a step between two interrupts.                              *)
PSpec == PInit /\ [][PNext]_pvars
FairPSpec == PSpec /\ WF_pvars(IRQ0Schedules) /\ SF_pvars(KernelStep)

-----------------------------------------------------------------------------
(* Properties.                                                              *)

(* No frame and no start context is resumed twice, however timer interrupts *)
(* fall between the steps of the kernel thread: what timer_interrupt or     *)
(* context::switch resumes is the live suspension of a flow (or the empty   *)
(* context, which CooperativeSwitchIntact is about).                        *)
NoStaleResume == fault \in {"none", "null"}

(* What runs is what the scheduler believes runs: a task executes only      *)
(* while it is current_task, so every tick is charged to it and every frame *)
(* is saved in its own Task.                                                *)
CpuMatchesCurrent == cpu # Kernel => cpu = sched.current_task

(* At most the current task is in state Running, whatever mixture of        *)
(* switches, aborted switches and kept slices came before.                  *)
OnlyCurrentRunning ==
    \A t \in Present(sched) :
        sched.tasks[t].state = "Running" => t = sched.current_task

(* A task that waits holds the frame of a suspended flow (its own, or the   *)
(* kernel thread's when that was interrupted in the task's name) or none,   *)
(* and no two waiting tasks hold the same one.                              *)
WaitingFramesLive ==
    LET waiting == Present(sched) \ {sched.current_task}
        rsp(t)  == sched.tasks[t].interrupt_rsp
    IN  \A t \in waiting :
          /\ rsp(t) \in {NullFrame, Kernel, t} \ {cpu}
          /\ \A u \in waiting \ {t} : rsp(t) = rsp(u) => rsp(t) = NullFrame

(* All or nothing: a preemptive test that cannot create both its tasks has  *)
(* neither left when it returns, whatever the timer did to a task it had    *)
(* already created (run_context_switch_test, which returns at once when B   *)
(* is refused, promises no such thing).                                     *)
FailedTestLeavesNothing ==
    pc = "returned" => {a, b} \cap Present(sched) = {}

(* No starvation by timer_interrupt: with a handler that calls it, once the *)
(* preemptive test has entered its tasks, each of the two gets the CPU      *)
(* again and again, also with a task in the queue that can never be         *)
(* switched to.  (Of the handler as it is, see TimerPreempts.)              *)
BothTasksKeepRunning ==
    (wired /\ pc = "parked") ~> ([]<>(cpu = a) /\ []<>(cpu = b))

-----------------------------------------------------------------------------
(* Statements of the source that the code does not keep.                    *)

(* The header of scheduler/mod.rs: "Phase 3.3 cooperative context switching *)
(* remains intact", which run_context_switch_test is to show.  It jumps     *)
(* through the empty context of a new task.                                 *)
CooperativeSwitchIntact == fault # "null"

(* The header of scheduler/mod.rs: "timer-driven preemptive scheduling".    *)
(* With the handler as it is, task A keeps the CPU for ever.                *)
TimerPreempts == (pc = "parked") ~> (cpu = b)

(* queue.rs calls rotate "Simple round-robin rotation": when the slice of   *)
(* the running task has expired and another task is queued, the CPU goes to *)
(* another task.  The holes rotate too, so it often goes to the same one.   *)
RoundRobin ==
    [][(IRQ0Schedules /\ cpu # Kernel /\ Cardinality(Present(sched)) > 1
          /\ SliceExpired(saved_and_ticked(sched, cpu))) => cpu' # cpu]_pvars
=============================================================================
