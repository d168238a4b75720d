------------------------------ MODULE Scheduler ------------------------------
(***************************************************************************)
(* The kernel task scheduler: `struct Scheduler` with its `RunQueue`       *)
(* (kernel/src/scheduler/{mod,queue,task}.rs) and the free functions that   *)
(* act on the global SCHEDULER.                                            *)
(*                                                                         *)
(* The struct is one record, sched, so that the handlers that make several *)
(* calls on it (timer_interrupt above all) are compositions of the         *)
(* operators below and remain one atomic step, as they are in an interrupt *)
(* gate.                                                                   *)
(*                                                                         *)
(* Left out: priority and the tick counters total_ticks/scheduler_ticks,   *)
(* which no decision reads, and the position of a task in the `tasks`      *)
(* array, which nothing observes (task and task_mut search it by id): that *)
(* array is a function from the ids present to their tasks.                *)
(***************************************************************************)
EXTENDS Integers, FiniteSets

CONSTANTS
    MAX_TASKS,                  \* slots of the run queue (64)
    MAX_SCHEDULER_TASKS,        \* slots of the task table (8)
    DEFAULT_TIME_SLICE_TICKS,   \* ticks of a time slice (5)
    Frames,                     \* saved interrupt frames a task may point to
    ValidFrames,                \* those that validate_interrupt_frame accepts
    NullFrame,                  \* interrupt_rsp = 0
    MaxTaskId,                  \* bound: ids handed out by allocate_task_id
    MaxSlice                    \* bound: time_slice_ticks of one task

ASSUME SizesAssumption ==
    /\ MAX_TASKS \in Nat \ {0}
    /\ MAX_SCHEDULER_TASKS \in Nat \ {0}
    /\ MAX_SCHEDULER_TASKS <= MAX_TASKS
    /\ DEFAULT_TIME_SLICE_TICKS \in Nat \ {0}
    /\ MaxTaskId \in Nat
    /\ MaxSlice \in Nat

ASSUME FramesAssumption ==
    /\ ValidFrames \subseteq Frames
    /\ NullFrame \notin Frames

VARIABLES
    sched,      \* static mut SCHEDULER
    nextTaskId  \* NEXT_TASK_ID

vars == <<sched, nextTaskId>>

(* Option<TaskId>::None: allocate_task_id starts at 1, so 0 is never an id. *)
None == 0
TaskIds == Nat \ {0}
Slots == 0 .. MAX_TASKS - 1

TaskState == {"Ready", "Running", "Blocked", "Terminated"}

(* A cooperative TaskContext, by what its rip and its rsp point at.         *)
Rip == {"null", "entry", "trampoline", "saved", "consumed"}
StackOf == {"null", "local", "stored"}
TaskContext == [rip : Rip, stack : StackOf]
EmptyContext == [rip |-> "null", stack |-> "null"]

Task == [state : TaskState, time_slice_ticks : Nat,
         context : TaskContext, interrupt_rsp : Frames \cup {NullFrame}]

-----------------------------------------------------------------------------
(* RunQueue: a fixed array with holes and a count.                          *)

RunQueue == [slots : [Slots -> Nat], count : Int]

EmptyQueue == [slots |-> [i \in Slots |-> None], count |-> 0]

(* Index of the first slot, in array order, that holds v.                   *)
FirstSlot(q, v) ==
    CHOOSE i \in Slots : q.slots[i] = v /\ \A j \in Slots : q.slots[j] = v => i <= j

(* The ids some slot holds.                                                 *)
Queued(q) == {q.slots[i] : i \in Slots} \ {None}

contains(q, id) == \E i \in Slots : q.slots[i] = id

CanPush(q, id) == q.count < MAX_TASKS /\ ~contains(q, id) /\ contains(q, None)

push(q, id) ==
    [slots |-> [q.slots EXCEPT ![FirstSlot(q, None)] = id], count |-> q.count + 1]

remove(q, id) ==
    IF contains(q, id)
      THEN [slots |-> [q.slots EXCEPT ![FirstSlot(q, id)] = None], count |-> q.count - 1]
      ELSE q

first(q) ==
    IF Queued(q) = {} THEN None
    ELSE q.slots[CHOOSE i \in Slots : /\ q.slots[i] # None
                                      /\ \A j \in Slots : q.slots[j] # None => i <= j]

(* Mutant: the element shifted out of slot 0 is not put back at the end.    *)
rotate_DropsFirst(q) ==
    IF q.count <= 1 THEN q
    ELSE [q EXCEPT !.slots = [i \in Slots |->
                                IF i < MAX_TASKS - 1 THEN q.slots[i + 1] ELSE None]]

(* Every slot moves down by one, holes included; slot 0 goes to the end.    *)
rotate(q) ==
    IF q.count <= 1 THEN q
    ELSE [q EXCEPT !.slots = [i \in Slots |->
                                IF i < MAX_TASKS - 1 THEN q.slots[i + 1] ELSE q.slots[0]]]

-----------------------------------------------------------------------------
(* Scheduler: the methods of the struct, as functions of its value.         *)

Scheduler_new == [run_queue |-> EmptyQueue, current_task |-> None,
                  task_count |-> 0, tasks |-> [t \in {} |-> 0]]

Task_new == [state |-> "Ready", time_slice_ticks |-> 0,
             context |-> EmptyContext, interrupt_rsp |-> NullFrame]

Present(s) == DOMAIN s.tasks

CanCreate(s, id) == s.task_count < MAX_SCHEDULER_TASKS /\ CanPush(s.run_queue, id)

(* create_task: with the table full after a successful push, the push is    *)
(* taken back.                                                              *)
create_task(s, id, task) ==
    IF ~CanCreate(s, id) THEN s
    ELSE IF Cardinality(Present(s)) < MAX_SCHEDULER_TASKS
      THEN [run_queue |-> push(s.run_queue, id),
            current_task |-> s.current_task,
            task_count |-> s.task_count + 1,
            tasks |-> [t \in Present(s) \cup {id} |->
                         IF t = id THEN task ELSE s.tasks[t]]]
      ELSE [s EXCEPT !.run_queue = remove(push(@, id), id)]

(* Mutant: the current task keeps its id after it is removed.               *)
remove_task_KeepsCurrent(s, id) ==
    IF ~contains(s.run_queue, id) THEN s
    ELSE [s EXCEPT !.run_queue = remove(@, id),
                   !.tasks = [t \in Present(s) \ {id} |-> s.tasks[t]],
                   !.task_count = IF @ > 0 THEN @ - 1 ELSE @]

(* Mutant: the run queue forgets the task but the count does not change.    *)
remove_task_KeepsCount(s, id) ==
    IF ~contains(s.run_queue, id) THEN s
    ELSE LET q == remove(s.run_queue, id) IN
         [s EXCEPT !.run_queue = q,
                   !.tasks = [t \in Present(s) \ {id} |-> s.tasks[t]],
                   !.current_task = IF @ = id THEN first(q) ELSE @]

remove_task(s, id) ==
    IF ~contains(s.run_queue, id) THEN s
    ELSE LET q == remove(s.run_queue, id) IN
         [run_queue |-> q,
          current_task |-> IF s.current_task = id THEN first(q) ELSE s.current_task,
          task_count |-> IF s.task_count > 0 THEN s.task_count - 1 ELSE s.task_count,
          tasks |-> [t \in Present(s) \ {id} |-> s.tasks[t]]]

set_current(s, id) ==
    IF contains(s.run_queue, id) THEN [s EXCEPT !.current_task = id] ELSE s

(* if let Some(task) = task_mut(id) { *task = new }                         *)
with_task(s, id, new) ==
    IF id \in Present(s) THEN [s EXCEPT !.tasks[id] = new] ELSE s

tick(s) ==
    LET t == s.current_task IN
    with_task(s, t, [s.tasks[t] EXCEPT !.time_slice_ticks = @ + 1])

(* Mutant: the next task is taken from the queue before it is rotated, and   *)
(* the rotation never happens.                                              *)
schedule_NoRotate(s) ==
    IF s.run_queue.count = 0 THEN [s EXCEPT !.current_task = None]
    ELSE [s EXCEPT !.current_task = first(s.run_queue)]

schedule(s) ==
    IF s.run_queue.count = 0 THEN [s EXCEPT !.current_task = None]
    ELSE LET q == rotate(s.run_queue)
         IN  [run_queue |-> q, current_task |-> first(q),
              task_count |-> s.task_count, tasks |-> s.tasks]

(* Record the outcome "keep running id": Running, with a fresh slice.       *)
running_afresh(s, id) ==
    with_task(s, id, [s.tasks[id] EXCEPT !.state = "Running", !.time_slice_ticks = 0])

with_state(s, id, st) == with_task(s, id, [s.tasks[id] EXCEPT !.state = st])

validate_interrupt_frame(f) == f \in ValidFrames

(* Mutant: the tick is accounted but the interrupted frame is not saved.    *)
saved_and_ticked_NoSave(s, frame) ==
    tick(with_task(s, s.current_task,
           [s.tasks[s.current_task] EXCEPT !.state = "Running"]))

(* timer_interrupt, first part: save the interrupted frame, account a tick. *)
saved_and_ticked(s, frame) ==
    tick(with_task(s, s.current_task,
           [s.tasks[s.current_task] EXCEPT !.interrupt_rsp = frame, !.state = "Running"]))

SliceExpired(s) ==
    s.tasks[s.current_task].time_slice_ticks >= DEFAULT_TIME_SLICE_TICKS

Resume(s) == [sched |-> s, ret |-> NullFrame]
SwitchTo(s, f) == [sched |-> s, ret |-> f]

(* Mutant: the outgoing task is left in state Running by a switch.          *)
preempt_LeavesRunning(s, cur) ==
    LET r    == schedule(s)
        next == r.current_task
        kept == running_afresh([r EXCEPT !.current_task = cur], cur)
    IN  IF next \in {None, cur} THEN Resume(running_afresh(r, cur))
        ELSE IF next \notin Present(s) THEN Resume(kept)
        ELSE IF ~validate_interrupt_frame(s.tasks[next].interrupt_rsp)
          THEN Resume(with_state(kept, next, "Ready"))
        ELSE SwitchTo(running_afresh(r, next), s.tasks[next].interrupt_rsp)

(* Mutant: a refused switch leaves current_task at the task it refused.     *)
preempt_AbortKeepsNext(s, cur) ==
    LET r    == schedule(s)
        next == r.current_task
        kept == running_afresh(r, cur)
    IN  IF next \in {None, cur} THEN Resume(running_afresh(r, cur))
        ELSE IF next \notin Present(s) THEN Resume(kept)
        ELSE IF ~validate_interrupt_frame(s.tasks[next].interrupt_rsp)
          THEN Resume(with_state(kept, next, "Ready"))
        ELSE SwitchTo(running_afresh(with_state(r, cur, "Ready"), next),
                      s.tasks[next].interrupt_rsp)

(* timer_interrupt, second part: the slice of cur has expired.              *)
preempt(s, cur) ==
    LET r    == schedule(s)
        next == r.current_task
        kept == running_afresh([r EXCEPT !.current_task = cur], cur)
    IN  IF next \in {None, cur} THEN Resume(running_afresh(r, cur))
        ELSE IF next \notin Present(s) THEN Resume(kept)
        ELSE IF ~validate_interrupt_frame(s.tasks[next].interrupt_rsp)
          THEN Resume(with_state(kept, next, "Ready"))
        ELSE SwitchTo(running_afresh(with_state(r, cur, "Ready"), next),
                      s.tasks[next].interrupt_rsp)

(* The value returned to unbound_irq_common: the interrupt frame to resume, *)
(* NullFrame (0) to resume the interrupted one.                             *)
timer_interrupt(s, frame) ==
    LET cur == s.current_task
        t   == saved_and_ticked(s, frame)
    IN  IF cur \notin Present(s) THEN Resume(s)
        ELSE IF ~SliceExpired(t) THEN Resume(t)
        ELSE preempt(t, cur)

(* Task::initialize_context on a Task that still is a local variable of     *)
(* create_initial_task: its rsp points into that variable's stack.          *)
initialize_context(task) == [task EXCEPT !.context = [rip |-> "entry", stack |-> "local"]]

(* initialize_interrupt_context, then prepare_preemptive_start, on a stored *)
(* task; frame is the synthetic frame on its own stack.                     *)
prepare_preemptive_start(task, frame) ==
    [task EXCEPT !.interrupt_rsp = frame,
                 !.context = [rip |-> "trampoline", stack |-> "stored"]]

-----------------------------------------------------------------------------
(* The operations on SCHEDULER, in any order: what its functions guarantee  *)
(* whoever calls them.                                                      *)

(* Mutant: NEXT_TASK_ID starts at 0, the value that stands for None.        *)
Init_IdsFromZero == sched = Scheduler_new /\ nextTaskId = 0

Init == sched = Scheduler_new /\ nextTaskId = 1

CreateTask(task) ==
    /\ nextTaskId <= MaxTaskId
    /\ sched' = create_task(sched, nextTaskId, task)
    /\ nextTaskId' = nextTaskId + 1

create_initial_task == CreateTask(initialize_context(Task_new))

CreateStoredTask == CreateTask(Task_new)

(* A second create_task with an id that is already in use.                  *)
CreateAgain(id) ==
    /\ id < nextTaskId
    /\ sched' = create_task(sched, id, Task_new)
    /\ UNCHANGED nextTaskId

PrepareTask(id) ==
    /\ id \in Present(sched)
    /\ \E f \in ValidFrames :
         sched' = with_task(sched, id, prepare_preemptive_start(sched.tasks[id], f))
    /\ UNCHANGED nextTaskId

RemoveTask(id) == sched' = remove_task(sched, id) /\ UNCHANGED nextTaskId

(* The start sequence of run_preemptive_test.                               *)
StartTask(id) ==
    /\ sched' = running_afresh(set_current(sched, id), id)
    /\ UNCHANGED nextTaskId

Schedule == sched' = schedule(sched) /\ UNCHANGED nextTaskId

BelowTickBound ==
    sched.current_task \in Present(sched)
        => sched.tasks[sched.current_task].time_slice_ticks < MaxSlice

timer_tick == BelowTickBound /\ sched' = tick(sched) /\ UNCHANGED nextTaskId

TimerInterrupt ==
    /\ BelowTickBound
    /\ \E f \in Frames : sched' = timer_interrupt(sched, f).sched
    /\ UNCHANGED nextTaskId

(* context::switch stores the registers of the outgoing task in its Task.   *)
context_saved(task) ==
    [task EXCEPT !.context = [task.context EXCEPT !.rip = "saved"]]

switch_kernel_to_task(id) ==
    /\ id \in Present(sched)
    /\ sched' = [sched EXCEPT !.current_task = id]
    /\ UNCHANGED nextTaskId

switch_task_to_task(old, new) ==
    /\ old # new
    /\ {old, new} \subseteq Present(sched)
    /\ sched' = with_task([sched EXCEPT !.current_task = new], old,
                           context_saved(sched.tasks[old]))
    /\ UNCHANGED nextTaskId

switch_task_to_kernel(id) ==
    /\ id \in Present(sched)
    /\ sched' = with_task([sched EXCEPT !.current_task = None], id,
                           context_saved(sched.tasks[id]))
    /\ UNCHANGED nextTaskId

(* init() puts a fresh Scheduler in place; ids continue.                    *)
Reinit == sched' = Scheduler_new /\ UNCHANGED nextTaskId

Next ==
    \/ create_initial_task
    \/ CreateStoredTask
    \/ \E id \in 1 .. MaxTaskId :
         \/ CreateAgain(id)
         \/ PrepareTask(id)
         \/ RemoveTask(id)
         \/ StartTask(id)
         \/ switch_kernel_to_task(id)
         \/ switch_task_to_kernel(id)
         \/ \E new \in 1 .. MaxTaskId : switch_task_to_task(id, new)
    \/ Schedule
    \/ timer_tick
    \/ TimerInterrupt
    \/ Reinit

Spec == Init /\ [][Next]_vars

-----------------------------------------------------------------------------
(* Properties.                                                              *)

(* Every field of SCHEDULER has the type its Rust declaration gives it, and *)
(* the id generator never hands out 0.                                      *)
SchedulerType(s) ==
    /\ s \in [run_queue : RunQueue, current_task : Nat, task_count : Nat,
              tasks : {s.tasks}]
    /\ Present(s) \subseteq TaskIds
    /\ s.tasks \in [Present(s) -> Task]

(* The task table, the run queue, and ids from 1 on: 0 is not a task.       *)
TypeOK == SchedulerType(sched) /\ nextTaskId \in TaskIds

(* No id occupies two slots of the run queue.                               *)
NoDuplicate(q) ==
    \A i, j \in Slots : q.slots[i] = q.slots[j] /\ q.slots[i] # None => i = j

(* The run queue and the task table, two arrays updated by separate loops,  *)
(* hold the same ids, and both counters are the number of them: count and   *)
(* task_count, which gate every later push, create and rotate, never drift. *)
Agree(s) ==
    /\ NoDuplicate(s.run_queue)
    /\ Queued(s.run_queue) = Present(s)
    /\ IsFiniteSet(Present(s))
    /\ s.task_count = Cardinality(Present(s))
    /\ s.run_queue.count = Cardinality(Present(s))

QueueAgreesWithTable == Agree(sched)

(* The current task, if there is one, is a task of the table that the run   *)
(* queue can select again: no removal, failed switch or reset leaves        *)
(* current_task dangling.                                                   *)
CurrentExists(s) == s.current_task # None => s.current_task \in Present(s)

CurrentIsSchedulable == CurrentExists(sched)

(* A timer interrupt changes which tasks exist in no way, and never leaves  *)
(* the machine without a current task if it had one.                        *)
TimerKeepsTasks ==
    [][TimerInterrupt => /\ Present(sched)' = Present(sched)
                         /\ Queued(sched.run_queue)' = Queued(sched.run_queue)
                         /\ sched.current_task # None => sched'.current_task # None]_vars

-----------------------------------------------------------------------------
(* A statement of the source that the code does not keep.                   *)

(* The comment in run_preemptive_test: "Task::kernel_stack belongs to the   *)
(* Task stored inside SCHEDULER", so a context set up before create_task    *)
(* moves the task points into a stack that no longer is the task's.  A      *)
(* single create_initial_task breaks it.                                    *)
ContextsUseStoredStack ==
    \A t \in Present(sched) :
        sched.tasks[t].context.rip # "null" => sched.tasks[t].context.stack = "stored"
=============================================================================
