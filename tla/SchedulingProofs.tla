-------------------------- MODULE SchedulingProofs ---------------------------
(***************************************************************************)
(* Proofs about the scheduler for every size of the run queue and of the   *)
(* task table, and about the scheduler at work on one CPU for every slice  *)
(* and number of tasks.                                                    *)
(*                                                                         *)
(* SchedInv, the conjunction of the type of SCHEDULER, of the agreement    *)
(* between run queue and table, and of the existence of the current task,  *)
(* is inductive; each method is shown to preserve it once, as a function   *)
(* on the struct, and the handlers compose those lemmas.                   *)
(*                                                                         *)
(* On one CPU the invariant adds who holds which suspended frame while the *)
(* kernel thread is on its way from the first create_task to the context   *)
(* switch, with a timer interrupt possible between any two of its steps.   *)
(***************************************************************************)
EXTENDS Preemption, FiniteSetTheorems, WellFoundedInduction, TLAPS

SchedInv(s) == SchedulerType(s) /\ Agree(s) /\ CurrentExists(s)

(* q is a well-formed run queue that holds exactly the ids in S.            *)
Holds(q, S) == q \in RunQueue /\ NoDuplicate(q) /\ Queued(q) = S

-----------------------------------------------------------------------------
(* The run queue.                                                           *)

(* A set of naturals that is not empty has a smallest element.              *)
LEMMA SmallestExists ==
    ASSUME NEW T \in SUBSET Nat, T # {}
    PROVE  \E m \in T : \A n \in T : m <= n
<1>1. PICK m \in T : \A n \in T : ~ (<<n, m>> \in OpToRel(<, Nat))
  BY WFMin, NatLessThanWellFounded
<1>2. \A n \in T : ~ (n < m)
  BY <1>1 DEF OpToRel
<1> QED
  BY <1>2

(* FirstSlot finds a slot that holds v whenever there is one.               *)
LEMMA FirstSlotFinds ==
    ASSUME NEW q \in RunQueue, NEW v, contains(q, v)
    PROVE  FirstSlot(q, v) \in Slots /\ q.slots[FirstSlot(q, v)] = v
<1> DEFINE T == {i \in Slots : q.slots[i] = v}
<1>1. T \in SUBSET Nat /\ T # {}
  BY SizesAssumption DEF contains, Slots
<1>2. PICK i \in T : \A j \in T : i <= j
  BY <1>1, SmallestExists
<1>3. \E k \in Slots : q.slots[k] = v /\ \A j \in Slots : q.slots[j] = v => k <= j
  BY <1>2
<1> QED
  BY <1>3 DEF FirstSlot

(* push adds the id to a queue that does not hold it.                       *)
LEMMA PushHolds ==
    ASSUME NEW q, NEW S, Holds(q, S), NEW id \in TaskIds, CanPush(q, id)
    PROVE  Holds(push(q, id), S \cup {id}) /\ push(q, id).count = q.count + 1
<1> DEFINE k == FirstSlot(q, None)
<1>1. q \in RunQueue /\ contains(q, None) /\ ~contains(q, id)
  BY DEF Holds, CanPush
<1>2. k \in Slots /\ q.slots[k] = None
  BY <1>1, FirstSlotFinds
<1> HIDE DEF k
<1> DEFINE p == [slots |-> [q.slots EXCEPT ![k] = id], count |-> q.count + 1]
<1>3. p \in RunQueue /\ p.count = q.count + 1
  BY <1>1, <1>2 DEF RunQueue, TaskIds
<1>4. /\ p.slots[k] = id
      /\ \A i \in Slots \ {k} : p.slots[i] = q.slots[i]
  BY <1>1, <1>2 DEF RunQueue
<1> HIDE DEF p
<1>5. NoDuplicate(p)
  BY <1>1, <1>2, <1>4 DEF NoDuplicate, contains, Holds
<1>6. Queued(p) = Queued(q) \cup {id}
  <2>1. id # None
    BY DEF TaskIds, None
  <2> QED
    BY <2>1, <1>2, <1>4 DEF Queued
<1>7. p = push(q, id)
  BY DEF p, k, push
<1> QED
  BY <1>3, <1>5, <1>6, <1>7 DEF Holds

(* remove takes out exactly the id.                                         *)
LEMMA RemoveHolds ==
    ASSUME NEW q, NEW S, Holds(q, S), NEW id \in S
    PROVE  Holds(remove(q, id), S \ {id}) /\ remove(q, id).count = q.count - 1
<1> DEFINE k == FirstSlot(q, id)
<1>1. q \in RunQueue /\ contains(q, id) /\ id # None
  BY DEF Holds, contains, Queued
<1>2. k \in Slots /\ q.slots[k] = id
  BY <1>1, FirstSlotFinds
<1> HIDE DEF k
<1> DEFINE p == [slots |-> [q.slots EXCEPT ![k] = None], count |-> q.count - 1]
<1>3. p \in RunQueue /\ p.count = q.count - 1
  BY <1>1, <1>2 DEF RunQueue, None
<1>4. /\ p.slots[k] = None
      /\ \A i \in Slots \ {k} : p.slots[i] = q.slots[i]
  BY <1>1, <1>2 DEF RunQueue
<1> HIDE DEF p
<1>5. NoDuplicate(p)
  BY <1>2, <1>4 DEF NoDuplicate, Holds
<1>6. Queued(p) = Queued(q) \ {id}
  BY <1>1, <1>2, <1>4 DEF Queued, NoDuplicate, Holds
<1>7. p = remove(q, id)
  BY <1>1 DEF p, k, remove
<1> QED
  BY <1>3, <1>5, <1>6, <1>7 DEF Holds

(* rotate moves ids between slots and loses none.                           *)
LEMMA RotateHolds ==
    ASSUME NEW q, NEW S, Holds(q, S)
    PROVE  Holds(rotate(q), S) /\ rotate(q).count = q.count
<1>1. CASE q.count <= 1
  BY <1>1 DEF rotate
<1>2. CASE ~(q.count <= 1)
  <2> DEFINE next(i) == IF i < MAX_TASKS - 1 THEN i + 1 ELSE 0
             prev(i) == IF i = 0 THEN MAX_TASKS - 1 ELSE i - 1
             p == [q EXCEPT !.slots = [i \in Slots |->
                              IF i < MAX_TASKS - 1 THEN q.slots[i + 1] ELSE q.slots[0]]]
  <2>1. \A i \in Slots : next(i) \in Slots /\ prev(i) \in Slots /\ next(prev(i)) = i
    BY SizesAssumption DEF Slots
  <2>2. \A i, j \in Slots : next(i) = next(j) => i = j
    BY SizesAssumption DEF Slots
  <2>3. q \in RunQueue
    BY DEF Holds
  <2>4. \A i \in Slots : p.slots[i] = q.slots[next(i)]
    BY <2>3 DEF RunQueue
  <2>5. p \in RunQueue /\ p.count = q.count
    BY <2>1, <2>3, <2>4 DEF RunQueue
  <2> HIDE DEF p, next, prev
  <2>6. NoDuplicate(p)
    BY <2>1, <2>2, <2>4 DEF NoDuplicate, Holds
  <2>7. Queued(p) = Queued(q)
    BY <2>1, <2>4 DEF Queued
  <2>8. p = rotate(q)
    BY <1>2 DEF p, rotate
  <2> QED
    BY <2>5, <2>6, <2>7, <2>8 DEF Holds
<1> QED
  BY <1>1, <1>2

(* first returns an id of the queue, and None only when it is empty.        *)
LEMMA FirstIsQueued ==
    ASSUME NEW q, NEW S, Holds(q, S)
    PROVE  /\ S # {} => first(q) \in S
           /\ S = {} => first(q) = None
<1>1. CASE S = {}
  BY <1>1 DEF first, Holds
<1>2. CASE S # {}
  <2> DEFINE T == {i \in Slots : q.slots[i] # None}
  <2>1. T \in SUBSET Nat /\ T # {}
    BY <1>2, SizesAssumption DEF Holds, Queued, Slots
  <2>2. PICK m \in T : \A n \in T : m <= n
    BY <2>1, SmallestExists
  <2>3. \E i \in Slots : q.slots[i] # None /\ \A j \in Slots : q.slots[j] # None => i <= j
    BY <2>2
  <2>4. \E i \in Slots : q.slots[i] # None /\ first(q) = q.slots[i]
    BY <1>2, <2>3 DEF first, Holds
  <2> QED
    BY <1>2, <2>4 DEF Holds, Queued
<1> QED
  BY <1>1, <1>2

-----------------------------------------------------------------------------
(* The scheduler.                                                           *)

(* What SchedInv says, with the run queue as a Holds fact.                  *)
LEMMA SchedInvFacts ==
    ASSUME NEW s, SchedInv(s)
    PROVE  /\ Holds(s.run_queue, Present(s))
           /\ IsFiniteSet(Present(s))
           /\ s.run_queue.count = Cardinality(Present(s))
           /\ s.task_count = Cardinality(Present(s))
           /\ Cardinality(Present(s)) \in Nat
           /\ Present(s) \subseteq TaskIds
           /\ s.tasks \in [Present(s) -> Task]
           /\ s.current_task \in Present(s) \cup {None}
<1>1. Cardinality(Present(s)) \in Nat
  BY FS_CardinalityType DEF SchedInv, Agree
<1> QED
  BY <1>1 DEF SchedInv, SchedulerType, Agree, CurrentExists, Holds

(* A struct assembled from agreeing parts satisfies SchedInv.               *)
LEMMA SchedInvIntro ==
    ASSUME NEW q, NEW S \in SUBSET TaskIds, NEW f \in [S -> Task],
           NEW cur \in S \cup {None}, NEW n,
           Holds(q, S), IsFiniteSet(S), n = Cardinality(S), q.count = Cardinality(S)
    PROVE  SchedInv([run_queue |-> q, current_task |-> cur, task_count |-> n, tasks |-> f])
<1> DEFINE s == [run_queue |-> q, current_task |-> cur, task_count |-> n, tasks |-> f]
<1>1. n \in Nat /\ cur \in Nat
  BY FS_CardinalityType DEF TaskIds, None
<1>2. Present(s) = S
  BY DEF Present
<1>3. SchedulerType(s)
  BY <1>1, <1>2 DEF SchedulerType, Holds
<1>4. Agree(s)
  BY <1>2 DEF Agree, Holds
<1>5. CurrentExists(s)
  BY <1>2 DEF CurrentExists
<1> QED
  BY <1>3, <1>4, <1>5 DEF SchedInv

(* Every struct with the invariant is the record of its fields.             *)
LEMMA SchedFields ==
    ASSUME NEW s, SchedInv(s)
    PROVE  s = [run_queue |-> s.run_queue, current_task |-> s.current_task,
                task_count |-> s.task_count, tasks |-> s.tasks]
BY DEF SchedInv, SchedulerType

(* An id is in the run queue exactly when the table has its task.           *)
LEMMA ContainsIsPresent ==
    ASSUME NEW s, SchedInv(s), NEW id \in TaskIds
    PROVE  contains(s.run_queue, id) <=> id \in Present(s)
BY DEF SchedInv, Agree, contains, Queued, TaskIds, None

(* The empty scheduler satisfies the invariant.                             *)
LEMMA NewInv == SchedInv(Scheduler_new)
<1> DEFINE f == [t \in {} |-> 0]
<1>1. EmptyQueue \in RunQueue
  BY DEF EmptyQueue, RunQueue, None
<1>2. Holds(EmptyQueue, {}) /\ EmptyQueue.count = 0
  BY <1>1 DEF Holds, EmptyQueue, NoDuplicate, Queued, None
<1>3. f \in [{} -> Task]
  OBVIOUS
<1> QED
  BY <1>2, <1>3, FS_EmptySet, SchedInvIntro DEF Scheduler_new, None

(* create_task adds the id to the table and to the queue, or does nothing.  *)
LEMMA CreateTaskInv ==
    ASSUME NEW s, SchedInv(s), NEW id \in TaskIds, NEW task \in Task
    PROVE  SchedInv(create_task(s, id, task))
<1>1. CASE ~CanCreate(s, id)
  BY <1>1 DEF create_task
<1>2. CASE CanCreate(s, id)
  <2> DEFINE S == Present(s) \cup {id}
             q == push(s.run_queue, id)
             f == [t \in S |-> IF t = id THEN task ELSE s.tasks[t]]
  <2>1. CanPush(s.run_queue, id) /\ ~contains(s.run_queue, id)
    BY <1>2 DEF CanCreate, CanPush
  <2>2. Holds(q, S) /\ q.count = s.run_queue.count + 1
    BY <2>1, SchedInvFacts, PushHolds
  <2>3. id \notin Present(s)
    BY <2>1, ContainsIsPresent
  <2>4. IsFiniteSet(S) /\ Cardinality(S) = Cardinality(Present(s)) + 1
    BY <2>3, SchedInvFacts, FS_AddElement
  <2>5. f \in [S -> Task] /\ S \in SUBSET TaskIds
    BY SchedInvFacts
  <2>6. Cardinality(Present(s)) < MAX_SCHEDULER_TASKS
    BY <1>2, SchedInvFacts DEF CanCreate
  <2> DEFINE r == [run_queue |-> q, current_task |-> s.current_task,
                   task_count |-> s.task_count + 1, tasks |-> f]
  <2>7. SchedInv(r)
    <3> HIDE DEF q, f, S
    <3>1. s.current_task \in S \cup {None}
      BY SchedInvFacts DEF S
    <3>2. q.count = Cardinality(S) /\ s.task_count + 1 = Cardinality(S)
      BY <2>2, <2>4, SchedInvFacts
    <3> QED
      BY <3>1, <3>2, <2>2, <2>4, <2>5, SchedInvIntro
  <2>8. create_task(s, id, task) = r
    BY <1>2, <2>6 DEF create_task
  <2> QED
    BY <2>7, <2>8
<1> QED
  BY <1>1, <1>2

(* remove_task takes the id out of both, and moves current_task off it.     *)
LEMMA RemoveTaskInv ==
    ASSUME NEW s, SchedInv(s), NEW id \in TaskIds
    PROVE  SchedInv(remove_task(s, id))
<1>1. CASE ~contains(s.run_queue, id)
  BY <1>1 DEF remove_task
<1>2. CASE contains(s.run_queue, id)
  <2> DEFINE S == Present(s) \ {id}
             q == remove(s.run_queue, id)
             f == [t \in S |-> s.tasks[t]]
             cur == IF s.current_task = id THEN first(q) ELSE s.current_task
             n == IF s.task_count > 0 THEN s.task_count - 1 ELSE s.task_count
             r == [run_queue |-> q, current_task |-> cur, task_count |-> n, tasks |-> f]
  <2>1. id \in Present(s)
    BY <1>2, ContainsIsPresent
  <2>2. Holds(q, S) /\ q.count = s.run_queue.count - 1
    BY <2>1, SchedInvFacts, RemoveHolds
  <2>3. IsFiniteSet(S) /\ Cardinality(S) = Cardinality(Present(s)) - 1
    BY <2>1, SchedInvFacts, FS_RemoveElement
  <2>4. Cardinality(Present(s)) # 0
    BY <2>1, SchedInvFacts, FS_EmptySet
  <2>5. q.count = Cardinality(S) /\ n = Cardinality(S)
    BY <2>2, <2>3, <2>4, SchedInvFacts
  <2>6. f \in [S -> Task] /\ S \in SUBSET TaskIds
    BY SchedInvFacts
  <2>7. cur \in S \cup {None}
    <3> HIDE DEF q
    <3> QED
      BY <2>2, FirstIsQueued, SchedInvFacts
  <2>8. SchedInv(r)
    <3> HIDE DEF q, f, S, cur, n
    <3> QED
      BY <2>2, <2>3, <2>5, <2>6, <2>7, SchedInvIntro
  <2>9. remove_task(s, id) = r
    BY <1>2 DEF remove_task
  <2> QED
    BY <2>8, <2>9
<1> QED
  BY <1>1, <1>2

(* Replacing the current task by one the table holds.                       *)
LEMMA CurrentInv ==
    ASSUME NEW s, SchedInv(s), NEW cur \in Present(s) \cup {None}
    PROVE  SchedInv([s EXCEPT !.current_task = cur])
           /\ Present([s EXCEPT !.current_task = cur]) = Present(s)
<1> DEFINE r == [run_queue |-> s.run_queue, current_task |-> cur,
                 task_count |-> s.task_count, tasks |-> s.tasks]
<1>1. SchedInv(r)
  BY SchedInvFacts, SchedInvIntro
<1>2. [s EXCEPT !.current_task = cur] = r
  BY SchedFields
<1>3. Present(r) = Present(s)
  BY DEF Present
<1> QED
  BY <1>1, <1>2, <1>3

(* Writing a stored task changes neither the queue nor current_task.        *)
LEMMA WithTaskInv ==
    ASSUME NEW s, SchedInv(s), NEW id, NEW new,
           id \in Present(s) => new \in Task
    PROVE  /\ SchedInv(with_task(s, id, new))
           /\ Present(with_task(s, id, new)) = Present(s)
           /\ with_task(s, id, new).current_task = s.current_task
           /\ with_task(s, id, new).run_queue = s.run_queue
<1>1. CASE id \notin Present(s)
  BY <1>1 DEF with_task
<1>2. CASE id \in Present(s)
  <2> DEFINE f == [s.tasks EXCEPT ![id] = new]
             r == [run_queue |-> s.run_queue, current_task |-> s.current_task,
                   task_count |-> s.task_count, tasks |-> f]
  <2>1. f \in [Present(s) -> Task]
    BY <1>2, SchedInvFacts
  <2>2. SchedInv(r)
    <3> HIDE DEF f
    <3> QED
      BY <2>1, SchedInvFacts, SchedInvIntro
  <2>3. with_task(s, id, new) = r
    BY <1>2, SchedFields DEF with_task
  <2>4. Present(r) = Present(s)
    BY <2>1 DEF Present
  <2> QED
    BY <2>2, <2>3, <2>4
<1> QED
  BY <1>1, <1>2

(* schedule rotates the queue and picks a task that is in it.               *)
LEMMA ScheduleInv ==
    ASSUME NEW s, SchedInv(s)
    PROVE  /\ SchedInv(schedule(s))
           /\ Present(schedule(s)) = Present(s)
           /\ schedule(s).tasks = s.tasks
           /\ s.current_task # None => schedule(s).current_task # None
<1>1. CASE s.run_queue.count = 0
  <2>1. Present(s) = {} /\ s.current_task = None
    BY <1>1, SchedInvFacts, FS_EmptySet
  <2>2. schedule(s) = s
    BY <1>1, <2>1, SchedFields DEF schedule
  <2> QED
    BY <2>1, <2>2
<1>2. CASE s.run_queue.count # 0
  <2> DEFINE q == rotate(s.run_queue)
             r == [run_queue |-> q, current_task |-> first(q),
                   task_count |-> s.task_count, tasks |-> s.tasks]
  <2>1. Holds(q, Present(s)) /\ q.count = s.run_queue.count
    BY SchedInvFacts, RotateHolds
  <2>2. Present(s) # {}
    BY <1>2, SchedInvFacts, FS_EmptySet
  <2>3. first(q) \in Present(s)
    BY <2>1, <2>2, FirstIsQueued
  <2>4. SchedInv(r)
    <3> HIDE DEF q
    <3> QED
      BY <2>1, <2>3, SchedInvFacts, SchedInvIntro
  <2>5. schedule(s) = r
    BY <1>2 DEF schedule
  <2>6. Present(r) = Present(s) /\ first(q) # None
    BY <2>3, SchedInvFacts DEF Present, TaskIds, None
  <2> QED
    BY <2>4, <2>5, <2>6
<1> QED
  BY <1>1, <1>2

-----------------------------------------------------------------------------
(* The timer path: r is s with some tasks updated and another one current,  *)
(* and has a current task if s had one.                                     *)
Keeps(s, r) ==
    /\ SchedInv(r)
    /\ Present(r) = Present(s)
    /\ s.current_task # None => r.current_task # None

(* The updates of a Task the handlers make give a Task.                     *)
LEMMA TaskWithState ==
    ASSUME NEW t \in Task, NEW st \in TaskState
    PROVE  [t EXCEPT !.state = st] \in Task
BY DEF Task

(* A task that is ticked is a task.                                         *)
LEMMA TaskTicked ==
    ASSUME NEW t \in Task
    PROVE  [t EXCEPT !.time_slice_ticks = @ + 1] \in Task
BY DEF Task

(* A task that begins a slice is a task.                                    *)
LEMMA TaskAfresh ==
    ASSUME NEW t \in Task
    PROVE  [t EXCEPT !.state = "Running", !.time_slice_ticks = 0] \in Task
BY DEF Task, TaskState

(* A task with a saved frame is a task.                                     *)
LEMMA TaskSaved ==
    ASSUME NEW t \in Task, NEW f \in Frames
    PROVE  [t EXCEPT !.interrupt_rsp = f, !.state = "Running"] \in Task
BY DEF Task, TaskState

(* What the table stores is a task.                                         *)
LEMMA StoredTask ==
    ASSUME NEW s, SchedInv(s), NEW id \in Present(s)
    PROVE  s.tasks[id] \in Task
BY SchedInvFacts

(* Beginning a slice keeps the set of tasks.                                *)
LEMMA RunningAfreshKeeps ==
    ASSUME NEW s, SchedInv(s), NEW id
    PROVE  Keeps(s, running_afresh(s, id))
           /\ running_afresh(s, id).current_task = s.current_task
<1>1. id \in Present(s) =>
        [s.tasks[id] EXCEPT !.state = "Running", !.time_slice_ticks = 0] \in Task
  BY StoredTask, TaskAfresh
<1> QED
  BY <1>1, WithTaskInv DEF running_afresh, Keeps

(* Changing a state keeps the set of tasks.                                 *)
LEMMA WithStateKeeps ==
    ASSUME NEW s, SchedInv(s), NEW id, NEW st \in TaskState
    PROVE  Keeps(s, with_state(s, id, st))
           /\ with_state(s, id, st).current_task = s.current_task
<1>1. id \in Present(s) => [s.tasks[id] EXCEPT !.state = st] \in Task
  BY StoredTask, TaskWithState
<1> QED
  BY <1>1, WithTaskInv DEF with_state, Keeps

(* Counting a tick keeps the set of tasks.                                  *)
LEMMA TickKeeps ==
    ASSUME NEW s, SchedInv(s)
    PROVE  Keeps(s, tick(s)) /\ tick(s).current_task = s.current_task
<1> DEFINE t == s.current_task
<1>1. t \in Present(s) => [s.tasks[t] EXCEPT !.time_slice_ticks = @ + 1] \in Task
  BY StoredTask, TaskTicked
<1> QED
  BY <1>1, WithTaskInv DEF tick, Keeps

(* Saving the interrupted frame and ticking keep the set of tasks.          *)
LEMMA SavedAndTickedKeeps ==
    ASSUME NEW s, SchedInv(s), NEW f \in Frames
    PROVE  Keeps(s, saved_and_ticked(s, f))
           /\ saved_and_ticked(s, f).current_task = s.current_task
<1> DEFINE t == s.current_task
           new == [s.tasks[t] EXCEPT !.interrupt_rsp = f, !.state = "Running"]
           u == with_task(s, t, new)
<1>1. t \in Present(s) => new \in Task
  BY StoredTask, TaskSaved
<1> HIDE DEF new
<1>2. SchedInv(u) /\ Present(u) = Present(s) /\ u.current_task = s.current_task
  BY <1>1, WithTaskInv
<1> HIDE DEF u
<1>3. saved_and_ticked(s, f) = tick(u)
  BY DEF saved_and_ticked, u, new
<1> QED
  BY <1>2, <1>3, TickKeeps DEF Keeps

(* Every outcome of an expired slice keeps the tasks and a current task.    *)
LEMMA PreemptKeeps ==
    ASSUME NEW s, SchedInv(s), NEW cur \in Present(s), s.current_task = cur
    PROVE  Keeps(s, preempt(s, cur).sched)
<1> DEFINE r == schedule(s)
           next == r.current_task
           back == [r EXCEPT !.current_task = cur]
           kept == running_afresh(back, cur)
<1>1. Keeps(s, r)
  BY ScheduleInv DEF Keeps
<1>2. cur # None /\ next # None
  BY <1>1, SchedInvFacts DEF Keeps, TaskIds, None
<1>3. SchedInv(back) /\ Present(back) = Present(s) /\ back.current_task = cur
  <2> HIDE DEF r
  <2>1. SchedInv(r) /\ Present(r) = Present(s)
    BY <1>1 DEF Keeps
  <2> QED
    BY <2>1, CurrentInv, SchedFields
<1> HIDE DEF r, back
<1>4. Keeps(s, kept)
  BY <1>2, <1>3, RunningAfreshKeeps DEF Keeps
<1> HIDE DEF kept
<1>5. Keeps(s, running_afresh(r, cur))
  BY <1>1, RunningAfreshKeeps DEF Keeps
<1>6. Keeps(s, with_state(kept, next, "Ready"))
  BY <1>4, WithStateKeeps DEF Keeps, TaskState
<1>7. Keeps(s, running_afresh(with_state(r, cur, "Ready"), next))
  <2> DEFINE w == with_state(r, cur, "Ready")
  <2>1. Keeps(s, w)
    BY <1>1, WithStateKeeps DEF Keeps, TaskState
  <2> HIDE DEF w
  <2>2. Keeps(s, running_afresh(w, next))
    BY <2>1, RunningAfreshKeeps DEF Keeps
  <2> QED
    BY <2>2 DEF w
<1>8. preempt(s, cur).sched \in
        {running_afresh(r, cur), kept, with_state(kept, next, "Ready"),
         running_afresh(with_state(r, cur, "Ready"), next)}
  BY DEF preempt, Resume, SwitchTo, r, kept, back
<1> QED
  BY <1>4, <1>5, <1>6, <1>7, <1>8

(* Whatever timer_interrupt returns, it keeps the set of tasks.             *)
LEMMA TimerInterruptKeeps ==
    ASSUME NEW s, SchedInv(s), NEW f \in Frames
    PROVE  Keeps(s, timer_interrupt(s, f).sched)
<1> DEFINE cur == s.current_task
           t == saved_and_ticked(s, f)
<1>1. Keeps(s, s)
  BY DEF Keeps
<1>2. Keeps(s, t) /\ t.current_task = cur
  BY SavedAndTickedKeeps
<1> HIDE DEF t
<1>3. ASSUME cur \in Present(s)
      PROVE  Keeps(s, preempt(t, cur).sched)
  <2>1. Keeps(t, preempt(t, cur).sched)
    BY <1>2, <1>3, PreemptKeeps DEF Keeps
  <2> QED
    BY <2>1, <1>2 DEF Keeps
<1>4. timer_interrupt(s, f).sched =
        IF cur \notin Present(s) THEN s
        ELSE IF ~SliceExpired(t) THEN t ELSE preempt(t, cur).sched
  BY DEF timer_interrupt, Resume, t
<1> QED
  BY <1>1, <1>2, <1>3, <1>4

-----------------------------------------------------------------------------
(* The specification.                                                       *)

IInv == SchedInv(sched) /\ nextTaskId \in TaskIds

(* New tasks, initialized or not, are tasks.                                *)
LEMMA NewTasks ==
    Task_new \in Task /\ initialize_context(Task_new) \in Task
<1>1. EmptyContext \in TaskContext /\ [rip |-> "entry", stack |-> "local"] \in TaskContext
  BY DEF EmptyContext, TaskContext, Rip, StackOf
<1>2. Task_new \in Task
  BY <1>1 DEF Task_new, Task, TaskState
<1> QED
  BY <1>1, <1>2 DEF initialize_context, Task

(* A task prepared for its preemptive start is a task.                      *)
LEMMA PreparedTask ==
    ASSUME NEW t \in Task, NEW f \in ValidFrames
    PROVE  prepare_preemptive_start(t, f) \in Task
<1>1. [rip |-> "trampoline", stack |-> "stored"] \in TaskContext
  BY DEF TaskContext, Rip, StackOf
<1> QED
  BY <1>1, FramesAssumption DEF prepare_preemptive_start, Task

(* A task whose context was saved is a task.                                *)
LEMMA ContextSaved ==
    ASSUME NEW t \in Task
    PROVE  context_saved(t) \in Task
<1>1. [t.context EXCEPT !.rip = "saved"] \in TaskContext
  BY DEF Task, TaskContext, Rip
<1> QED
  BY <1>1 DEF context_saved, Task

(* The scheduler starts empty.                                              *)
LEMMA InitIInv == Init => IInv
BY NewInv DEF Init, IInv, TaskIds

(* Each operation preserves the inductive invariant.                        *)
LEMMA NextIInv == IInv /\ [Next]_vars => IInv'
<1> SUFFICES ASSUME IInv, [Next]_vars PROVE IInv'
  OBVIOUS
<1>1. SchedInv(sched) /\ nextTaskId \in TaskIds
  BY DEF IInv
<1>2. ASSUME NEW task \in Task, CreateTask(task) PROVE IInv'
  BY <1>1, <1>2, CreateTaskInv DEF CreateTask, IInv, TaskIds
<1>3. CASE create_initial_task
  BY <1>2, <1>3, NewTasks DEF create_initial_task
<1>4. CASE CreateStoredTask
  BY <1>2, <1>4, NewTasks DEF CreateStoredTask
<1>5. ASSUME NEW id \in 1 .. MaxTaskId PROVE id \in TaskIds
  BY SizesAssumption DEF TaskIds
<1>6. ASSUME NEW id \in 1 .. MaxTaskId, CreateAgain(id) PROVE IInv'
  BY <1>1, <1>5, <1>6, NewTasks, CreateTaskInv DEF CreateAgain, IInv
<1>7. ASSUME NEW id \in 1 .. MaxTaskId, PrepareTask(id) PROVE IInv'
  <2>1. PICK f \in ValidFrames :
          sched' = with_task(sched, id, prepare_preemptive_start(sched.tasks[id], f))
    BY <1>7 DEF PrepareTask
  <2>2. prepare_preemptive_start(sched.tasks[id], f) \in Task
    BY <1>1, <1>7, StoredTask, PreparedTask DEF PrepareTask
  <2> QED
    BY <1>1, <1>7, <2>1, <2>2, WithTaskInv DEF PrepareTask, IInv
<1>8. ASSUME NEW id \in 1 .. MaxTaskId, RemoveTask(id) PROVE IInv'
  BY <1>1, <1>5, <1>8, RemoveTaskInv DEF RemoveTask, IInv
<1>9. ASSUME NEW id \in 1 .. MaxTaskId, StartTask(id) PROVE IInv'
  <2> DEFINE c == set_current(sched, id)
  <2>1. SchedInv(c)
    BY <1>1, <1>5, CurrentInv, ContainsIsPresent DEF set_current
  <2> HIDE DEF c
  <2>2. sched' = running_afresh(c, id) /\ nextTaskId' = nextTaskId
    BY <1>9 DEF StartTask, c
  <2> QED
    BY <1>1, <2>1, <2>2, RunningAfreshKeeps DEF Keeps, IInv
<1>10. ASSUME NEW id \in 1 .. MaxTaskId, switch_kernel_to_task(id) PROVE IInv'
  BY <1>1, <1>10, CurrentInv DEF switch_kernel_to_task, IInv
<1>11. ASSUME NEW id \in Present(sched), NEW cur \in Present(sched) \cup {None}
       PROVE  SchedInv(with_task([sched EXCEPT !.current_task = cur], id,
                                 context_saved(sched.tasks[id])))
  <2> DEFINE c == [sched EXCEPT !.current_task = cur]
  <2>1. SchedInv(c)
    BY <1>1, CurrentInv
  <2>2. context_saved(sched.tasks[id]) \in Task
    BY <1>1, StoredTask, ContextSaved
  <2> HIDE DEF c
  <2>3. SchedInv(with_task(c, id, context_saved(sched.tasks[id])))
    BY <2>1, <2>2, WithTaskInv
  <2> QED
    BY <2>3 DEF c
<1>12. ASSUME NEW id \in 1 .. MaxTaskId, switch_task_to_kernel(id) PROVE IInv'
  BY <1>1, <1>11, <1>12 DEF switch_task_to_kernel, IInv
<1>13. ASSUME NEW id \in 1 .. MaxTaskId, NEW new \in 1 .. MaxTaskId,
              switch_task_to_task(id, new)
       PROVE  IInv'
  BY <1>1, <1>11, <1>13 DEF switch_task_to_task, IInv
<1>14. CASE Schedule
  BY <1>1, <1>14, ScheduleInv DEF Schedule, IInv
<1>15. CASE timer_tick
  BY <1>1, <1>15, TickKeeps DEF timer_tick, Keeps, IInv
<1>16. CASE TimerInterrupt
  BY <1>1, <1>16, TimerInterruptKeeps DEF TimerInterrupt, Keeps, IInv
<1>17. CASE Reinit
  BY <1>1, <1>17, NewInv DEF Reinit, IInv
<1>18. CASE UNCHANGED vars
  BY <1>1, <1>18 DEF vars, IInv
<1> QED
  BY <1>3, <1>4, <1>6, <1>7, <1>8, <1>9, <1>10, <1>12, <1>13, <1>14, <1>15, <1>16,
     <1>17, <1>18 DEF Next

(* SCHEDULER keeps its type and its inductive invariant in every behaviour. *)
THEOREM Invariance == Spec => []IInv
BY InitIInv, NextIInv, PTL DEF Spec

(* The fields of SCHEDULER have their declared types whatever operations    *)
(* are called on it in whatever order.                                      *)
THEOREM TypeCorrect == Spec => []TypeOK
<1>1. IInv => TypeOK
  BY DEF IInv, SchedInv, TypeOK
<1> QED
  BY <1>1, Invariance, PTL

(* The run queue and the task table hold the same ids, each once, and both  *)
(* counters count them, for every capacity of either array.                 *)
THEOREM QueueAndTableAgree == Spec => []QueueAgreesWithTable
<1>1. IInv => QueueAgreesWithTable
  BY DEF IInv, SchedInv, QueueAgreesWithTable
<1> QED
  BY <1>1, Invariance, PTL

(* current_task never names a task that does not exist.                     *)
THEOREM CurrentNeverDangles == Spec => []CurrentIsSchedulable
<1>1. IInv => CurrentIsSchedulable
  BY DEF IInv, SchedInv, CurrentIsSchedulable
<1> QED
  BY <1>1, Invariance, PTL

(* timer_interrupt neither loses nor adds a task and never leaves the       *)
(* machine without a current task, whichever of its five outcomes it takes. *)
THEOREM TimerLosesNoTask == Spec => TimerKeepsTasks
<1> DEFINE Kept == TimerInterrupt =>
                      /\ Present(sched)' = Present(sched)
                      /\ Queued(sched.run_queue)' = Queued(sched.run_queue)
                      /\ sched.current_task # None => sched'.current_task # None
<1>1. IInv /\ [Next]_vars => [Kept]_vars
  <2> SUFFICES ASSUME IInv, TimerInterrupt PROVE Kept
    OBVIOUS
  <2>1. Keeps(sched, sched')
    BY TimerInterruptKeeps DEF TimerInterrupt, IInv
  <2>2. Queued(sched.run_queue) = Present(sched) /\ Queued(sched'.run_queue) = Present(sched')
    BY <2>1 DEF Keeps, IInv, SchedInv, Agree
  <2> QED
    BY <2>1, <2>2 DEF Keeps
<1> QED
  BY <1>1, Invariance, PTL DEF TimerKeepsTasks, Spec

-----------------------------------------------------------------------------
(* Preemption on one CPU.                                                   *)

rsp(s, t) == s.tasks[t].interrupt_rsp
rip(s, t) == s.tasks[t].context.rip

(* Where the kernel thread is: no task has been made current; the tasks of  *)
(* the preemptive test are about to be entered; the empty context of        *)
(* run_context_switch_test is.                                              *)
Preparing ==
    \/ pc \in {"start", "returned", "ctxReturned", "createA", "prepareA", "createB", "prepareB",
               "setCurrent", "ctxCreateA", "ctxCreateB"}
    \/ pc = "select" /\ rip(sched, a) = "null"
Entering ==
    \/ pc = "markRunning"
    \/ pc \in {"select", "switch"} /\ rip(sched, a) = "trampoline"
EnteringEmpty == pc = "switch" /\ rip(sched, a) = "null"

IdsInv ==
    /\ nextTaskId \in TaskIds /\ nextTaskId <= MaxTaskId + 1
    /\ \A t \in Present(sched) : t < nextTaskId
    /\ pc # "start" => /\ a \in TaskIds /\ b \in TaskIds /\ a # b
                       /\ a < nextTaskId /\ b < nextTaskId

(* Which of its two tasks a test has in the table.                          *)
TestInv ==
    /\ Preparing \/ Entering \/ EnteringEmpty \/ pc = "parked"
    /\ pc \in {"createA", "ctxCreateA", "returned"} => {a, b} \cap Present(sched) = {}
    /\ pc \in {"prepareA", "createB"} => b \notin Present(sched)
    /\ pc \in {"prepareA", "createB", "prepareB", "setCurrent", "markRunning", "select",
               "switch"} => a \in Present(sched)
    /\ pc \in {"createB", "prepareB", "setCurrent"} => rip(sched, a) = "trampoline"
    /\ pc = "markRunning" => rip(sched, a) = "trampoline"
    /\ pc = "prepareB" => b \in Present(sched)
    /\ pc = "ctxCreateB" => a \in Present(sched) /\ rip(sched, a) = "null"

(* A waiting task holds nothing, its own frame, or, while the kernel thread *)
(* is suspended in the name of a, a holds the frame of the kernel thread.   *)
FramesInv ==
    \A t \in Present(sched) \ {sched.current_task} :
      /\ rsp(sched, t) \in {NullFrame, Kernel, t}
      /\ rsp(sched, t) = Kernel => t = a /\ cpu # Kernel /\ Entering

(* Only a test that has prepared its tasks has frames to switch to.         *)
NothingPrepared ==
    \A t \in Present(sched) \ {sched.current_task} :
      /\ Preparing /\ rsp(sched, t) # NullFrame =>
           t \in {a, b} /\ pc \in {"createB", "prepareB", "setCurrent"}
      /\ EnteringEmpty => rsp(sched, t) = NullFrame

CpuInv ==
    /\ cpu \in Flows
    /\ CpuMatchesCurrent
    /\ Preparing => cpu = Kernel /\ sched.current_task = None
    /\ Entering => \/ cpu = Kernel /\ sched.current_task = a
                   \/ cpu # Kernel /\ cpu # a /\ rsp(sched, a) = Kernel
    /\ EnteringEmpty => cpu = Kernel /\ sched.current_task = a
    /\ pc = "parked" => cpu # Kernel

PreemptInv ==
    /\ SchedInv(sched) /\ IdsInv /\ TestInv /\ FramesInv /\ NothingPrepared /\ CpuInv
    /\ OnlyCurrentRunning /\ NoStaleResume

-----------------------------------------------------------------------------
(* What the operations on SCHEDULER do to each task.                        *)

(* Replacing a task replaces that task only.                                *)
LEMMA WithTaskEffect ==
    ASSUME NEW s, SchedInv(s), NEW id \in Present(s), NEW new \in Task
    PROVE  \A t \in Present(s) : with_task(s, id, new).tasks[t] = IF t = id THEN new ELSE s.tasks[t]
<1> DEFINE f == [s.tasks EXCEPT ![id] = new]
<1>1. s = [run_queue |-> s.run_queue, current_task |-> s.current_task,
           task_count |-> s.task_count, tasks |-> s.tasks]
  BY SchedFields
<1>2. with_task(s, id, new) = [s EXCEPT !.tasks = f]
  BY DEF with_task
<1>3. with_task(s, id, new).tasks = f
  BY <1>1, <1>2
<1>4. s.tasks \in [Present(s) -> Task]
  BY SchedInvFacts
<1>5. \A t \in Present(s) : f[t] = IF t = id THEN new ELSE s.tasks[t]
  BY <1>4
<1> QED
  BY <1>3, <1>5

(* Two schedulers with the same tasks, but for states and time slices.      *)
SameFrames(s, r) ==
    /\ SchedInv(r) /\ Present(r) = Present(s)
    /\ \A t \in Present(s) : r.tasks[t].interrupt_rsp = s.tasks[t].interrupt_rsp
                            /\ r.tasks[t].context = s.tasks[t].context

(* Beginning a slice makes the task Running and changes no other state.     *)
LEMMA RunningAfreshEffect ==
    ASSUME NEW s, SchedInv(s), NEW id \in Present(s)
    PROVE  /\ SameFrames(s, running_afresh(s, id))
           /\ running_afresh(s, id).current_task = s.current_task
           /\ \A t \in Present(s) \ {id} : running_afresh(s, id).tasks[t].state = s.tasks[t].state
<1> DEFINE new == [s.tasks[id] EXCEPT !.state = "Running", !.time_slice_ticks = 0]
<1>1. s.tasks[id] \in Task /\ new \in Task
  BY StoredTask, TaskAfresh
<1>2. new.interrupt_rsp = s.tasks[id].interrupt_rsp /\ new.context = s.tasks[id].context
  BY <1>1 DEF Task
<1> HIDE DEF new
<1>3. running_afresh(s, id) = with_task(s, id, new)
  BY DEF running_afresh, new
<1>4. \A t \in Present(s) : with_task(s, id, new).tasks[t] = IF t = id THEN new ELSE s.tasks[t]
  BY <1>1, WithTaskEffect
<1>5. /\ SchedInv(with_task(s, id, new)) /\ Present(with_task(s, id, new)) = Present(s)
      /\ with_task(s, id, new).current_task = s.current_task
  BY <1>1, WithTaskInv
<1> QED
  BY <1>2, <1>3, <1>4, <1>5 DEF SameFrames

(* Setting a state changes that state.                                      *)
LEMMA WithStateEffect ==
    ASSUME NEW s, SchedInv(s), NEW id \in Present(s), NEW st \in TaskState
    PROVE  /\ SameFrames(s, with_state(s, id, st))
           /\ with_state(s, id, st).current_task = s.current_task
           /\ \A t \in Present(s) : with_state(s, id, st).tasks[t].state =
                                     IF t = id THEN st ELSE s.tasks[t].state
<1> DEFINE new == [s.tasks[id] EXCEPT !.state = st]
<1>1. s.tasks[id] \in Task /\ new \in Task
  BY StoredTask, TaskWithState
<1>2. /\ new.interrupt_rsp = s.tasks[id].interrupt_rsp /\ new.context = s.tasks[id].context
      /\ new.state = st
  BY <1>1 DEF Task
<1> HIDE DEF new
<1>3. with_state(s, id, st) = with_task(s, id, new)
  BY DEF with_state, new
<1>4. \A t \in Present(s) : with_task(s, id, new).tasks[t] = IF t = id THEN new ELSE s.tasks[t]
  BY <1>1, WithTaskEffect
<1>5. /\ SchedInv(with_task(s, id, new)) /\ Present(with_task(s, id, new)) = Present(s)
      /\ with_task(s, id, new).current_task = s.current_task
  BY <1>1, WithTaskInv
<1> QED
  BY <1>2, <1>3, <1>4, <1>5 DEF SameFrames

(* A tick is counted in the current task.                                   *)
LEMMA TickEffect ==
    ASSUME NEW s, SchedInv(s), s.current_task \in Present(s)
    PROVE  /\ SameFrames(s, tick(s)) /\ tick(s).current_task = s.current_task
           /\ \A t \in Present(s) : tick(s).tasks[t].state = s.tasks[t].state
<1> DEFINE id == s.current_task
           new == [s.tasks[id] EXCEPT !.time_slice_ticks = @ + 1]
<1>1. s.tasks[id] \in Task /\ new \in Task
  BY StoredTask, TaskTicked
<1>2. /\ new.interrupt_rsp = s.tasks[id].interrupt_rsp /\ new.context = s.tasks[id].context
      /\ new.state = s.tasks[id].state
  BY <1>1 DEF Task
<1>3. tick(s) = with_task(s, id, new)
  BY DEF tick
<1> HIDE DEF new, id
<1>4. id \in Present(s)
  BY DEF id
<1>5. \A t \in Present(s) : with_task(s, id, new).tasks[t] = IF t = id THEN new ELSE s.tasks[t]
  BY <1>1, <1>4, WithTaskEffect
<1>6. /\ SchedInv(with_task(s, id, new)) /\ Present(with_task(s, id, new)) = Present(s)
      /\ with_task(s, id, new).current_task = s.current_task
  BY <1>1, WithTaskInv
<1> QED
  BY <1>2, <1>3, <1>5, <1>6 DEF SameFrames

(* The interrupted frame is saved in the current task, which is Running.    *)
LEMMA SavedAndTickedEffect ==
    ASSUME NEW s, SchedInv(s), s.current_task \in Present(s), NEW f \in Frames
    PROVE  LET r == saved_and_ticked(s, f) IN
             /\ SchedInv(r) /\ Present(r) = Present(s) /\ r.current_task = s.current_task
             /\ \A t \in Present(s) : r.tasks[t].context = s.tasks[t].context
             /\ r.tasks[s.current_task].interrupt_rsp = f
             /\ \A t \in Present(s) \ {s.current_task} :
                  /\ r.tasks[t].interrupt_rsp = s.tasks[t].interrupt_rsp
                  /\ r.tasks[t].state = s.tasks[t].state
<1> DEFINE id == s.current_task
           new == [s.tasks[id] EXCEPT !.interrupt_rsp = f, !.state = "Running"]
           u == with_task(s, id, new)
<1>1. s.tasks[id] \in Task /\ new \in Task
  BY StoredTask, TaskSaved
<1>2. new.interrupt_rsp = f /\ new.context = s.tasks[id].context
  BY <1>1 DEF Task
<1>3. id \in Present(s) /\ saved_and_ticked(s, f) = tick(u)
  BY DEF saved_and_ticked
<1> HIDE DEF new, u
<1>4. \A t \in Present(s) : u.tasks[t] = IF t = id THEN new ELSE s.tasks[t]
  BY <1>1, <1>3, WithTaskEffect DEF u
<1>5. SchedInv(u) /\ Present(u) = Present(s) /\ u.current_task = s.current_task
  BY <1>1, WithTaskInv DEF u
<1>6. /\ SameFrames(u, tick(u)) /\ tick(u).current_task = u.current_task
      /\ \A t \in Present(u) : tick(u).tasks[t].state = u.tasks[t].state
  BY <1>3, <1>5, TickEffect
<1> QED
  BY <1>2, <1>3, <1>4, <1>5, <1>6 DEF SameFrames

(* r is an outcome of an expired slice of task cur of s: cur goes on, or a  *)
(* task n whose frame passes validate_interrupt_frame is switched to.  No   *)
(* task but the new current one becomes Running.                            *)
Outcome(s, cur, r) ==
    LET n == r.sched.current_task IN
      /\ SameFrames(s, r.sched) /\ n \in Present(s)
      /\ \A t \in Present(s) \ {n} :
           r.sched.tasks[t].state = "Running" => t # cur /\ s.tasks[t].state = "Running"
      /\ \/ n = cur /\ r.ret = NullFrame
         \/ n # cur /\ r.ret = s.tasks[n].interrupt_rsp /\ r.ret \in ValidFrames

(* All five ways through preempt have such an outcome.                      *)
LEMMA PreemptOutcome ==
    ASSUME NEW s, SchedInv(s), NEW cur \in Present(s), s.current_task = cur
    PROVE  Outcome(s, cur, preempt(s, cur))
<1> DEFINE r == schedule(s)
           next == r.current_task
           back == [r EXCEPT !.current_task = cur]
           kept == running_afresh(back, cur)
<1>1. /\ SchedInv(r) /\ Present(r) = Present(s) /\ r.tasks = s.tasks
      /\ s.current_task # None => r.current_task # None
  BY ScheduleInv
<1>2. cur # None
  BY SchedInvFacts DEF TaskIds, None
<1> HIDE DEF r
<1>3. next \in Present(s)
  BY <1>1, <1>2, SchedInvFacts
<1>4. /\ SchedInv(back) /\ Present(back) = Present(s) /\ back.current_task = cur
      /\ back.tasks = s.tasks
  <2>1. r = [run_queue |-> r.run_queue, current_task |-> r.current_task,
             task_count |-> r.task_count, tasks |-> r.tasks]
    BY <1>1, SchedFields
  <2>2. SchedInv(back) /\ Present(back) = Present(r)
    BY <1>1, CurrentInv
  <2> QED
    BY <1>1, <2>1, <2>2
<1> HIDE DEF back
<1>5. CASE next = cur
  <2>1. preempt(s, cur) = Resume(running_afresh(r, cur))
    BY <1>5 DEF preempt, r
  <2>2. /\ SameFrames(r, running_afresh(r, cur)) /\ running_afresh(r, cur).current_task = cur
        /\ \A t \in Present(r) \ {cur} : running_afresh(r, cur).tasks[t].state = r.tasks[t].state
    BY <1>1, <1>5, RunningAfreshEffect
  <2> QED
    BY <1>1, <2>1, <2>2 DEF Outcome, Resume, SameFrames
<1>6. CASE next # cur /\ ~validate_interrupt_frame(s.tasks[next].interrupt_rsp)
  <2>1. preempt(s, cur) = Resume(with_state(kept, next, "Ready"))
    BY <1>2, <1>3, <1>6 DEF preempt, r, back, None, SchedInv, SchedulerType, TaskIds
  <2>2. /\ SameFrames(back, kept) /\ kept.current_task = cur
        /\ \A t \in Present(s) \ {cur} : kept.tasks[t].state = s.tasks[t].state
    BY <1>4, RunningAfreshEffect
  <2> HIDE DEF kept
  <2> DEFINE w == with_state(kept, next, "Ready")
  <2>3. SchedInv(kept) /\ Present(kept) = Present(s)
    BY <1>4, <2>2 DEF SameFrames
  <2>4. /\ SameFrames(kept, w) /\ w.current_task = cur
        /\ \A t \in Present(s) : w.tasks[t].state =
                                  IF t = next THEN "Ready" ELSE kept.tasks[t].state
    BY <1>3, <2>2, <2>3, WithStateEffect DEF TaskState
  <2> HIDE DEF w
  <2>5. SameFrames(s, w)
    BY <1>4, <2>2, <2>4 DEF SameFrames
  <2>6. preempt(s, cur) = [sched |-> w, ret |-> NullFrame]
    BY <2>1 DEF Resume, w
  <2> QED
    BY <1>6, <2>2, <2>4, <2>5, <2>6 DEF Outcome
<1>7. CASE next # cur /\ validate_interrupt_frame(s.tasks[next].interrupt_rsp)
  <2> DEFINE v == with_state(r, cur, "Ready")
             w == running_afresh(v, next)
  <2>1. preempt(s, cur) = SwitchTo(w, s.tasks[next].interrupt_rsp)
    BY <1>2, <1>3, <1>7 DEF preempt, r, back, None, SchedInv, SchedulerType, TaskIds
  <2>2. /\ SameFrames(r, v) /\ v.current_task = next
        /\ \A t \in Present(s) : v.tasks[t].state = IF t = cur THEN "Ready" ELSE s.tasks[t].state
    BY <1>1, WithStateEffect DEF TaskState
  <2> HIDE DEF v
  <2>3. SchedInv(v) /\ Present(v) = Present(s)
    BY <1>1, <2>2 DEF SameFrames
  <2>4. /\ SameFrames(v, w) /\ w.current_task = next
        /\ \A t \in Present(s) \ {next} : w.tasks[t].state = v.tasks[t].state
    BY <1>3, <2>2, <2>3, RunningAfreshEffect
  <2> HIDE DEF w
  <2>5. SameFrames(s, w)
    BY <1>1, <2>2, <2>4 DEF SameFrames
  <2>6. preempt(s, cur) = [sched |-> w, ret |-> s.tasks[next].interrupt_rsp]
    BY <2>1 DEF SwitchTo
  <2>7. s.tasks[next].interrupt_rsp \in ValidFrames
    BY <1>7 DEF validate_interrupt_frame
  <2> QED
    BY <1>3, <1>7, <2>2, <2>4, <2>5, <2>6, <2>7 DEF Outcome
<1> QED
  BY <1>5, <1>6, <1>7

(* What a timer interrupt does when there is a current task: the frame of   *)
(* what was interrupted is saved there, and an outcome as above.            *)
TimerEffect(s, f, r) ==
    LET cur == s.current_task
        n == r.sched.current_task
    IN
      /\ SchedInv(r.sched) /\ Present(r.sched) = Present(s) /\ n \in Present(s)
      /\ \A t \in Present(s) : r.sched.tasks[t].context = s.tasks[t].context
      /\ r.sched.tasks[cur].interrupt_rsp = f
      /\ \A t \in Present(s) \ {cur} :
           r.sched.tasks[t].interrupt_rsp = s.tasks[t].interrupt_rsp
      /\ \A t \in Present(s) \ {n} :
           r.sched.tasks[t].state = "Running" => t # cur /\ s.tasks[t].state = "Running"
      /\ \/ n = cur /\ r.ret = NullFrame
         \/ n # cur /\ r.ret = s.tasks[n].interrupt_rsp /\ r.ret \in ValidFrames

(* timer_interrupt has that effect on every path.                           *)
LEMMA TimerInterruptEffect ==
    ASSUME NEW s, SchedInv(s), s.current_task \in Present(s), NEW f \in Frames
    PROVE  TimerEffect(s, f, timer_interrupt(s, f))
<1> DEFINE cur == s.current_task
           t == saved_and_ticked(s, f)
<1>1. /\ SchedInv(t) /\ Present(t) = Present(s) /\ t.current_task = cur
      /\ \A i \in Present(s) : t.tasks[i].context = s.tasks[i].context
      /\ t.tasks[cur].interrupt_rsp = f
      /\ \A i \in Present(s) \ {cur} : /\ t.tasks[i].interrupt_rsp = s.tasks[i].interrupt_rsp
                                       /\ t.tasks[i].state = s.tasks[i].state
  BY SavedAndTickedEffect
<1>2. timer_interrupt(s, f) = IF ~SliceExpired(t) THEN Resume(t) ELSE preempt(t, cur)
  BY DEF timer_interrupt
<1> HIDE DEF t
<1>3. CASE ~SliceExpired(t)
  <2>1. timer_interrupt(s, f) = [sched |-> t, ret |-> NullFrame]
    BY <1>2, <1>3 DEF Resume
  <2> QED
    BY <1>1, <2>1 DEF TimerEffect
<1>4. CASE SliceExpired(t)
  <2> DEFINE r == preempt(t, cur)
             n == r.sched.current_task
  <2>1. Outcome(t, cur, r)
    BY <1>1, PreemptOutcome
  <2>2. timer_interrupt(s, f) = r
    BY <1>2, <1>4
  <2> HIDE DEF r
  <2>3. TimerEffect(s, f, r)
    BY <1>1, <2>1 DEF Outcome, SameFrames, TimerEffect
  <2> QED
    BY <2>2, <2>3
<1> QED
  BY <1>3, <1>4

(* Once flow f runs, pointers to its frame are stale and its start context  *)
(* is used up; nothing else changes.                                        *)
LEMMA ConsumeEffect ==
    ASSUME NEW s, SchedInv(s), NEW f \in Frames
    PROVE  LET r == Consume(s, f) IN
             /\ SchedInv(r) /\ Present(r) = Present(s) /\ r.current_task = s.current_task
             /\ \A t \in Present(s) :
                  /\ r.tasks[t].state = s.tasks[t].state
                  /\ rsp(r, t) = IF rsp(s, t) = f THEN StaleFrame ELSE rsp(s, t)
                  /\ rip(r, t) = IF t = f /\ rip(s, t) = "trampoline" THEN "consumed"
                                 ELSE rip(s, t)
<1> DEFINE new(t) == [s.tasks[t] EXCEPT
              !.interrupt_rsp = IF @ = f THEN StaleFrame ELSE @,
              !.context.rip = IF t = f /\ @ = "trampoline" THEN "consumed" ELSE @]
           g == [t \in Present(s) |-> new(t)]
           r == [run_queue |-> s.run_queue, current_task |-> s.current_task,
                 task_count |-> s.task_count, tasks |-> g]
<1>1. \A t \in Present(s) :
        /\ new(t) \in Task
        /\ new(t).state = s.tasks[t].state
        /\ new(t).interrupt_rsp = IF rsp(s, t) = f THEN StaleFrame ELSE rsp(s, t)
        /\ new(t).context.rip = IF t = f /\ rip(s, t) = "trampoline" THEN "consumed"
                                ELSE rip(s, t)
  <2> SUFFICES ASSUME NEW t \in Present(s)
               PROVE  /\ new(t) \in Task
                      /\ new(t).state = s.tasks[t].state
                      /\ new(t).interrupt_rsp = IF rsp(s, t) = f THEN StaleFrame ELSE rsp(s, t)
                      /\ new(t).context.rip = IF t = f /\ rip(s, t) = "trampoline"
                                              THEN "consumed" ELSE rip(s, t)
    OBVIOUS
  <2>1. s.tasks[t] \in Task
    BY StoredTask
  <2>2. StaleFrame \in Frames
    BY FlowFramesAssumption
  <2> QED
    BY <2>1, <2>2 DEF Task, TaskContext, Rip, rsp, rip
<1> HIDE DEF new
<1>2. Consume(s, f) = [s EXCEPT !.tasks = g]
  BY DEF Consume, new
<1>3. Consume(s, f) = r
  BY <1>2, SchedFields
<1>4. g \in [Present(s) -> Task]
  BY <1>1
<1>5. SchedInv(r)
  <2> HIDE DEF g
  <2> QED
    BY <1>4, SchedInvFacts, SchedInvIntro
<1>6. Present(r) = Present(s)
  BY DEF Present
<1>7. \A t \in Present(s) : r.tasks[t] = new(t)
  OBVIOUS
<1> QED
  BY <1>1, <1>3, <1>5, <1>6, <1>7 DEF rsp, rip

(* A successful create_task adds the task and changes no other.             *)
LEMMA CreateEffect ==
    ASSUME NEW s, SchedInv(s), NEW id \in TaskIds, NEW task \in Task, CanCreate(s, id)
    PROVE  LET r == create_task(s, id, task) IN
             /\ id \notin Present(s)
             /\ SchedInv(r) /\ Present(r) = Present(s) \cup {id}
             /\ r.current_task = s.current_task
             /\ r.tasks[id] = task /\ \A t \in Present(s) : r.tasks[t] = s.tasks[t]
<1>1. s.task_count < MAX_SCHEDULER_TASKS /\ ~contains(s.run_queue, id)
  BY DEF CanCreate, CanPush
<1>2. id \notin Present(s)
  BY <1>1, ContainsIsPresent
<1>3. Cardinality(Present(s)) < MAX_SCHEDULER_TASKS
  BY <1>1, SchedInvFacts
<1>4. create_task(s, id, task) =
        [run_queue |-> push(s.run_queue, id), current_task |-> s.current_task,
         task_count |-> s.task_count + 1,
         tasks |-> [t \in Present(s) \cup {id} |-> IF t = id THEN task ELSE s.tasks[t]]]
  BY <1>3 DEF create_task
<1>5. SchedInv(create_task(s, id, task))
  BY CreateTaskInv
<1> QED
  BY <1>2, <1>4, <1>5 DEF Present

(* remove_task takes the task out and changes no other.                     *)
LEMMA RemoveEffect ==
    ASSUME NEW s, SchedInv(s), NEW id \in Present(s), s.current_task # id
    PROVE  LET r == remove_task(s, id) IN
             /\ SchedInv(r) /\ Present(r) = Present(s) \ {id}
             /\ r.current_task = s.current_task
             /\ \A t \in Present(s) \ {id} : r.tasks[t] = s.tasks[t]
<1>1. id \in TaskIds /\ contains(s.run_queue, id)
  BY SchedInvFacts, ContainsIsPresent
<1>2. SchedInv(remove_task(s, id))
  BY <1>1, RemoveTaskInv
<1>3. remove_task(s, id) =
        [run_queue |-> remove(s.run_queue, id), current_task |-> s.current_task,
         task_count |-> IF s.task_count > 0 THEN s.task_count - 1 ELSE s.task_count,
         tasks |-> [t \in Present(s) \ {id} |-> s.tasks[t]]]
  BY <1>1 DEF remove_task
<1> QED
  BY <1>2, <1>3 DEF Present

-----------------------------------------------------------------------------
(* The inductive invariant, one lemma per step of the kernel thread and one *)
(* for the timer interrupt.                                                 *)

(* Ids are flows, flows are frames, and None is not a task.                 *)
LEMMA IdFacts ==
    ASSUME SchedInv(sched), IdsInv
    PROVE  /\ None \notin Present(sched) /\ Kernel \notin Present(sched)
           /\ Present(sched) \subseteq TaskIds /\ Present(sched) \subseteq Flows
           /\ Flows \subseteq Frames /\ ValidFrames = Frames
           /\ NullFrame \notin Frames /\ StaleFrame \notin Flows
           /\ Kernel \in Flows
           /\ sched.current_task \in Present(sched) \cup {None}
<1>1. Present(sched) \subseteq TaskIds /\ sched.current_task \in Present(sched) \cup {None}
  BY SchedInvFacts
<1>2. Present(sched) \subseteq 1 .. MaxTaskId
  BY <1>1, SizesAssumption DEF IdsInv, TaskIds
<1> QED
  BY <1>1, <1>2, FlowFramesAssumption, FramesAssumption DEF Flows, Kernel, None, TaskIds

(* The machine starts with an empty scheduler and the kernel thread.        *)
LEMMA InitPreemptInv == PInit => PreemptInv
<1> SUFFICES ASSUME PInit PROVE PreemptInv
  OBVIOUS
<1>1. sched = Scheduler_new /\ SchedInv(sched) /\ Present(sched) = {}
  BY NewInv DEF PInit, Init, Scheduler_new, Present
<1>2. sched.current_task = None /\ nextTaskId = 1 /\ cpu = Kernel /\ pc = "start"
      /\ fault = "none"
  BY <1>1 DEF PInit, Init, Scheduler_new
<1>3. Preparing /\ ~Entering /\ ~EnteringEmpty
  BY <1>2 DEF Preparing, Entering, EnteringEmpty
<1>4. IdsInv
  BY <1>1, <1>2, SizesAssumption DEF IdsInv, TaskIds
<1>5. CpuInv
  BY <1>2, <1>3 DEF CpuInv, CpuMatchesCurrent, Flows
<1>6. TestInv
  BY <1>1, <1>2, <1>3 DEF TestInv
<1> QED
  BY <1>1, <1>2, <1>4, <1>5, <1>6 DEF PreemptInv, FramesInv, NothingPrepared,
     OnlyCurrentRunning, NoStaleResume

(* create_initial_task adds a task with no frame.                           *)
LEMMA InitialTaskStep == PreemptInv /\ InitialTask => PreemptInv'
<1> SUFFICES ASSUME PreemptInv, InitialTask PROVE PreemptInv'
  OBVIOUS
<1> DEFINE task == initialize_context(Task_new)
           id == nextTaskId
<1>1. /\ SchedInv(sched) /\ IdsInv /\ cpu = Kernel /\ pc = "start" /\ pc' = pc
      /\ fault = "none" /\ fault' = fault /\ cpu' = cpu /\ id <= MaxTaskId
      /\ sched' = create_task(sched, id, task) /\ nextTaskId' = id + 1
  BY DEF PreemptInv, InitialTask, KernelAt, Goto, create_initial_task, CreateTask
<1>2. task \in Task /\ task.interrupt_rsp = NullFrame /\ task.state = "Ready"
  BY NewTasks DEF initialize_context, Task_new
<1> HIDE DEF task
<1>3. /\ SchedInv(sched') /\ Present(sched') \subseteq Present(sched) \cup {id}
      /\ sched'.current_task = sched.current_task
      /\ \A t \in Present(sched') :
           \/ sched'.tasks[t] = sched.tasks[t] /\ t \in Present(sched)
           \/ sched'.tasks[t] = task
  <2>1. id \in TaskIds
    BY <1>1 DEF IdsInv
  <2>2. CASE CanCreate(sched, id)
    BY <1>1, <1>2, <2>1, <2>2, CreateEffect
  <2>3. CASE ~CanCreate(sched, id)
    BY <1>1, <2>3 DEF create_task
  <2> QED
    BY <2>2, <2>3
<1>4. /\ Preparing /\ ~Entering /\ ~EnteringEmpty
      /\ Preparing' /\ ~Entering' /\ ~EnteringEmpty'
  BY <1>1 DEF Preparing, Entering, EnteringEmpty
<1>5. \A t \in Present(sched) \ {sched.current_task} : rsp(sched, t) = NullFrame
  BY <1>1, <1>4 DEF PreemptInv, NothingPrepared
<1>6. \A t \in Present(sched') \ {sched'.current_task} : sched'.tasks[t].interrupt_rsp = NullFrame
  BY <1>2, <1>3, <1>5 DEF rsp
<1>7. IdsInv'
  BY <1>1, <1>3, IdFacts, SizesAssumption DEF IdsInv, TaskIds
<1>8. TestInv'
  BY <1>1, <1>4 DEF TestInv
<1>9. FramesInv' /\ NothingPrepared'
  <2>1. NullFrame # Kernel
    BY <1>1, IdFacts
  <2> QED
    BY <1>4, <1>6, <2>1 DEF FramesInv, NothingPrepared, rsp
<1>10. CpuInv'
  BY <1>1, <1>3, <1>4 DEF PreemptInv, CpuInv, CpuMatchesCurrent
<1>11. OnlyCurrentRunning'
  BY <1>2, <1>3 DEF PreemptInv, OnlyCurrentRunning
<1> QED
  BY <1>1, <1>3, <1>7, <1>8, <1>9, <1>10, <1>11 DEF PreemptInv, NoStaleResume

(* Calling a test allocates two new ids.                                    *)
LEMMA CallTestStep ==
    ASSUME PreemptInv, NEW test \in Tests, CallTest(test)
    PROVE  PreemptInv'
<1>1. /\ SchedInv(sched) /\ IdsInv /\ cpu = Kernel /\ pc \in {"start", "returned", "ctxReturned"}
      /\ pc' \in {"createA", "ctxCreateA"} /\ fault = "none" /\ fault' = fault /\ cpu' = cpu
      /\ sched' = sched /\ nextTaskId + 1 <= MaxTaskId /\ nextTaskId' = nextTaskId + 2
      /\ a' = nextTaskId /\ b' = nextTaskId + 1
  BY DEF PreemptInv, CallTest, KernelAt
<1>2. /\ Preparing /\ ~Entering /\ ~EnteringEmpty
      /\ Preparing' /\ ~Entering' /\ ~EnteringEmpty'
  BY <1>1 DEF Preparing, Entering, EnteringEmpty
<1>3. \A t \in Present(sched) \ {sched.current_task} : rsp(sched, t) = NullFrame
  BY <1>1, <1>2 DEF PreemptInv, NothingPrepared
<1>4. IdsInv'
  <2>1. \A t \in Present(sched') : t \in TaskIds /\ t < nextTaskId
    BY <1>1, IdFacts DEF IdsInv
  <2> QED
    BY <1>1, <2>1, SizesAssumption DEF IdsInv, TaskIds
<1>5. TestInv'
  <2>1. {a', b'} \cap Present(sched') = {}
    BY <1>1 DEF IdsInv, TaskIds
  <2> QED
    BY <1>1, <1>2, <2>1 DEF TestInv
<1>6. FramesInv' /\ NothingPrepared'
  <2>1. NullFrame # Kernel
    BY <1>1, IdFacts
  <2> QED
    BY <1>1, <1>2, <1>3, <2>1 DEF FramesInv, NothingPrepared, rsp
<1>7. CpuInv'
  BY <1>1, <1>2 DEF PreemptInv, CpuInv, CpuMatchesCurrent
<1>8. OnlyCurrentRunning'
  BY <1>1 DEF PreemptInv, OnlyCurrentRunning
<1> QED
  BY <1>1, <1>4, <1>5, <1>6, <1>7, <1>8 DEF PreemptInv, NoStaleResume

(* While a test prepares its tasks nothing is current and nothing Running,  *)
(* and only tasks it has prepared hold a frame, their own.                  *)
Idle(s) ==
    /\ SchedInv(s) /\ s.current_task = None
    /\ \A t \in Present(s) : /\ rsp(s, t) \in {NullFrame, t}
                             /\ s.tasks[t].state # "Running"

(* The invariant says so.                                                   *)
LEMMA PreparingFacts ==
    ASSUME PreemptInv, Preparing
    PROVE  /\ Idle(sched) /\ cpu = Kernel /\ ~Entering /\ ~EnteringEmpty
           /\ \A t \in Present(sched) : rsp(sched, t) # NullFrame =>
                t \in {a, b} /\ pc \in {"createB", "prepareB", "setCurrent"}
<1>1. SchedInv(sched) /\ sched.current_task = None /\ cpu = Kernel
  BY DEF PreemptInv, CpuInv
<1>2. ~Entering /\ ~EnteringEmpty
  BY DEF Preparing, Entering, EnteringEmpty
<1>3. None \notin Present(sched)
  BY IdFacts DEF PreemptInv
<1>4. \A t \in Present(sched) : /\ rsp(sched, t) \in {NullFrame, t}
                                /\ sched.tasks[t].state # "Running"
  BY <1>1, <1>2, <1>3 DEF PreemptInv, FramesInv, OnlyCurrentRunning
<1>5. \A t \in Present(sched) : rsp(sched, t) # NullFrame =>
        t \in {a, b} /\ pc \in {"createB", "prepareB", "setCurrent"}
  BY <1>1, <1>3 DEF PreemptInv, NothingPrepared
<1> QED
  BY <1>1, <1>2, <1>4, <1>5 DEF Idle

(* And it is all the invariant asks for at such a point.                    *)
LEMMA PreparingStep ==
    ASSUME PreemptInv, Preparing, Preparing', cpu' = cpu, fault' = fault,
           Idle(sched'), IdsInv', TestInv',
           \A t \in Present(sched') : rsp(sched', t) # NullFrame =>
                t \in {a', b'} /\ pc' \in {"createB", "prepareB", "setCurrent"}
    PROVE  PreemptInv'
<1>1. ~Entering' /\ ~EnteringEmpty'
  BY DEF Preparing, Entering, EnteringEmpty
<1>2. Kernel \notin Present(sched') /\ NullFrame # Kernel
  <2>1. Present(sched') \subseteq TaskIds
    BY SchedInvFacts DEF Idle
  <2> QED
    BY <2>1, IdFacts DEF PreemptInv, Kernel, TaskIds
<1>3. FramesInv'
  BY <1>2 DEF Idle, FramesInv, rsp
<1>4. NothingPrepared'
  BY <1>1 DEF NothingPrepared, rsp
<1>5. CpuInv'
  <2>1. cpu = Kernel /\ cpu \in Flows
    BY PreparingFacts, IdFacts DEF PreemptInv
  <2>2. pc' # "parked"
    BY DEF Preparing
  <2> QED
    BY <1>1, <2>1, <2>2 DEF Idle, CpuInv, CpuMatchesCurrent
<1>6. OnlyCurrentRunning'
  BY DEF Idle, OnlyCurrentRunning
<1> QED
  BY <1>3, <1>4, <1>5, <1>6 DEF PreemptInv, NoStaleResume, Idle

(* A successful create_task adds an idle task with an empty context.        *)
LEMMA CreatedIdle ==
    ASSUME Idle(sched), NEW id \in TaskIds, CanCreate(sched, id),
           sched' = create_task(sched, id, Task_new)
    PROVE  /\ id \notin Present(sched) /\ Present(sched') = Present(sched) \cup {id}
           /\ Idle(sched')
           /\ rsp(sched', id) = NullFrame /\ rip(sched', id) = "null"
           /\ \A t \in Present(sched) : rsp(sched', t) = rsp(sched, t)
                                        /\ rip(sched', t) = rip(sched, t)
<1>1. /\ id \notin Present(sched)
      /\ SchedInv(sched') /\ Present(sched') = Present(sched) \cup {id}
      /\ sched'.current_task = sched.current_task
      /\ sched'.tasks[id] = Task_new
      /\ \A t \in Present(sched) : sched'.tasks[t] = sched.tasks[t]
  BY CreateEffect, NewTasks DEF Idle
<1>2. /\ Task_new.interrupt_rsp = NullFrame /\ Task_new.state = "Ready"
      /\ Task_new.context.rip = "null"
  BY DEF Task_new, EmptyContext
<1> QED
  BY <1>1, <1>2 DEF Idle, rsp, rip

(* The four create_task calls of the two tests.                             *)
LEMMA CreateStep ==
    ASSUME PreemptInv, cpu = Kernel, fault = "none",
           NEW id, NEW undo, NEW then, NEW return, CreateOrReturn(id, undo, then, return),
           \/ <<pc, id, undo, then, return>> = <<"createA", a, None, "prepareA", "returned">>
           \/ <<pc, id, undo, then, return>> = <<"createB", b, a, "prepareB", "returned">>
           \/ <<pc, id, undo, then, return>> = <<"ctxCreateA", a, None, "ctxCreateB", "ctxReturned">>
           \/ <<pc, id, undo, then, return>> = <<"ctxCreateB", b, None, "select", "ctxReturned">>
    PROVE  PreemptInv'
<1>1. /\ SchedInv(sched) /\ IdsInv /\ TestInv
      /\ pc \in {"createA", "createB", "ctxCreateA", "ctxCreateB"}
      /\ pc' = (IF CanCreate(sched, id) THEN then ELSE return)
      /\ UNCHANGED <<cpu, int_flag, a, b, fault, nextTaskId>>
      /\ id \in {a, b}
  BY DEF PreemptInv, CreateOrReturn, Goto
<1>2. Preparing
  BY <1>1 DEF Preparing
<1>3. /\ Idle(sched)
      /\ \A t \in Present(sched) : rsp(sched, t) # NullFrame => t \in {a, b} /\ pc = "createB"
  BY <1>1, <1>2, PreparingFacts
<1>4. id \in TaskIds /\ a \in TaskIds /\ b \in TaskIds /\ a # b /\ a # None
      /\ a < nextTaskId /\ b < nextTaskId
  BY <1>1 DEF IdsInv, TaskIds, None
<1>5. CASE CanCreate(sched, id)
  <2>1. sched' = create_task(sched, id, Task_new) /\ pc' = then
    BY <1>5, <1>1 DEF CreateOrReturn
  <2>2. /\ id \notin Present(sched) /\ Present(sched') = Present(sched) \cup {id}
        /\ Idle(sched')
        /\ rsp(sched', id) = NullFrame /\ rip(sched', id) = "null"
        /\ \A t \in Present(sched) : rsp(sched', t) = rsp(sched, t)
                                     /\ rip(sched', t) = rip(sched, t)
    BY <1>3, <1>4, <1>5, <2>1, CreatedIdle
  <2>3. IdsInv'
    BY <1>1, <1>4, <2>2 DEF IdsInv
  <2>4. Preparing' /\ TestInv'
    <3>1. CASE pc = "createA"
      BY <1>1, <1>4, <2>1, <2>2, <3>1 DEF TestInv, Preparing
    <3>2. CASE pc = "createB"
      BY <1>1, <1>4, <2>1, <2>2, <3>2 DEF TestInv, Preparing, rip
    <3>3. CASE pc = "ctxCreateA"
      BY <1>1, <1>4, <2>1, <2>2, <3>3 DEF TestInv, Preparing, rip
    <3>4. CASE pc = "ctxCreateB"
      BY <1>1, <1>4, <2>1, <2>2, <3>4 DEF TestInv, Preparing, rip
    <3> QED
      BY <1>1, <3>1, <3>2, <3>3, <3>4
  <2>5. \A t \in Present(sched') : rsp(sched', t) # NullFrame =>
                t \in {a', b'} /\ pc' \in {"createB", "prepareB", "setCurrent"}
    BY <1>1, <1>3, <2>1, <2>2
  <2> QED
    BY <1>1, <1>2, <2>2, <2>3, <2>4, <2>5, PreparingStep
<1>6. CASE ~CanCreate(sched, id)
  <2>1. pc' = return /\ Preparing'
    BY <1>1, <1>6 DEF Preparing
  <2>2. CASE pc # "createB"
    <3>1. sched' = sched
      BY <1>6, <2>2 DEF CreateOrReturn
    <3>2. IdsInv'
      BY <1>1, <1>4, <3>1 DEF IdsInv
    <3>3. TestInv'
      BY <1>1, <2>1, <2>2, <3>1 DEF TestInv
    <3>4. \A t \in Present(sched') : rsp(sched', t) # NullFrame =>
                t \in {a', b'} /\ pc' \in {"createB", "prepareB", "setCurrent"}
      BY <1>3, <2>2, <3>1
    <3>5. Idle(sched')
      BY <1>3, <3>1
    <3> QED
      BY <1>1, <1>2, <2>1, <3>2, <3>3, <3>4, <3>5, PreparingStep
  <2>3. CASE pc = "createB"
    <3>1. sched' = remove_task(sched, a) /\ a \in Present(sched) /\ b \notin Present(sched)
      BY <1>1, <1>4, <1>6, <2>3 DEF CreateOrReturn, TestInv
    <3>2. sched.current_task # a
      BY <1>3, <1>4 DEF Idle
    <3>3. /\ SchedInv(sched') /\ Present(sched') = Present(sched) \ {a}
          /\ sched'.current_task = sched.current_task
          /\ \A t \in Present(sched) \ {a} : sched'.tasks[t] = sched.tasks[t]
      BY <1>1, <3>1, <3>2, RemoveEffect
    <3>4. IdsInv'
      BY <1>1, <1>4, <3>3 DEF IdsInv
    <3>5. TestInv'
      <4>1. {a', b'} \cap Present(sched') = {} /\ pc' = "returned"
        BY <1>1, <2>1, <2>3, <3>1, <3>3
      <4> QED
        BY <2>1, <4>1 DEF TestInv
    <3>6. \A t \in Present(sched') : rsp(sched', t) = NullFrame
      BY <1>3, <3>1, <3>3 DEF rsp
    <3>7. Idle(sched')
      BY <1>3, <3>3, <3>6 DEF Idle, rsp
    <3> QED
      BY <1>1, <1>2, <2>1, <3>4, <3>5, <3>6, <3>7, PreparingStep
  <2> QED
    BY <2>2, <2>3
<1> QED
  BY <1>5, <1>6

(* A prepared task holds its own synthetic frame and waits.                 *)
LEMMA PrepareStep ==
    ASSUME PreemptInv, cpu = Kernel, NEW id, NEW then, Prepare(id), Goto(then),
           \/ <<pc, id, then>> = <<"prepareA", a, "createB">>
           \/ <<pc, id, then>> = <<"prepareB", b, "setCurrent">>
    PROVE  PreemptInv'
<1> DEFINE new == prepare_preemptive_start(sched.tasks[id], id)
<1>1. /\ SchedInv(sched) /\ IdsInv /\ TestInv /\ Preparing /\ pc' = then
      /\ UNCHANGED <<cpu, int_flag, a, b, fault, nextTaskId>>
      /\ sched' = with_task(sched, id, new)
  BY DEF PreemptInv, Preparing, Prepare, Goto
<1>2. /\ Idle(sched)
      /\ \A t \in Present(sched) : rsp(sched, t) # NullFrame => t \in {a, b} /\ pc = "prepareB"
  BY <1>1, PreparingFacts
<1>3. id \in Present(sched) /\ id \in {a, b}
  BY <1>1 DEF TestInv
<1>4. sched.tasks[id] \in Task /\ id \in ValidFrames
  BY <1>1, <1>3, StoredTask, IdFacts
<1>5. /\ new \in Task /\ new.interrupt_rsp = id /\ new.context.rip = "trampoline"
      /\ new.state = sched.tasks[id].state
  BY <1>4, PreparedTask DEF prepare_preemptive_start, Task
<1> HIDE DEF new
<1>6. /\ SchedInv(sched') /\ Present(sched') = Present(sched)
      /\ sched'.current_task = sched.current_task
      /\ \A t \in Present(sched) : sched'.tasks[t] = IF t = id THEN new ELSE sched.tasks[t]
  BY <1>1, <1>3, <1>5, WithTaskInv, WithTaskEffect
<1>7. Idle(sched')
  BY <1>2, <1>3, <1>5, <1>6 DEF Idle, rsp
<1>8. IdsInv'
  BY <1>1, <1>6 DEF IdsInv
<1>9. Preparing' /\ TestInv'
  <2>1. CASE pc = "prepareA"
    BY <1>1, <1>3, <1>5, <1>6, <2>1 DEF TestInv, Preparing, rip
  <2>2. CASE pc = "prepareB"
    <3>1. a # b /\ a \in Present(sched) /\ rip(sched, a) = "trampoline"
      BY <1>1, <2>2 DEF TestInv, IdsInv
    <3> QED
      BY <1>1, <1>3, <1>5, <1>6, <2>2, <3>1 DEF TestInv, Preparing, rip
  <2> QED
    BY <2>1, <2>2
<1>10. \A t \in Present(sched') : rsp(sched', t) # NullFrame =>
                t \in {a', b'} /\ pc' \in {"createB", "prepareB", "setCurrent"}
  BY <1>1, <1>2, <1>3, <1>5, <1>6 DEF rsp
<1> QED
  BY <1>1, <1>7, <1>8, <1>9, <1>10, PreparingStep

(* set_current: from here on a timer interrupt finds a current task.        *)
LEMMA SetCurrentStep ==
    ASSUME PreemptInv, KernelAt("setCurrent"), sched' = set_current(sched, a),
           UNCHANGED nextTaskId, Goto("markRunning")
    PROVE  PreemptInv'
<1>1. /\ SchedInv(sched) /\ IdsInv /\ TestInv /\ Preparing
      /\ pc = "setCurrent" /\ pc' = "markRunning"
      /\ UNCHANGED <<cpu, int_flag, a, b, fault, nextTaskId>>
  BY DEF PreemptInv, Preparing, KernelAt, Goto
<1>2. Idle(sched) /\ cpu = Kernel
  BY <1>1, PreparingFacts
<1>3. a \in Present(sched) /\ rip(sched, a) = "trampoline"
  BY <1>1 DEF TestInv
<1>4. contains(sched.run_queue, a)
  BY <1>1, <1>3, IdFacts, ContainsIsPresent
<1>5. /\ SchedInv(sched') /\ Present(sched') = Present(sched)
      /\ sched'.current_task = a /\ sched'.tasks = sched.tasks
  <2>1. sched' = [sched EXCEPT !.current_task = a]
    BY <1>4 DEF set_current
  <2>2. SchedInv(sched') /\ Present(sched') = Present(sched)
    BY <1>1, <1>3, <2>1, CurrentInv
  <2> QED
    BY <1>1, <2>1, <2>2, SchedFields
<1>6. ~Preparing' /\ Entering' /\ ~EnteringEmpty'
  BY <1>1 DEF Preparing, Entering, EnteringEmpty
<1>7. IdsInv'
  BY <1>1, <1>5 DEF IdsInv
<1>8. TestInv'
  BY <1>1, <1>3, <1>5, <1>6 DEF TestInv, rip
<1>9. FramesInv'
  <2>1. Kernel \notin Present(sched) /\ NullFrame # Kernel
    BY <1>1, IdFacts
  <2> QED
    BY <1>2, <1>5, <2>1 DEF Idle, FramesInv, rsp
<1>10. NothingPrepared'
  BY <1>6 DEF NothingPrepared
<1>11. CpuInv'
  BY <1>1, <1>2, <1>5, <1>6 DEF PreemptInv, CpuInv, CpuMatchesCurrent
<1>12. OnlyCurrentRunning'
  BY <1>2, <1>5 DEF Idle, OnlyCurrentRunning
<1> QED
  BY <1>1, <1>5, <1>7, <1>8, <1>9, <1>10, <1>11, <1>12 DEF PreemptInv, NoStaleResume

(* The kernel thread, about to enter the tasks, has the CPU: a is current   *)
(* and no task holds the frame of the kernel thread.                        *)
LEMMA EnteringFacts ==
    ASSUME PreemptInv, Entering, cpu = Kernel
    PROVE  /\ sched.current_task = a /\ ~Preparing /\ ~EnteringEmpty
           /\ a \in Present(sched) /\ rip(sched, a) = "trampoline"
           /\ \A t \in Present(sched) \ {a} : rsp(sched, t) \in {NullFrame, t}
<1>1. sched.current_task = a
  BY DEF PreemptInv, CpuInv
<1>2. pc \in {"markRunning", "select", "switch"} /\ rip(sched, a) = "trampoline"
  BY DEF PreemptInv, TestInv, Entering
<1>3. a \in Present(sched)
  BY <1>2 DEF PreemptInv, TestInv
<1>4. ~Preparing /\ ~EnteringEmpty
  BY <1>2 DEF Preparing, EnteringEmpty
<1>5. \A t \in Present(sched) \ {a} : rsp(sched, t) \in {NullFrame, t}
  BY <1>1 DEF PreemptInv, FramesInv
<1> QED
  BY <1>1, <1>2, <1>3, <1>4, <1>5

(* The slice of a begins while the kernel thread still runs.                *)
LEMMA MarkRunningStep ==
    ASSUME PreemptInv, KernelAt("markRunning"), sched' = running_afresh(sched, a),
           UNCHANGED nextTaskId, Goto("select")
    PROVE  PreemptInv'
<1>1. /\ SchedInv(sched) /\ IdsInv /\ TestInv /\ Entering /\ cpu = Kernel
      /\ pc = "markRunning" /\ pc' = "select"
      /\ UNCHANGED <<cpu, int_flag, a, b, fault, nextTaskId>>
  BY DEF PreemptInv, Entering, KernelAt, Goto
<1>2. /\ sched.current_task = a /\ a \in Present(sched) /\ rip(sched, a) = "trampoline"
      /\ \A t \in Present(sched) \ {a} : rsp(sched, t) \in {NullFrame, t}
  BY <1>1, EnteringFacts
<1>3. /\ SchedInv(sched') /\ Present(sched') = Present(sched) /\ sched'.current_task = a
      /\ \A t \in Present(sched) : rsp(sched', t) = rsp(sched, t) /\ rip(sched', t) = rip(sched, t)
      /\ \A t \in Present(sched) \ {a} : sched'.tasks[t].state = sched.tasks[t].state
  BY <1>1, <1>2, RunningAfreshEffect DEF SameFrames, rsp, rip
<1>4. ~Preparing' /\ Entering' /\ ~EnteringEmpty'
  BY <1>1, <1>2, <1>3 DEF Preparing, Entering, EnteringEmpty, rip
<1>5. IdsInv'
  BY <1>1, <1>3 DEF IdsInv
<1>6. TestInv'
  BY <1>1, <1>2, <1>3, <1>4 DEF TestInv
<1>7. FramesInv'
  <2>1. Kernel \notin Present(sched) /\ NullFrame # Kernel
    BY <1>1, IdFacts
  <2> QED
    BY <1>2, <1>3, <2>1 DEF FramesInv, rsp
<1>8. NothingPrepared'
  BY <1>4 DEF NothingPrepared
<1>9. CpuInv'
  BY <1>1, <1>3, <1>4 DEF PreemptInv, CpuInv, CpuMatchesCurrent
<1>10. OnlyCurrentRunning'
  BY <1>2, <1>3 DEF PreemptInv, OnlyCurrentRunning
<1> QED
  BY <1>1, <1>3, <1>5, <1>6, <1>7, <1>8, <1>9, <1>10 DEF PreemptInv, NoStaleResume

(* switch_kernel_to_task makes a current, in either test.                   *)
LEMMA SelectStep == PreemptInv /\ Select => PreemptInv'
<1> SUFFICES ASSUME PreemptInv, Select PROVE PreemptInv'
  OBVIOUS
<1>1. /\ SchedInv(sched) /\ IdsInv /\ TestInv /\ cpu = Kernel
      /\ pc = "select" /\ pc' = "switch" /\ a \in Present(sched)
      /\ UNCHANGED <<cpu, int_flag, a, b, fault, nextTaskId>>
      /\ sched' = [sched EXCEPT !.current_task = a]
  BY DEF PreemptInv, Select, KernelAt, Goto, switch_kernel_to_task
<1>2. /\ SchedInv(sched') /\ Present(sched') = Present(sched)
      /\ sched'.current_task = a /\ sched'.tasks = sched.tasks
  <2>1. SchedInv(sched') /\ Present(sched') = Present(sched)
    BY <1>1, CurrentInv
  <2> QED
    BY <1>1, <2>1, SchedFields
<1>3. IdsInv'
  BY <1>1, <1>2 DEF IdsInv
<1>4. Kernel \notin Present(sched) /\ NullFrame # Kernel
  BY <1>1, IdFacts
<1>5. CASE Entering
  <2>1. /\ sched.current_task = a /\ rip(sched, a) = "trampoline"
        /\ \A t \in Present(sched) \ {a} : rsp(sched, t) \in {NullFrame, t}
    BY <1>1, <1>5, EnteringFacts
  <2>2. ~Preparing' /\ Entering' /\ ~EnteringEmpty'
    BY <1>1, <1>2, <2>1 DEF Preparing, Entering, EnteringEmpty, rip
  <2>3. TestInv'
    BY <1>1, <1>2, <2>2 DEF TestInv
  <2>4. FramesInv'
    BY <1>2, <1>4, <2>1 DEF FramesInv, rsp
  <2>5. NothingPrepared'
    BY <2>2 DEF NothingPrepared
  <2>6. CpuInv'
    BY <1>1, <1>2, <2>2 DEF PreemptInv, CpuInv, CpuMatchesCurrent
  <2>7. OnlyCurrentRunning'
    BY <1>2, <2>1 DEF PreemptInv, OnlyCurrentRunning
  <2> QED
    BY <1>1, <1>2, <1>3, <2>3, <2>4, <2>5, <2>6, <2>7 DEF PreemptInv, NoStaleResume
<1>6. CASE ~Entering
  <2>1. Preparing /\ rip(sched, a) = "null"
    BY <1>1, <1>6 DEF TestInv, Preparing, EnteringEmpty
  <2>2. Idle(sched) /\ \A t \in Present(sched) : rsp(sched, t) = NullFrame
    BY <1>1, <2>1, PreparingFacts
  <2>3. ~Preparing' /\ ~Entering' /\ EnteringEmpty'
    BY <1>1, <1>2, <2>1 DEF Preparing, Entering, EnteringEmpty, rip
  <2>4. TestInv'
    BY <1>1, <1>2, <2>3 DEF TestInv
  <2>5. FramesInv' /\ NothingPrepared'
    BY <1>2, <1>4, <2>2, <2>3 DEF FramesInv, NothingPrepared, rsp
  <2>6. CpuInv'
    BY <1>1, <1>2, <2>3 DEF PreemptInv, CpuInv, CpuMatchesCurrent
  <2>7. OnlyCurrentRunning'
    BY <1>2, <2>2 DEF Idle, OnlyCurrentRunning
  <2> QED
    BY <1>1, <1>2, <1>3, <2>4, <2>5, <2>6, <2>7 DEF PreemptInv, NoStaleResume
<1> QED
  BY <1>5, <1>6

(* context::switch enters a through its synthetic frame, which is used up,  *)
(* or jumps through the empty context.                                      *)
LEMMA ContextSwitchStep == PreemptInv /\ ContextSwitch => PreemptInv'
<1> SUFFICES ASSUME PreemptInv, ContextSwitch PROVE PreemptInv'
  OBVIOUS
<1>1. /\ SchedInv(sched) /\ IdsInv /\ TestInv /\ cpu = Kernel
      /\ pc = "switch" /\ a \in Present(sched) /\ UNCHANGED <<nextTaskId, a, b>>
  BY DEF PreemptInv, ContextSwitch, KernelAt, TestInv
<1>2. CASE rip(sched, a) = "trampoline"
  <2>1. sched' = Consume(sched, a) /\ cpu' = a /\ pc' = "parked" /\ fault' = fault
    BY <1>2 DEF ContextSwitch, rip
  <2>2. Entering
    BY <1>1, <1>2 DEF Entering
  <2>3. /\ sched.current_task = a
        /\ \A t \in Present(sched) \ {a} : rsp(sched, t) \in {NullFrame, t}
    BY <1>1, <2>2, EnteringFacts
  <2>4. /\ a \in Frames /\ a \in Flows /\ a # NullFrame /\ NullFrame # Kernel
        /\ Kernel \notin Present(sched)
    BY <1>1, IdFacts
  <2>5. /\ SchedInv(sched') /\ Present(sched') = Present(sched) /\ sched'.current_task = a
        /\ \A t \in Present(sched) :
             /\ sched'.tasks[t].state = sched.tasks[t].state
             /\ rsp(sched', t) = IF rsp(sched, t) = a THEN StaleFrame ELSE rsp(sched, t)
    BY <1>1, <2>1, <2>3, <2>4, ConsumeEffect
  <2>6. \A t \in Present(sched) \ {a} : rsp(sched', t) = rsp(sched, t)
    BY <2>3, <2>4, <2>5
  <2>7. ~Preparing' /\ ~Entering' /\ ~EnteringEmpty'
    BY <2>1 DEF Preparing, Entering, EnteringEmpty
  <2>8. IdsInv'
    BY <1>1, <2>1, <2>5 DEF IdsInv
  <2>9. TestInv'
    BY <2>1 DEF TestInv
  <2>10. FramesInv'
    BY <2>3, <2>4, <2>5, <2>6 DEF FramesInv, rsp
  <2>11. NothingPrepared'
    BY <2>7 DEF NothingPrepared
  <2>12. CpuInv'
    BY <1>1, <2>1, <2>4, <2>5, <2>7 DEF CpuInv, CpuMatchesCurrent
  <2>13. OnlyCurrentRunning'
    BY <2>3, <2>5 DEF PreemptInv, OnlyCurrentRunning
  <2> QED
    BY <2>1, <2>5, <2>8, <2>9, <2>10, <2>11, <2>12, <2>13 DEF PreemptInv, NoStaleResume
<1>3. CASE rip(sched, a) # "trampoline"
  <2>1. UNCHANGED <<sched, cpu, pc, a, b, nextTaskId>> /\ fault' = rip(sched, a)
    BY <1>1, <1>3 DEF ContextSwitch, rip
  <2>2. rip(sched, a) = "null"
    BY <1>1, <1>3 DEF TestInv, Preparing, Entering, EnteringEmpty
  <2>3. /\ Preparing' = Preparing /\ Entering' = Entering /\ EnteringEmpty' = EnteringEmpty
    BY <2>1 DEF Preparing, Entering, EnteringEmpty
  <2>4. IdsInv' /\ TestInv'
    BY <2>1, <2>3 DEF PreemptInv, IdsInv, TestInv
  <2>5. FramesInv' /\ NothingPrepared' /\ OnlyCurrentRunning'
    BY <2>1, <2>3 DEF PreemptInv, FramesInv, NothingPrepared, OnlyCurrentRunning
  <2>6. CpuInv'
    BY <2>1, <2>3 DEF PreemptInv, CpuInv, CpuMatchesCurrent
  <2> QED
    BY <1>1, <2>1, <2>2, <2>4, <2>5, <2>6 DEF PreemptInv, NoStaleResume
<1> QED
  BY <1>2, <1>3

(* A timer interrupt before a task was made current changes nothing.        *)
LEMMA QuietIRQ0 ==
    ASSUME PreemptInv, IRQ0Schedules, sched.current_task = None
    PROVE  PreemptInv'
<1>1. /\ SchedInv(sched) /\ IdsInv /\ TestInv /\ fault = "none"
      /\ UNCHANGED <<nextTaskId, pc, a, b>>
  BY DEF PreemptInv, IRQ0Schedules, kvars
<1>2. None \notin Present(sched) /\ Kernel \in Flows /\ Kernel \in Frames /\ NullFrame # Kernel
      /\ Kernel \notin Present(sched)
  BY <1>1, IdFacts
<1>3. Preparing
  <2>1. cpu = Kernel
    BY DEF PreemptInv, CpuInv, CpuMatchesCurrent, None, Kernel
  <2>2. ~Entering /\ ~EnteringEmpty
    <3>1. pc \in {"markRunning", "select", "switch"} => a \in Present(sched)
      BY <1>1 DEF TestInv
    <3> QED
      BY <1>2, <2>1, <3>1 DEF PreemptInv, CpuInv, Entering, EnteringEmpty
  <2> QED
    BY <1>1, <2>1, <2>2 DEF TestInv, PreemptInv, CpuInv
<1>4. Idle(sched) /\ cpu = Kernel
      /\ \A t \in Present(sched) : rsp(sched, t) # NullFrame =>
            t \in {a, b} /\ pc \in {"createB", "prepareB", "setCurrent"}
  BY <1>3, PreparingFacts
<1>5. timer_interrupt(sched, cpu) = [sched |-> sched, ret |-> NullFrame]
  BY <1>2 DEF timer_interrupt, Resume
<1>6. cpu' = Kernel /\ fault' = "none" /\ sched' = Consume(sched, Kernel)
  BY <1>2, <1>4, <1>5 DEF IRQ0Schedules
<1>7. /\ SchedInv(sched') /\ Present(sched') = Present(sched)
      /\ sched'.current_task = None
      /\ \A t \in Present(sched) :
           /\ sched'.tasks[t].state = sched.tasks[t].state
           /\ rsp(sched', t) = IF rsp(sched, t) = Kernel THEN StaleFrame ELSE rsp(sched, t)
           /\ rip(sched', t) = IF t = Kernel /\ rip(sched, t) = "trampoline" THEN "consumed"
                               ELSE rip(sched, t)
  BY <1>1, <1>2, <1>6, ConsumeEffect
<1>8. \A t \in Present(sched) : rsp(sched', t) = rsp(sched, t) /\ rip(sched', t) = rip(sched, t)
  BY <1>2, <1>4, <1>7 DEF Idle
<1>9. pc \in {"select", "prepareA", "createB", "prepareB", "setCurrent", "ctxCreateB"} =>
        a \in Present(sched)
  BY <1>1 DEF TestInv
<1>10. Preparing'
  BY <1>1, <1>3, <1>8, <1>9 DEF Preparing, rip
<1>11. IdsInv'
  BY <1>1, <1>7 DEF IdsInv
<1>12. TestInv'
  BY <1>1, <1>7, <1>8, <1>9, <1>10 DEF TestInv, rip
<1>13. Idle(sched')
  BY <1>4, <1>7, <1>8 DEF Idle
<1> QED
  BY <1>1, <1>3, <1>4, <1>6, <1>7, <1>8, <1>10, <1>11, <1>12, <1>13, PreparingStep

(* A timer interrupt with a current task suspends what runs, in the name of *)
(* that task, and resumes it or the live frame of a waiting task.           *)
LEMMA PreemptingIRQ0 ==
    ASSUME PreemptInv, IRQ0Schedules, sched.current_task \in Present(sched)
    PROVE  PreemptInv'
<1> DEFINE cur == sched.current_task
           r == timer_interrupt(sched, cpu)
           n == r.sched.current_task
           f == IF r.ret = NullFrame THEN cpu ELSE r.ret
<1>1. /\ SchedInv(sched) /\ IdsInv /\ TestInv /\ fault = "none"
      /\ UNCHANGED <<nextTaskId, pc, a, b>>
  BY DEF PreemptInv, IRQ0Schedules, kvars
<1>2. /\ None \notin Present(sched) /\ Kernel \notin Present(sched)
      /\ Present(sched) \subseteq Flows /\ Flows \subseteq Frames
      /\ ValidFrames = Frames /\ NullFrame \notin Frames /\ Kernel \in Flows
      /\ NullFrame \notin Flows
  BY <1>1, IdFacts
<1>3. cpu \in Flows /\ (cpu # Kernel => cpu = cur)
  BY DEF PreemptInv, CpuInv, CpuMatchesCurrent
<1>4. ~Preparing
  BY <1>2 DEF PreemptInv, CpuInv
<1>5. \A t \in Present(sched) \ {cur} :
        /\ rsp(sched, t) \in {NullFrame, Kernel, t}
        /\ rsp(sched, t) = Kernel => t = a /\ cpu # Kernel /\ Entering
  BY DEF PreemptInv, FramesInv
<1>6. EnteringEmpty => /\ cpu = Kernel /\ cur = a
                       /\ \A t \in Present(sched) \ {cur} : rsp(sched, t) = NullFrame
  BY DEF PreemptInv, CpuInv, NothingPrepared
<1>7. Entering => \/ cpu = Kernel /\ cur = a
                  \/ cpu # Kernel /\ cpu # a /\ rsp(sched, a) = Kernel
  BY DEF PreemptInv, CpuInv
<1>8. Entering \/ EnteringEmpty => a \in Present(sched)
  BY <1>1 DEF Entering, EnteringEmpty, TestInv
<1>9. Entering \/ EnteringEmpty \/ cpu # Kernel
  BY <1>1, <1>4 DEF TestInv, PreemptInv, CpuInv
<1>10. TimerEffect(sched, cpu, r)
  BY <1>1, <1>2, <1>3, TimerInterruptEffect
<1>11. /\ cpu' = (IF f \in Flows THEN f ELSE cpu)
       /\ fault' = (IF f \in Flows THEN "none" ELSE "stale_frame")
       /\ sched' = Consume(r.sched, f)
  BY DEF IRQ0Schedules
<1> HIDE DEF r
<1>12. /\ SchedInv(r.sched) /\ Present(r.sched) = Present(sched) /\ n \in Present(sched)
       /\ \A t \in Present(sched) : rip(r.sched, t) = rip(sched, t)
       /\ rsp(r.sched, cur) = cpu
       /\ \A t \in Present(sched) \ {cur} : rsp(r.sched, t) = rsp(sched, t)
       /\ \A t \in Present(sched) \ {n} :
            r.sched.tasks[t].state = "Running" => t # cur /\ sched.tasks[t].state = "Running"
       /\ \/ n = cur /\ r.ret = NullFrame
          \/ n # cur /\ r.ret = rsp(sched, n) /\ r.ret \in ValidFrames
  BY <1>10 DEF TimerEffect, rsp, rip
<1>13. \/ n = cur /\ f = cpu
       \/ n # cur /\ f = Kernel /\ n = a /\ cpu = cur /\ cpu # Kernel /\ Entering
       \/ n # cur /\ f = n /\ ~EnteringEmpty /\ (Entering => n # a)
  <2>1. CASE n = cur
    BY <1>12, <2>1
  <2>2. CASE n # cur
    <3>1. f = rsp(sched, n) /\ f \in {Kernel, n} /\ f # NullFrame
      BY <1>2, <1>5, <1>12, <2>2
    <3>2. n # Kernel
      BY <1>2, <1>12
    <3> QED
      BY <1>3, <1>5, <1>6, <1>7, <1>12, <2>2, <3>1, <3>2
  <2> QED
    BY <2>1, <2>2
<1>14. f \in Flows /\ f \in Frames
  BY <1>2, <1>3, <1>12, <1>13
<1> HIDE DEF f
<1>15. cpu' = f /\ fault' = "none"
  BY <1>11, <1>14
<1>16. /\ SchedInv(sched') /\ Present(sched') = Present(sched) /\ sched'.current_task = n
       /\ \A t \in Present(sched) :
            /\ sched'.tasks[t].state = r.sched.tasks[t].state
            /\ rsp(sched', t) = IF rsp(r.sched, t) = f THEN StaleFrame ELSE rsp(r.sched, t)
            /\ rip(sched', t) = IF t = f /\ rip(sched, t) = "trampoline" THEN "consumed"
                                ELSE rip(sched, t)
  <2>1. /\ SchedInv(sched') /\ Present(sched') = Present(r.sched)
        /\ sched'.current_task = n
        /\ \A t \in Present(r.sched) :
            /\ sched'.tasks[t].state = r.sched.tasks[t].state
            /\ rsp(sched', t) = IF rsp(r.sched, t) = f THEN StaleFrame ELSE rsp(r.sched, t)
            /\ rip(sched', t) = IF t = f /\ rip(r.sched, t) = "trampoline" THEN "consumed"
                                ELSE rip(r.sched, t)
    BY <1>11, <1>12, <1>14, ConsumeEffect
  <2> QED
    BY <1>12, <2>1
<1> HIDE DEF n
<1>17. \A t \in Present(sched) \ {n} :
         rsp(sched', t) = IF t = cur THEN cpu ELSE rsp(sched, t)
  <2> SUFFICES ASSUME NEW t \in Present(sched) \ {n} PROVE rsp(r.sched, t) # f
    BY <1>12, <1>16
  <2>1. CASE t = cur
    BY <1>2, <1>3, <1>12, <1>13, <2>1
  <2>2. CASE t # cur
    <3>1. rsp(r.sched, t) = rsp(sched, t) /\ rsp(sched, t) \in {NullFrame, Kernel, t}
      BY <1>5, <1>12, <2>2
    <3>2. t # Kernel /\ n # Kernel /\ f # NullFrame
      BY <1>2, <1>12, <1>14
    <3> QED
      BY <1>3, <1>5, <1>13, <2>2, <3>1, <3>2
  <2> QED
    BY <2>1, <2>2
<1>18. (Entering \/ EnteringEmpty) => a # f /\ rip(sched', a) = rip(sched, a)
  <2>1. (Entering \/ EnteringEmpty) => a # f
    BY <1>2, <1>3, <1>6, <1>7, <1>8, <1>13
  <2> QED
    BY <1>8, <1>16, <2>1
<1>19. /\ ~Preparing'
       /\ Entering => Entering'
       /\ Entering' => Entering
       /\ EnteringEmpty => EnteringEmpty'
       /\ EnteringEmpty' => EnteringEmpty
  <2>1. CASE pc \in {"select", "switch"}
    <3>1. Entering \/ EnteringEmpty
      BY <1>1, <1>4, <2>1 DEF TestInv
    <3> QED
      BY <1>1, <1>4, <1>18, <2>1, <3>1 DEF Preparing, Entering, EnteringEmpty, rip
  <2>2. CASE pc \notin {"select", "switch"}
    BY <1>1, <1>4, <2>2 DEF Preparing, Entering, EnteringEmpty
  <2> QED
    BY <2>1, <2>2
<1>20. IdsInv'
  BY <1>1, <1>16 DEF IdsInv
<1>21. TestInv'
  <2>1. pc \notin {"createA", "ctxCreateA", "returned", "prepareA", "createB", "prepareB",
                   "setCurrent", "ctxCreateB"}
    BY <1>4 DEF Preparing
  <2>2. Entering' \/ EnteringEmpty' \/ pc' = "parked"
    BY <1>1, <1>4, <1>19 DEF TestInv
  <2>3. pc = "markRunning" => Entering
    BY DEF Entering
  <2> QED
    BY <1>1, <1>16, <1>18, <2>1, <2>2, <2>3 DEF TestInv, rip
<1>22. FramesInv'
  <2> SUFFICES ASSUME NEW t \in Present(sched') \ {sched'.current_task}
               PROVE  /\ rsp(sched', t) \in {NullFrame, Kernel, t}
                      /\ rsp(sched', t) = Kernel => t = a /\ cpu' # Kernel /\ Entering
    BY <1>1, <1>19 DEF FramesInv, rsp
  <2>1. t \in Present(sched) \ {n}
    BY <1>16
  <2>2. CASE t = cur
    <3>1. rsp(sched', t) = cpu /\ n # cur
      BY <1>17, <2>1, <2>2
    <3>2. CASE cpu = Kernel
      BY <1>2, <1>7, <1>9, <1>12, <1>13, <1>15, <2>2, <3>1, <3>2
    <3>3. CASE cpu # Kernel
      BY <1>3, <2>2, <3>1, <3>3
    <3> QED
      BY <3>2, <3>3
  <2>3. CASE t # cur
    <3>1. rsp(sched', t) = rsp(sched, t) /\ t \in Present(sched) \ {cur}
      BY <1>17, <2>1, <2>3
    <3>2. rsp(sched, t) = Kernel => cpu' # Kernel
      BY <1>2, <1>3, <1>5, <1>12, <1>13, <1>15, <2>1, <3>1
    <3> QED
      BY <1>5, <3>1, <3>2
  <2> QED
    BY <2>2, <2>3
<1>23. NothingPrepared'
  <2>1. EnteringEmpty => n = cur
    BY <1>6, <1>13 DEF Entering, EnteringEmpty
  <2>2. EnteringEmpty => \A t \in Present(sched') \ {sched'.current_task} : rsp(sched', t) = NullFrame
    BY <1>6, <1>16, <1>17, <2>1
  <2> QED
    BY <1>19, <2>2 DEF NothingPrepared, rsp
<1>24. CpuInv'
  <2>1. cpu' \in Flows
    BY <1>14, <1>15
  <2>2. cpu' # Kernel => cpu' = n
    BY <1>3, <1>13, <1>15
  <2>3. Entering => \/ cpu' = Kernel /\ n = a
                    \/ cpu' # Kernel /\ cpu' # a /\ rsp(sched', a) = Kernel
    <3> SUFFICES ASSUME Entering
                 PROVE  \/ cpu' = Kernel /\ n = a
                        \/ cpu' # Kernel /\ cpu' # a /\ rsp(sched', a) = Kernel
      OBVIOUS
    <3>1. CASE n = a
      BY <1>2, <1>3, <1>7, <1>8, <1>13, <1>15, <3>1
    <3>2. CASE n # a
      <4>1. rsp(sched', a) = IF a = cur THEN cpu ELSE rsp(sched, a)
        BY <1>8, <1>17, <3>2
      <4>2. cpu' # Kernel /\ cpu' # a
        BY <1>2, <1>3, <1>7, <1>12, <1>13, <1>15, <3>2
      <4>3. rsp(sched', a) = Kernel
        BY <1>3, <1>7, <4>1
      <4> QED
        BY <4>2, <4>3
    <3> QED
      BY <3>1, <3>2
  <2>4. EnteringEmpty => cpu' = Kernel /\ n = a
    BY <1>6, <1>13, <1>15 DEF Entering, EnteringEmpty
  <2>5. pc' = "parked" => cpu' # Kernel
    <3>1. pc = "parked" => cpu # Kernel /\ ~Entering
      BY DEF PreemptInv, CpuInv, Entering
    <3> QED
      BY <1>1, <1>2, <1>12, <1>13, <1>15, <3>1
  <2> QED
    BY <1>1, <1>16, <1>19, <2>1, <2>2, <2>3, <2>4, <2>5 DEF CpuInv, CpuMatchesCurrent, rsp
<1>25. OnlyCurrentRunning'
  BY <1>12, <1>16 DEF PreemptInv, OnlyCurrentRunning
<1> QED
  BY <1>15, <1>16, <1>20, <1>21, <1>22, <1>23, <1>24, <1>25 DEF PreemptInv, NoStaleResume

(* Each step of the kernel thread and each timer interrupt preserves the    *)
(* inductive invariant.                                                     *)
LEMMA NextPreemptInv == PreemptInv /\ [PNext]_pvars => PreemptInv'
<1> SUFFICES ASSUME PreemptInv, [PNext]_pvars PROVE PreemptInv'
  OBVIOUS
<1>1. CASE InitialTask
  BY <1>1, InitialTaskStep
<1>2. ASSUME NEW test \in Tests, CallTest(test) PROVE PreemptInv'
  BY <1>2, CallTestStep
<1>3. CASE run_preemptive_test
  <2>1. CASE KernelAt("createA") /\ CreateOrReturn(a, None, "prepareA", "returned")
    BY <2>1, CreateStep DEF KernelAt
  <2>2. CASE KernelAt("prepareA") /\ Prepare(a) /\ Goto("createB")
    BY <2>2, PrepareStep DEF KernelAt
  <2>3. CASE KernelAt("createB") /\ CreateOrReturn(b, a, "prepareB", "returned")
    BY <2>3, CreateStep DEF KernelAt
  <2>4. CASE KernelAt("prepareB") /\ Prepare(b) /\ Goto("setCurrent")
    BY <2>4, PrepareStep DEF KernelAt
  <2>5. CASE /\ KernelAt("setCurrent")
             /\ sched' = set_current(sched, a)
             /\ UNCHANGED nextTaskId
             /\ Goto("markRunning")
    BY <2>5, SetCurrentStep
  <2>6. CASE /\ KernelAt("markRunning")
             /\ sched' = running_afresh(sched, a)
             /\ UNCHANGED nextTaskId
             /\ Goto("select")
    BY <2>6, MarkRunningStep
  <2> QED
    BY <1>3, <2>1, <2>2, <2>3, <2>4, <2>5, <2>6 DEF run_preemptive_test
<1>4. CASE run_context_switch_test
  <2>1. CASE KernelAt("ctxCreateA") /\ CreateOrReturn(a, None, "ctxCreateB", "ctxReturned")
    BY <2>1, CreateStep DEF KernelAt
  <2>2. CASE KernelAt("ctxCreateB") /\ CreateOrReturn(b, None, "select", "ctxReturned")
    BY <2>2, CreateStep DEF KernelAt
  <2> QED
    BY <1>4, <2>1, <2>2 DEF run_context_switch_test
<1>5. CASE Select
  BY <1>5, SelectStep
<1>6. CASE ContextSwitch
  BY <1>6, ContextSwitchStep
<1>7. CASE IRQ0Schedules
  <2>1. sched.current_task \in Present(sched) \cup {None}
    BY IdFacts DEF PreemptInv
  <2> QED
    BY <1>7, <2>1, QuietIRQ0, PreemptingIRQ0
<1>8. CASE IRQ0Returns \/ UNCHANGED pvars
  <2>1. UNCHANGED <<sched, nextTaskId, cpu, pc, a, b, fault>>
    BY <1>8 DEF IRQ0Returns, pvars, vars
  <2>2. Preparing' = Preparing /\ Entering' = Entering /\ EnteringEmpty' = EnteringEmpty
    BY <2>1 DEF Preparing, Entering, EnteringEmpty
  <2>3. IdsInv' /\ TestInv'
    BY <2>1, <2>2 DEF PreemptInv, IdsInv, TestInv
  <2>4. FramesInv' /\ NothingPrepared' /\ OnlyCurrentRunning'
    BY <2>1, <2>2 DEF PreemptInv, FramesInv, NothingPrepared, OnlyCurrentRunning
  <2>5. CpuInv'
    BY <2>1, <2>2 DEF PreemptInv, CpuInv, CpuMatchesCurrent
  <2> QED
    BY <2>1, <2>3, <2>4, <2>5 DEF PreemptInv, NoStaleResume
<1> QED
  BY <1>1, <1>2, <1>3, <1>4, <1>5, <1>6, <1>7, <1>8 DEF PNext, KernelStep

-----------------------------------------------------------------------------
(* The theorems.  None needs fairness: they hold wherever the timer         *)
(* interrupts fall, and if none ever comes.                                 *)

(* The kernel thread, the tasks and the timer keep the scheduler, the CPU   *)
(* and the suspended frames in step.                                        *)
THEOREM PreemptInvariance == PSpec => []PreemptInv
BY InitPreemptInv, NextPreemptInv, PTL DEF PSpec

(* No frame and no start context is resumed twice, wherever timer           *)
(* interrupts fall between the steps of the tests and whatever the sizes of *)
(* the tables.                                                              *)
THEOREM NothingStaleIsResumed == PSpec => []NoStaleResume
<1>1. PreemptInv => NoStaleResume
  BY DEF PreemptInv
<1> QED
  BY <1>1, PreemptInvariance, PTL

(* A task executes only while it is current_task.                           *)
THEOREM WhatRunsIsCurrent == PSpec => []CpuMatchesCurrent
<1>1. PreemptInv => CpuMatchesCurrent
  BY DEF PreemptInv, CpuInv
<1> QED
  BY <1>1, PreemptInvariance, PTL

(* At most the current task is Running, after any mixture of switches,      *)
(* aborted switches and kept slices.                                        *)
THEOREM RunningIsCurrent == PSpec => []OnlyCurrentRunning
<1>1. PreemptInv => OnlyCurrentRunning
  BY DEF PreemptInv
<1> QED
  BY <1>1, PreemptInvariance, PTL

(* A waiting task holds no frame or that of a suspended flow, and no two    *)
(* hold the same one.                                                       *)
THEOREM FramesOfWaitingTasks == PSpec => []WaitingFramesLive
<1>1. PreemptInv => WaitingFramesLive
  <2> SUFFICES ASSUME PreemptInv PROVE WaitingFramesLive
    OBVIOUS
  <2>1. NullFrame \notin Flows /\ Kernel \notin Present(sched)
    BY IdFacts DEF PreemptInv
  <2>2. cpu \in Flows /\ (cpu # Kernel => cpu = sched.current_task)
    BY DEF PreemptInv, CpuInv, CpuMatchesCurrent
  <2>3. \A t \in Present(sched) \ {sched.current_task} :
          /\ sched.tasks[t].interrupt_rsp \in {NullFrame, Kernel, t}
          /\ sched.tasks[t].interrupt_rsp = Kernel => t = a /\ cpu # Kernel
    BY DEF PreemptInv, FramesInv, rsp
  <2> QED
    BY <2>1, <2>2, <2>3 DEF WaitingFramesLive
<1> QED
  BY <1>1, PreemptInvariance, PTL

(* A preemptive test that could not create both its tasks leaves neither.   *)
THEOREM FailedTestUndone == PSpec => []FailedTestLeavesNothing
<1>1. PreemptInv => FailedTestLeavesNothing
  BY DEF PreemptInv, TestInv, FailedTestLeavesNothing
<1> QED
  BY <1>1, PreemptInvariance, PTL
=============================================================================
