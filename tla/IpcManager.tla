------------------------------ MODULE IpcManager ------------------------------
(***************************************************************************)
(* The IPC manager (kernel/src/ipc/{message,endpoint}.rs): a table of      *)
(* endpoints behind one spinlock, each with a ring buffer of messages      *)
(* behind a spinlock of its own.  Threads call it concurrently; a call is  *)
(* broken at every lock it takes, and keeps the table's lock from its      *)
(* first look at a slot until it returns.                                  *)
(*                                                                         *)
(* The arguments of a call are chosen when it gets the first lock: until   *)
(* then they are private to the thread, and a handle may be of any age.    *)
(* life is a ghost: the number of times the endpoint's slot had been freed *)
(* when the handle was made.  A message is its data; the sender is part of *)
(* it that nothing reads.                                                  *)
(***************************************************************************)
EXTENDS Integers, Sequences

CONSTANTS
    MAX_IPC_ENDPOINTS,      \* slots of the table (16)
    IPC_QUEUE_CAPACITY,     \* messages of a ring buffer (16)
    GenerationLimit,        \* 2^32: generation is a u32
    Thread,
    Data,                   \* what a caller may try to send
    TooLong,                \* the part of it longer than IPC_MESSAGE_SIZE
    Empty,                  \* IpcMessage::empty()
    MaxLife                 \* bound: times a slot is freed

ASSUME IpcAssumption ==
    /\ MAX_IPC_ENDPOINTS \in Nat \ {0}
    /\ IPC_QUEUE_CAPACITY \in Nat \ {0}
    /\ MaxLife \in Nat /\ GenerationLimit \in Nat
    /\ MaxLife < GenerationLimit - 1    \* no slot's generation wraps
    /\ TooLong \subseteq Data

VARIABLES
    slots,              \* occupied and generation of each IpcEndpointSlot
    queue,              \* the IpcQueue of each endpoint
    endpoints_locked,   \* SpinLock of the table
    queue_locked,       \* SpinLock of each queue
    pc, call,           \* per thread: where it is, and the call it makes
    life, handles,      \* ghost: age of each slot, handles given out
    last                \* ghost: the call that took effect last, its result

locks == <<endpoints_locked, queue_locked>>
ghosts == <<life, handles>>
vars == <<slots, queue, locks, pc, call, ghosts, last>>

Index == 0 .. MAX_IPC_ENDPOINTS - 1
Positions == 0 .. IPC_QUEUE_CAPACITY - 1

IpcQueue == [messages : [Positions -> Data \cup {Empty}],
             head : Positions, tail : Positions, count : 0 .. IPC_QUEUE_CAPACITY]

INVALID == [index |-> 0, generation |-> 0, life |-> -1]

HandleOps == {"send", "receive", "queue_len", "destroy"}

Handles == [index : Index, generation : 1 .. GenerationLimit - 1, life : 0 .. MaxLife]

(* The calls a thread may make: with the handles given out so far, or with  *)
(* INVALID.                                                                 *)
Calls == [op : HandleOps \cup {"create"}, h : Handles \cup {INVALID},
          data : Data \cup {Empty}]

NoCall == [op |-> "create", h |-> INVALID, data |-> Empty]

-----------------------------------------------------------------------------
(* IpcQueue.                                                                *)

IpcQueue_new == [messages |-> [p \in Positions |-> Empty],
                 head |-> 0, tail |-> 0, count |-> 0]

(* Mutant: the position after the last is not taken back to 0 in time.      *)
advance_OffByOne(p) == IF p + 2 >= IPC_QUEUE_CAPACITY THEN 0 ELSE p + 1

advance(p) == IF p + 1 = IPC_QUEUE_CAPACITY THEN 0 ELSE p + 1

(* Mutant: full is reported one message late.                               *)
is_full_Late(q) == q.count > IPC_QUEUE_CAPACITY

is_full(q) == q.count = IPC_QUEUE_CAPACITY

(* Mutant: is_empty compares positions, which also meet when it is full.    *)
is_empty_ByPosition(q) == q.head = q.tail

is_empty(q) == q.count = 0

queue_send(q, m) ==
    [messages |-> [q.messages EXCEPT ![q.tail] = m],
     head |-> q.head, tail |-> advance(q.tail), count |-> q.count + 1]

queue_receive(q) ==
    [messages |-> [q.messages EXCEPT ![q.head] = Empty],
     head |-> advance(q.head), tail |-> q.tail, count |-> q.count - 1]

-----------------------------------------------------------------------------
(* The table.                                                               *)

clear(slot) ==
    [occupied |-> FALSE,
     generation |-> IF slot.generation + 1 = GenerationLimit THEN 1
                    ELSE slot.generation + 1]

is_valid(h) ==
    /\ h # INVALID
    /\ h.index < MAX_IPC_ENDPOINTS
    /\ slots[h.index].occupied
    /\ slots[h.index].generation = h.generation

Init ==
    /\ slots = [i \in Index |-> [occupied |-> FALSE, generation |-> 1]]
    /\ queue = [i \in Index |-> IpcQueue_new]
    /\ endpoints_locked = FALSE
    /\ queue_locked = [i \in Index |-> FALSE]
    /\ pc = [t \in Thread |-> "idle"]
    /\ call = [t \in Thread |-> NoCall]
    /\ life = [i \in Index |-> 0]
    /\ handles = {}
    /\ last = [op |-> "boot", result |-> << >>]

Did(op, result) == last' = [op |-> op, result |-> result]

(* IpcMessage::new refuses the data before any lock is taken.               *)
send_too_long(t) ==
    /\ pc[t] = "idle"
    /\ TooLong # {}
    /\ Did("send", << >>)
    /\ UNCHANGED <<slots, queue, locks, pc, call, ghosts>>

(* self.endpoints.lock() succeeds.                                          *)
lock_endpoints(t) ==
    /\ pc[t] = "idle"
    /\ ~endpoints_locked
    /\ endpoints_locked' = TRUE
    /\ \/ call' = [call EXCEPT ![t] = NoCall]
       \/ \E op \in HandleOps, h \in handles \cup {INVALID}, d \in Data \ TooLong :
            /\ op = "destroy" => life[h.index] < MaxLife
            /\ call' = [call EXCEPT ![t] =
                           [op |-> op, h |-> h, data |-> IF op = "send" THEN d ELSE Empty]]
    /\ pc' = [pc EXCEPT ![t] = "table"]
    /\ UNCHANGED <<slots, queue, queue_locked, ghosts, last>>

At(t, where, ops) == pc[t] = where /\ call[t].op \in ops

(* Return from the call: the guards that are left are dropped.              *)
return(t) ==
    /\ pc' = [pc EXCEPT ![t] = "idle"]
    /\ call' = [call EXCEPT ![t] = NoCall]
    /\ endpoints_locked' = FALSE

create(t) ==
    /\ At(t, "table", {"create"})
    /\ \/ \E i \in Index :
            /\ ~slots[i].occupied
            /\ \A j \in Index : j < i => slots[j].occupied
            /\ slots' = [slots EXCEPT ![i] = [occupied |-> TRUE,
                                              generation |-> slots[i].generation]]
            /\ handles' = handles \cup
                 {[index |-> i, generation |-> slots[i].generation, life |-> life[i]]}
            /\ Did("create", <<[index |-> i, life |-> life[i]]>>)
       \/ /\ \A i \in Index : slots[i].occupied
          /\ Did("create", << >>)
          /\ UNCHANGED <<slots, handles>>
    /\ return(t)
    /\ UNCHANGED <<queue, queue_locked, life>>

(* The handle is stale, foreign or INVALID.                                 *)
refuse(t) ==
    /\ At(t, "table", HandleOps)
    /\ ~is_valid(call[t].h)
    /\ Did(call[t].op, << >>)
    /\ return(t)
    /\ UNCHANGED <<slots, queue, queue_locked, ghosts>>

(* Mutant: the table's lock is dropped as soon as the queue's is held.      *)
lock_queue_DropsTable(t) ==
    /\ At(t, "table", HandleOps)
    /\ is_valid(call[t].h)
    /\ ~queue_locked[call[t].h.index]
    /\ queue_locked' = [queue_locked EXCEPT ![call[t].h.index] = TRUE]
    /\ pc' = [pc EXCEPT ![t] = "queue"]
    /\ endpoints_locked' = FALSE
    /\ UNCHANGED <<slots, queue, call, ghosts, last>>

(* slot.endpoint.queue.lock() succeeds.                                     *)
lock_queue(t) ==
    /\ At(t, "table", HandleOps)
    /\ is_valid(call[t].h)
    /\ ~queue_locked[call[t].h.index]
    /\ queue_locked' = [queue_locked EXCEPT ![call[t].h.index] = TRUE]
    /\ pc' = [pc EXCEPT ![t] = "queue"]
    /\ UNCHANGED <<slots, queue, endpoints_locked, call, ghosts, last>>

(* Mutant: the guard of the queue is forgotten instead of dropped.          *)
unlock_queue_Forgets(t) == UNCHANGED queue_locked

unlock_queue(t) == queue_locked' = [queue_locked EXCEPT ![call[t].h.index] = FALSE]

send(t) ==
    /\ At(t, "queue", {"send"})
    /\ LET i == call[t].h.index IN
         \/ /\ is_full(queue[i])
            /\ Did("send", << >>)
            /\ UNCHANGED queue
         \/ /\ ~is_full(queue[i])
            /\ queue' = [queue EXCEPT ![i] = queue_send(queue[i], call[t].data)]
            /\ Did("send", <<call[t].data>>)
    /\ unlock_queue(t) /\ return(t)
    /\ UNCHANGED <<slots, ghosts>>

receive(t) ==
    /\ At(t, "queue", {"receive"})
    /\ LET i == call[t].h.index IN
         \/ /\ is_empty(queue[i])
            /\ Did("receive", << >>)
            /\ UNCHANGED queue
         \/ /\ ~is_empty(queue[i])
            /\ queue' = [queue EXCEPT ![i] = queue_receive(queue[i])]
            /\ Did("receive", <<queue[i].messages[queue[i].head]>>)
    /\ unlock_queue(t) /\ return(t)
    /\ UNCHANGED <<slots, ghosts>>

queue_len(t) ==
    /\ At(t, "queue", {"queue_len"})
    /\ Did("queue_len", <<queue[call[t].h.index].count>>)
    /\ unlock_queue(t) /\ return(t)
    /\ UNCHANGED <<slots, queue, ghosts>>

(* destroy looks into the queue, and lets go of it, before it clears ...    *)
destroy_check(t) ==
    /\ At(t, "queue", {"destroy"})
    /\ unlock_queue(t)
    /\ \/ /\ ~is_empty(queue[call[t].h.index])
          /\ Did("destroy", << >>)
          /\ return(t)
       \/ /\ is_empty(queue[call[t].h.index])
          /\ pc' = [pc EXCEPT ![t] = "clear"]
          /\ UNCHANGED <<endpoints_locked, call, last>>
    /\ UNCHANGED <<slots, queue, ghosts>>

(* ... the slot, which it does not reset the queue of.                      *)
destroy_clear(t) ==
    LET i == call[t].h.index IN
    /\ At(t, "clear", {"destroy"})
    /\ slots' = [slots EXCEPT ![i] = clear(slots[i])]
    /\ life' = [life EXCEPT ![i] = @ + 1]
    /\ Did("destroy", <<call[t].h.life>>)
    /\ return(t)
    /\ UNCHANGED <<queue, queue_locked, handles>>

Step(t) ==
    \/ create(t) \/ refuse(t) \/ lock_queue(t)
    \/ send(t) \/ receive(t) \/ queue_len(t)
    \/ destroy_check(t) \/ destroy_clear(t)

Next == \E t \in Thread : send_too_long(t) \/ lock_endpoints(t) \/ Step(t)

Spec == Init /\ [][Next]_vars

(* A thread that holds the table's lock goes on with its call.              *)
FairSpec == Spec /\ \A t \in Thread : WF_vars(Step(t))

-----------------------------------------------------------------------------
(* Properties.                                                              *)

(* The types of the fields of the table, of its queues and of the calls in  *)
(* progress; count and the positions stay within the ring buffer.           *)
TypeOK ==
    /\ slots \in [Index -> [occupied : BOOLEAN, generation : 1 .. GenerationLimit - 1]]
    /\ queue \in [Index -> IpcQueue]
    /\ endpoints_locked \in BOOLEAN
    /\ queue_locked \in [Index -> BOOLEAN]
    /\ pc \in [Thread -> {"idle", "table", "queue", "clear"}]
    /\ call \in [Thread -> Calls]
    /\ life \in [Index -> 0 .. MaxLife]
    /\ handles \subseteq Handles

(* The messages of a ring buffer, oldest first.                             *)
wrap(p) == IF p >= IPC_QUEUE_CAPACITY THEN p - IPC_QUEUE_CAPACITY ELSE p

fifo(q) == [k \in 1 .. q.count |-> q.messages[wrap(q.head + (k - 1))]]

(* The refinement mapping.                                                  *)
boxes == [i \in Index |-> [open |-> slots[i].occupied, life |-> life[i],
                           queue |-> fifo(queue[i])]]

Fifo == INSTANCE IpcFifo WITH
    Capacity <- IPC_QUEUE_CAPACITY,
    Handle <- [index : Index, life : -1 .. MaxLife],
    box <- boxes

(* Every call, whatever the threads interleave, is one step of a bounded    *)
(* FIFO per endpoint lifetime, with the result the caller gets.             *)
ImplementsFifo == Fifo!FSpec

(* The queue of an endpoint that does not exist is empty, so that the next  *)
(* create, which does not reset it, hands out an empty endpoint; and a ring *)
(* buffer has no message outside the part it counts.                        *)
NothingLeftBehind ==
    \A i \in Index :
      /\ ~slots[i].occupied => queue[i].count = 0
      /\ \A k \in queue[i].count + 1 .. IPC_QUEUE_CAPACITY :
           queue[i].messages[wrap(queue[i].head + (k - 1))] = Empty

(* A thread inside a call holds the lock of the table, alone, and no queue  *)
(* stays locked after the call that locked it.                              *)
LocksHeld ==
    /\ \A t, u \in Thread : pc[t] # "idle" /\ pc[u] # "idle" => t = u
    /\ endpoints_locked <=> \E t \in Thread : pc[t] # "idle"
    /\ \A i \in Index :
         queue_locked[i] <=> \E t \in Thread : pc[t] = "queue" /\ call[t].h.index = i

(* The table's lock is always let go: no path through a call keeps it or    *)
(* waits for a queue lock for ever.                                         *)
TableLockReleased == endpoints_locked ~> ~endpoints_locked
=============================================================================
