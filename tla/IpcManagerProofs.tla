--------------------------- MODULE IpcManagerProofs ---------------------------
(***************************************************************************)
(* The IPC manager implements IpcFifo for every number of threads,         *)
(* endpoints and messages: the ring buffer is a sequence, a call that has  *)
(* passed the handle check is alone with a valid handle until it returns,  *)
(* and a closed endpoint is empty.                                         *)
(***************************************************************************)
EXTENDS IpcManager, SequenceTheorems, TLAPS

-----------------------------------------------------------------------------
(* The ring buffer.                                                         *)

(* tail is where the next message goes.                                     *)
Ring(q) == q \in IpcQueue /\ q.tail = wrap(q.head + q.count)

(* Stepping from a position and then k - 1 further is stepping k further,   *)
(* and does not come back to it before the capacity is used up.             *)
LEMMA AdvanceWraps ==
    ASSUME NEW p \in Positions, NEW k \in 1 .. IPC_QUEUE_CAPACITY
    PROVE  /\ advance(p) \in Positions
           /\ wrap(p + k) \in Positions
           /\ wrap(advance(p) + (k - 1)) = wrap(p + k)
           /\ k < IPC_QUEUE_CAPACITY => wrap(p + k) # p
<1> DEFINE C == IPC_QUEUE_CAPACITY
<1>1. C \in Nat /\ C > 0 /\ p \in Nat /\ p < C /\ k \in Nat /\ k >= 1 /\ k <= C
  BY IpcAssumption DEF Positions
<1>2. advance(p) \in Positions
  BY <1>1 DEF advance, Positions
<1>3. wrap(p + k) \in Positions /\ (k < C => wrap(p + k) # p)
  BY <1>1 DEF wrap, Positions
<1>4. CASE p + 1 = C
  <2>1. advance(p) = 0 /\ p + k >= C
    BY <1>1, <1>4 DEF advance
  <2>2. wrap(p + k) = k - 1
    BY <1>1, <1>4, <2>1 DEF wrap
  <2>3. wrap(0 + (k - 1)) = k - 1
    BY <1>1 DEF wrap
  <2> QED
    BY <1>2, <1>3, <2>1, <2>2, <2>3
<1>5. CASE p + 1 # C
  <2>1. advance(p) + (k - 1) = p + k
    BY <1>1, <1>5 DEF advance
  <2> QED
    BY <1>2, <1>3, <2>1
<1> QED
  BY <1>4, <1>5

(* Two positions less than the capacity away from the head are different.   *)
LEMMA WrapInjective ==
    ASSUME NEW p \in Positions, NEW j \in Positions, NEW k \in Positions, j # k
    PROVE  wrap(p + j) \in Positions /\ wrap(p + j) # wrap(p + k)
  BY IpcAssumption DEF Positions, wrap

(* The messages of a ring buffer are a sequence of count messages.          *)
LEMMA FifoIsSeq ==
    ASSUME NEW q, Ring(q)
    PROVE  /\ fifo(q) \in Seq(Data \cup {Empty})
           /\ Len(fifo(q)) = q.count
           /\ fifo(q) = << >> <=> q.count = 0
<1>1. q.count \in Nat /\ q.head \in Positions /\ q.messages \in [Positions -> Data \cup {Empty}]
  BY IpcAssumption DEF Ring, IpcQueue
<1>2. q.count <= IPC_QUEUE_CAPACITY
  BY IpcAssumption DEF Ring, IpcQueue
<1>3. \A k \in 1 .. q.count : wrap(q.head + (k - 1)) \in Positions
  BY <1>1, <1>2, IpcAssumption DEF wrap, Positions
<1>4. fifo(q) \in [1 .. q.count -> Data \cup {Empty}]
  BY <1>1, <1>3 DEF fifo
<1>5. fifo(q) \in Seq(Data \cup {Empty}) /\ Len(fifo(q)) = q.count
  BY <1>1, <1>4
<1> QED
  BY <1>5, EmptySeq

(* send appends.                                                            *)
LEMMA SendAppends ==
    ASSUME NEW q, Ring(q), ~is_full(q), NEW d \in Data
    PROVE  /\ Ring(queue_send(q, d))
           /\ fifo(queue_send(q, d)) = Append(fifo(q), d)
<1> DEFINE r == queue_send(q, d)
<1>1. /\ q.count \in Nat /\ q.count < IPC_QUEUE_CAPACITY
      /\ q.head \in Positions /\ q.tail \in Positions
      /\ q.messages \in [Positions -> Data \cup {Empty}]
      /\ q.tail = wrap(q.head + q.count)
  BY IpcAssumption DEF Ring, IpcQueue, is_full
<1>2. /\ r.head = q.head /\ r.count = q.count + 1
      /\ r.tail = advance(q.tail)
      /\ r.messages = [q.messages EXCEPT ![q.tail] = d]
  BY DEF queue_send
<1>3. advance(q.tail) \in Positions /\ advance(q.tail) = wrap(q.head + (q.count + 1))
  BY <1>1, IpcAssumption, SMTT(30) DEF advance, wrap, Positions
<1>4. Ring(r)
  <2>1. r \in IpcQueue
    BY <1>1, <1>3, IpcAssumption DEF queue_send, IpcQueue
  <2> QED
    BY <2>1, <1>2, <1>3 DEF Ring
<1> HIDE DEF r
<1>5. fifo(q) \in Seq(Data \cup {Empty}) /\ Len(fifo(q)) = q.count
  BY FifoIsSeq
<1>6. fifo(r) \in Seq(Data \cup {Empty}) /\ Len(fifo(r)) = q.count + 1
  BY <1>2, <1>4, FifoIsSeq
<1>7. ASSUME NEW k \in 1 .. q.count + 1
      PROVE  fifo(r)[k] = IF k <= q.count THEN fifo(q)[k] ELSE d
  <2>1. fifo(r)[k] = r.messages[wrap(q.head + (k - 1))]
    BY <1>2 DEF fifo
  <2>2. CASE k <= q.count
    <3>1. wrap(q.head + (k - 1)) # q.tail /\ wrap(q.head + (k - 1)) \in Positions
      <4>1. k - 1 \in Positions /\ q.count \in Positions /\ k - 1 # q.count
        BY <1>1, <2>2, IpcAssumption DEF Positions
      <4> QED
        BY <1>1, <4>1, WrapInjective
    <3>2. fifo(q)[k] = q.messages[wrap(q.head + (k - 1))]
      BY <2>2 DEF fifo
    <3> QED
      BY <1>1, <1>2, <2>1, <2>2, <3>1, <3>2
  <2>3. CASE ~(k <= q.count)
    <3>1. wrap(q.head + (k - 1)) = q.tail
      <4>1. k - 1 = q.count
        BY <1>1, <2>3
      <4> QED
        BY <4>1, <1>1
    <3> QED
      BY <1>1, <1>2, <2>1, <2>3, <3>1
  <2> QED
    BY <2>2, <2>3
<1>8. fifo(r) = Append(fifo(q), d)
  <2> DEFINE S == Data \cup {Empty}
             a == Append(fifo(q), d)
  <2>1. /\ a \in Seq(S) /\ Len(a) = q.count + 1
        /\ \A k \in 1 .. q.count : a[k] = fifo(q)[k]
        /\ a[q.count + 1] = d
    BY <1>5, AppendProperties
  <2>2. ASSUME NEW k \in 1 .. q.count + 1 PROVE fifo(r)[k] = a[k]
    <3>1. CASE k <= q.count
      BY <1>1, <1>7, <2>1, <3>1
    <3>2. CASE ~(k <= q.count)
      <4>1. k = q.count + 1
        BY <1>1, <3>2
      <4> QED
        BY <1>7, <2>1, <3>2, <4>1
    <3> QED
      BY <3>1, <3>2
  <2> HIDE DEF a, S
  <2>3. fifo(r) = a
    BY <1>6, <2>1, <2>2, SeqEqual DEF S
  <2> QED
    BY <2>3 DEF a
<1> QED
  BY <1>4, <1>8 DEF r

(* receive takes the oldest message off.                                    *)
LEMMA ReceiveTakesHead ==
    ASSUME NEW q, Ring(q), ~is_empty(q)
    PROVE  /\ Ring(queue_receive(q))
           /\ fifo(q) # << >>
           /\ Head(fifo(q)) = q.messages[q.head]
           /\ fifo(queue_receive(q)) = Tail(fifo(q))
<1> DEFINE r == queue_receive(q)
<1>1. /\ q.count \in Nat /\ q.count > 0 /\ q.count <= IPC_QUEUE_CAPACITY
      /\ q.head \in Positions /\ q.tail \in Positions
      /\ q.messages \in [Positions -> Data \cup {Empty}]
      /\ q.tail = wrap(q.head + q.count)
  BY IpcAssumption DEF Ring, IpcQueue, is_empty
<1>2. /\ r.head = advance(q.head) /\ r.count = q.count - 1
      /\ r.tail = q.tail
      /\ r.messages = [q.messages EXCEPT ![q.head] = Empty]
  BY DEF queue_receive
<1>3. advance(q.head) \in Positions /\ q.tail = wrap(advance(q.head) + (q.count - 1))
  BY <1>1, AdvanceWraps
<1>4. Ring(r)
  <2>1. r \in IpcQueue
    BY <1>1, <1>3, IpcAssumption DEF queue_receive, IpcQueue
  <2> QED
    BY <2>1, <1>2, <1>3 DEF Ring
<1> HIDE DEF r
<1>5. fifo(q) \in Seq(Data \cup {Empty}) /\ Len(fifo(q)) = q.count /\ fifo(q) # << >>
  BY <1>1, FifoIsSeq
<1>6. fifo(r) \in Seq(Data \cup {Empty}) /\ Len(fifo(r)) = q.count - 1
  BY <1>2, <1>4, FifoIsSeq
<1>7. Head(fifo(q)) = q.messages[q.head]
  <2>1. fifo(q)[1] = q.messages[wrap(q.head + (1 - 1))]
    BY <1>1 DEF fifo
  <2>2. wrap(q.head + (1 - 1)) = q.head
    BY <1>1, IpcAssumption DEF wrap, Positions
  <2> QED
    BY <1>5, <2>1, <2>2
<1>8. ASSUME NEW k \in 1 .. q.count - 1
      PROVE  fifo(r)[k] = fifo(q)[k + 1]
  <2>1. fifo(r)[k] = r.messages[wrap(advance(q.head) + (k - 1))]
    BY <1>2 DEF fifo
  <2>2. fifo(q)[k + 1] = q.messages[wrap(q.head + ((k + 1) - 1))]
    BY <1>1 DEF fifo
  <2>3. /\ wrap(advance(q.head) + (k - 1)) = wrap(q.head + ((k + 1) - 1))
        /\ wrap(advance(q.head) + (k - 1)) # q.head
        /\ wrap(advance(q.head) + (k - 1)) \in Positions
    <3>1. (k + 1) - 1 = k /\ k \in 1 .. IPC_QUEUE_CAPACITY /\ k < IPC_QUEUE_CAPACITY
      BY <1>1, IpcAssumption
    <3> QED
      BY <1>1, <3>1, AdvanceWraps
  <2> QED
    BY <1>1, <1>2, <2>1, <2>2, <2>3
<1>9. fifo(r) = Tail(fifo(q))
  BY <1>1, <1>5, <1>6, <1>8, SeqEqual, HeadTailProperties
<1> QED
  BY <1>4, <1>5, <1>7, <1>9 DEF r

-----------------------------------------------------------------------------
(* The inductive invariant.                                                 *)

(* Handles carry the generation of their lifetime, and so do the slots.     *)
HandlesOK ==
    /\ \A h \in handles : h.generation = h.life + 1
    /\ \A i \in Index : slots[i].generation = life[i] + 1

(* Ring buffers are rings, and closed endpoints are empty.                  *)
QueuesOK ==
    \A i \in Index : Ring(queue[i]) /\ (~slots[i].occupied => queue[i].count = 0)

(* A call past the handle check has a valid handle, and one that is about   *)
(* to clear its endpoint has an empty one.                                  *)
CallOK(t) ==
    /\ call[t].h \in handles \cup {INVALID}
    /\ call[t].op = "send" => call[t].data \in Data \ TooLong
    /\ call[t].op = "destroy" => life[call[t].h.index] < MaxLife
    /\ pc[t] \in {"queue", "clear"} => is_valid(call[t].h)
    /\ pc[t] = "clear" => queue[call[t].h.index].count = 0

CallsOK == \A t \in Thread : pc[t] # "idle" => CallOK(t)

IInv ==
    /\ TypeOK
    /\ HandlesOK
    /\ QueuesOK
    /\ CallsOK
    /\ LocksHeld

(* What a value of TypeOK makes of one slot, one call and the constants.    *)
LEMMA IndexTypes ==
    ASSUME TypeOK
    PROVE  /\ INVALID.index \in Index
           /\ NoCall \in Calls
           /\ \A t \in Thread : /\ call[t].h.index \in Index
                                /\ call[t].h \in Handles \cup {INVALID}
                                /\ call[t].op \in HandleOps \cup {"create"}
                                /\ call[t].data \in Data \cup {Empty}
<1>1. INVALID.index = 0 /\ 0 \in Index
  BY IpcAssumption DEF INVALID, Index
<1>2. NoCall \in Calls
  BY DEF NoCall, Calls
<1>3. ASSUME NEW t \in Thread
      PROVE  /\ call[t].h \in Handles \cup {INVALID}
             /\ call[t].op \in HandleOps \cup {"create"}
             /\ call[t].data \in Data \cup {Empty}
  BY DEF TypeOK, Calls
<1>4. \A h \in Handles : h.index \in Index
  BY DEF Handles
<1> QED
  BY <1>1, <1>2, <1>3, <1>4

(* At boot the table is empty and nobody calls it.                          *)
LEMMA InitIInv == Init => IInv
<1> SUFFICES ASSUME Init PROVE IInv
  OBVIOUS
<1> USE DEF Init
<1>1. IpcQueue_new \in IpcQueue
  BY IpcAssumption DEF IpcQueue_new, IpcQueue, Positions
<1>2. 1 \in 1 .. GenerationLimit - 1 /\ 0 \in 0 .. MaxLife
  BY IpcAssumption
<1>3. NoCall \in Calls
  BY DEF NoCall, Calls
<1>4. TypeOK
  BY <1>1, <1>2, <1>3 DEF TypeOK
<1>5. HandlesOK
  BY DEF HandlesOK
<1>6. QueuesOK
  <2>1. Ring(IpcQueue_new) /\ IpcQueue_new.count = 0
    BY <1>1, IpcAssumption DEF Ring, IpcQueue_new, wrap
  <2> QED
    BY <2>1 DEF QueuesOK
<1>7. CallsOK /\ LocksHeld
  BY DEF CallsOK, LocksHeld
<1> QED
  BY <1>4, <1>5, <1>6, <1>7 DEF IInv

(* The thread inside a call is the only one, and the only queue lock it may *)
(* hold is that of its endpoint.                                            *)
LEMMA Alone ==
    ASSUME IInv, NEW t \in Thread, pc[t] # "idle"
    PROVE  /\ \A u \in Thread : u # t => pc[u] = "idle"
           /\ endpoints_locked
           /\ \A i \in Index : queue_locked[i] <=> pc[t] = "queue" /\ call[t].h.index = i
           /\ CallOK(t)
  BY DEF IInv, LocksHeld, CallsOK

(* A valid handle is of the present lifetime of an open endpoint.           *)
LEMMA ValidHandle ==
    ASSUME IInv, NEW h \in handles \cup {INVALID}
    PROVE  /\ h.index \in Index
           /\ h.life \in -1 .. MaxLife
           /\ is_valid(h) <=> slots[h.index].occupied /\ life[h.index] = h.life
<1>1. CASE h = INVALID
  <2>1. h.index = 0 /\ h.life = -1 /\ 0 \in Index /\ ~is_valid(h)
    BY <1>1, IpcAssumption DEF INVALID, Index, is_valid
  <2>2. life[0] \in 0 .. MaxLife
    BY <2>1 DEF IInv, TypeOK
  <2> QED
    BY <2>1, <2>2, IpcAssumption
<1>2. CASE h # INVALID
  <2>1. h \in handles /\ h \in Handles
    BY <1>2 DEF IInv, TypeOK
  <2>2. h.index \in Index /\ h.life \in 0 .. MaxLife
    BY <2>1 DEF Handles
  <2>3. h.index < MAX_IPC_ENDPOINTS
    BY <2>2, IpcAssumption DEF Index
  <2>4. life[h.index] \in 0 .. MaxLife
    BY <2>2 DEF IInv, TypeOK
  <2>5. h.generation = h.life + 1 /\ slots[h.index].generation = life[h.index] + 1
    BY <2>1, <2>2 DEF IInv, HandlesOK
  <2>6. slots[h.index].generation = h.generation <=> life[h.index] = h.life
    <3>1. h.life + 1 = life[h.index] + 1 <=> h.life = life[h.index]
      BY <2>2, <2>4, IpcAssumption
    <3> QED
      BY <2>5, <3>1, Zenon
  <2>7. h.life \in -1 .. MaxLife
    BY <2>2, IpcAssumption
  <2> QED
    BY <1>2, <2>2, <2>3, <2>6, <2>7, Zenon DEF is_valid
<1> QED
  BY <1>1, <1>2

(* A thread that returns leaves the table unlocked and nobody inside.       *)
LEMMA ReturnOK ==
    ASSUME IInv, NEW t \in Thread, pc[t] # "idle", return(t),
           queue_locked' = [i \in Index |-> FALSE]
    PROVE  /\ LocksHeld' /\ CallsOK'
           /\ pc' \in [Thread -> {"idle", "table", "queue", "clear"}]
           /\ call' \in [Thread -> Calls]
           /\ endpoints_locked' \in BOOLEAN
           /\ queue_locked' \in [Index -> BOOLEAN]
<1>1. pc' \in [Thread -> {"idle", "table", "queue", "clear"}] /\ call' \in [Thread -> Calls]
  BY IndexTypes DEF IInv, TypeOK, return
<1>2. \A u \in Thread : pc'[u] = "idle"
  BY Alone DEF IInv, TypeOK, return
<1>3. ~endpoints_locked'
  BY DEF return
<1>4. LocksHeld'
  BY <1>2, <1>3 DEF LocksHeld
<1>5. CallsOK'
  BY <1>2 DEF CallsOK
<1> QED
  BY <1>1, <1>3, <1>4, <1>5 DEF return

(* Before the queue is locked, or when its lock is dropped, none is locked. *)
LEMMA NoQueueLocked ==
    ASSUME IInv, NEW t \in Thread, pc[t] # "idle",
           \/ pc[t] # "queue" /\ UNCHANGED queue_locked
           \/ pc[t] = "queue" /\ unlock_queue(t)
    PROVE  queue_locked' = [i \in Index |-> FALSE]
<1>1. queue_locked \in [Index -> BOOLEAN]
  BY DEF IInv, TypeOK
<1>2. \A i \in Index : queue_locked[i] <=> pc[t] = "queue" /\ call[t].h.index = i
  BY Alone
<1>3. queue_locked' \in [Index -> BOOLEAN]
  BY <1>1 DEF unlock_queue
<1>4. \A i \in Index : queue_locked'[i] = FALSE
  BY <1>1, <1>2 DEF unlock_queue
<1> QED
  BY <1>3, <1>4

(* Nothing changes but the result.                                          *)
LEMMA SendTooLongIInv ==
    ASSUME IInv, NEW t \in Thread, send_too_long(t)
    PROVE  IInv'
<1> USE DEF send_too_long, ghosts, locks
<1>1. TypeOK' /\ HandlesOK' /\ QueuesOK' /\ LocksHeld'
  BY DEF IInv, TypeOK, HandlesOK, QueuesOK, LocksHeld
<1>2. CallsOK'
  BY DEF IInv, CallsOK, CallOK, is_valid
<1> QED
  BY <1>1, <1>2 DEF IInv

(* A thread that takes the table's lock finds nobody inside.                *)
LEMMA LockEndpointsIInv ==
    ASSUME IInv, NEW t \in Thread, lock_endpoints(t)
    PROVE  IInv'
<1>1. /\ pc[t] = "idle" /\ ~endpoints_locked /\ endpoints_locked' = TRUE
      /\ pc' = [pc EXCEPT ![t] = "table"]
      /\ UNCHANGED <<slots, queue, queue_locked, life, handles>>
  BY DEF lock_endpoints, ghosts
<1>2. PICK c \in Calls : /\ call' = [call EXCEPT ![t] = c]
                         /\ c.h \in handles \cup {INVALID}
                         /\ c.op = "send" => c.data \in Data \ TooLong
                         /\ c.op = "destroy" => life[c.h.index] < MaxLife
  <2>1. CASE call' = [call EXCEPT ![t] = NoCall]
    <3>1. /\ NoCall \in Calls /\ NoCall.h = INVALID
          /\ NoCall.op # "send" /\ NoCall.op # "destroy"
      BY DEF NoCall, Calls
    <3> QED
      BY <2>1, <3>1
  <2>2. ASSUME NEW op \in HandleOps, NEW h \in handles \cup {INVALID}, NEW d \in Data \ TooLong,
               op = "destroy" => life[h.index] < MaxLife,
               call' = [call EXCEPT ![t] = [op |-> op, h |-> h,
                                            data |-> IF op = "send" THEN d ELSE Empty]]
        PROVE  \E c \in Calls : /\ call' = [call EXCEPT ![t] = c]
                                /\ c.h \in handles \cup {INVALID}
                                /\ c.op = "send" => c.data \in Data \ TooLong
                                /\ c.op = "destroy" => life[c.h.index] < MaxLife
    <3> DEFINE c == [op |-> op, h |-> h, data |-> IF op = "send" THEN d ELSE Empty]
    <3>1. c \in Calls
      BY DEF Calls, IInv, TypeOK
    <3> QED
      BY <2>2, <3>1
  <2> QED
    BY <2>1, <2>2 DEF lock_endpoints
<1>3. \A u \in Thread : pc[u] = "idle"
  BY <1>1 DEF IInv, LocksHeld
<1>4. pc \in [Thread -> {"idle", "table", "queue", "clear"}] /\ call \in [Thread -> Calls]
  BY DEF IInv, TypeOK
<1>5. TypeOK'
  BY <1>1, <1>2, <1>4 DEF IInv, TypeOK
<1>6. HandlesOK' /\ QueuesOK'
  BY <1>1 DEF IInv, HandlesOK, QueuesOK
<1>7. pc'[t] = "table" /\ call'[t] = c /\ \A u \in Thread : u # t => pc'[u] = "idle"
  BY <1>1, <1>2, <1>3, <1>4
<1>8. CallsOK'
  <2>1. CallOK(t)'
    BY <1>1, <1>2, <1>7 DEF CallOK
  <2> QED
    BY <1>7, <2>1 DEF CallsOK
<1>9. LocksHeld'
  <2>1. \A i \in Index : ~queue_locked'[i]
    BY <1>1, <1>3 DEF IInv, LocksHeld
  <2> QED
    BY <1>1, <1>7, <2>1 DEF LocksHeld
<1> QED
  BY <1>5, <1>6, <1>8, <1>9 DEF IInv

(* create opens a closed endpoint, whose queue is empty, and hands out its  *)
(* present generation.                                                      *)
LEMMA CreateIInv ==
    ASSUME IInv, NEW t \in Thread, create(t)
    PROVE  IInv'
<1>1. pc[t] = "table" /\ return(t) /\ UNCHANGED <<queue, queue_locked, life>>
  BY DEF create, At
<1>2. queue_locked' = [i \in Index |-> FALSE]
  BY <1>1, NoQueueLocked
<1>3. /\ LocksHeld' /\ CallsOK'
      /\ pc' \in [Thread -> {"idle", "table", "queue", "clear"}]
      /\ call' \in [Thread -> Calls]
      /\ endpoints_locked' \in BOOLEAN
      /\ queue_locked' \in [Index -> BOOLEAN]
  BY <1>1, <1>2, ReturnOK
<1>4. CASE UNCHANGED <<slots, handles>>
  <2>1. TypeOK' /\ HandlesOK' /\ QueuesOK'
    BY <1>1, <1>3, <1>4 DEF IInv, TypeOK, HandlesOK, QueuesOK
  <2> QED
    BY <1>3, <2>1 DEF IInv
<1>5. ASSUME NEW i \in Index, ~slots[i].occupied,
             slots' = [slots EXCEPT ![i] = [occupied |-> TRUE,
                                            generation |-> slots[i].generation]],
             handles' = handles \cup
               {[index |-> i, generation |-> slots[i].generation, life |-> life[i]]}
      PROVE  IInv'
  <2> DEFINE h == [index |-> i, generation |-> slots[i].generation, life |-> life[i]]
  <2>1. h \in Handles /\ slots[i].generation = life[i] + 1
    BY DEF Handles, IInv, TypeOK, HandlesOK
  <2>2. slots' \in [Index -> [occupied : BOOLEAN, generation : 1 .. GenerationLimit - 1]]
    BY <1>5 DEF IInv, TypeOK
  <2>3. TypeOK'
    BY <1>1, <1>3, <1>5, <2>1, <2>2 DEF IInv, TypeOK
  <2>4. \A j \in Index : /\ slots'[j].generation = slots[j].generation
                         /\ slots[j].occupied => slots'[j].occupied
    BY <1>5 DEF IInv, TypeOK
  <2>5. HandlesOK'
    BY <1>1, <1>5, <2>1, <2>4 DEF IInv, HandlesOK
  <2>6. QueuesOK'
    BY <1>1, <2>4 DEF IInv, QueuesOK
  <2> QED
    BY <1>3, <2>3, <2>5, <2>6 DEF IInv
<1> QED
  BY <1>4, <1>5 DEF create

(* A refused handle changes nothing.                                        *)
LEMMA RefuseIInv ==
    ASSUME IInv, NEW t \in Thread, refuse(t)
    PROVE  IInv'
<1>1. pc[t] = "table" /\ return(t) /\ UNCHANGED <<slots, queue, queue_locked, life, handles>>
  BY DEF refuse, At, ghosts
<1>2. queue_locked' = [i \in Index |-> FALSE]
  BY <1>1, NoQueueLocked
<1>3. /\ LocksHeld' /\ CallsOK'
      /\ pc' \in [Thread -> {"idle", "table", "queue", "clear"}]
      /\ call' \in [Thread -> Calls]
      /\ endpoints_locked' \in BOOLEAN
      /\ queue_locked' \in [Index -> BOOLEAN]
  BY <1>1, <1>2, ReturnOK
<1>4. TypeOK' /\ HandlesOK' /\ QueuesOK'
  BY <1>1, <1>3 DEF IInv, TypeOK, HandlesOK, QueuesOK
<1> QED
  BY <1>3, <1>4 DEF IInv

(* The queue lock taken is the one of the endpoint the handle names.        *)
LEMMA LockQueueIInv ==
    ASSUME IInv, NEW t \in Thread, lock_queue(t)
    PROVE  IInv'
<1>1. /\ pc[t] = "table" /\ is_valid(call[t].h)
      /\ queue_locked' = [queue_locked EXCEPT ![call[t].h.index] = TRUE]
      /\ pc' = [pc EXCEPT ![t] = "queue"]
      /\ UNCHANGED <<slots, queue, endpoints_locked, call, life, handles>>
  BY DEF lock_queue, At, ghosts
<1>2. /\ \A u \in Thread : u # t => pc[u] = "idle"
      /\ endpoints_locked
      /\ \A i \in Index : ~queue_locked[i]
      /\ CallOK(t)
  BY <1>1, Alone
<1>3. TypeOK' /\ HandlesOK' /\ QueuesOK'
  BY <1>1 DEF IInv, TypeOK, HandlesOK, QueuesOK
<1>4. pc'[t] = "queue" /\ \A u \in Thread : u # t => pc'[u] = "idle"
  BY <1>1, <1>2 DEF IInv, TypeOK
<1>5. CallsOK'
  BY <1>1, <1>2, <1>4 DEF CallsOK, CallOK, is_valid
<1>6. \A i \in Index : queue_locked'[i] <=> i = call[t].h.index
  BY <1>1, <1>2 DEF IInv, TypeOK
<1>7. LocksHeld'
  BY <1>1, <1>2, <1>4, <1>6 DEF LocksHeld
<1> QED
  BY <1>3, <1>5, <1>7 DEF IInv

(* An operation that only replaces the ring buffer of its open endpoint, or *)
(* leaves it, and returns.                                                  *)
LEMMA QueueOpIInv ==
    ASSUME IInv, NEW t \in Thread, pc[t] = "queue", unlock_queue(t), return(t),
           UNCHANGED <<slots, life, handles>>,
           \/ UNCHANGED queue
           \/ \E r : Ring(r) /\ queue' = [queue EXCEPT ![call[t].h.index] = r]
    PROVE  IInv'
<1>1. queue_locked' = [i \in Index |-> FALSE]
  BY NoQueueLocked
<1>2. /\ LocksHeld' /\ CallsOK'
      /\ pc' \in [Thread -> {"idle", "table", "queue", "clear"}]
      /\ call' \in [Thread -> Calls]
      /\ endpoints_locked' \in BOOLEAN
      /\ queue_locked' \in [Index -> BOOLEAN]
  BY <1>1, ReturnOK
<1>3. HandlesOK'
  BY DEF IInv, HandlesOK
<1>4. CASE UNCHANGED queue
  BY <1>2, <1>3, <1>4 DEF IInv, TypeOK, QueuesOK
<1>5. ASSUME NEW r, Ring(r), queue' = [queue EXCEPT ![call[t].h.index] = r]
      PROVE  IInv'
  <2>1. CallOK(t) /\ call[t].h.index \in Index /\ slots[call[t].h.index].occupied
    BY Alone, ValidHandle DEF CallOK
  <2>2. r \in IpcQueue
    BY <1>5 DEF Ring
  <2>3. queue' \in [Index -> IpcQueue]
    BY <1>5, <2>2 DEF IInv, TypeOK
  <2>4. TypeOK'
    BY <1>2, <2>3 DEF IInv, TypeOK
  <2>5. QueuesOK'
    BY <1>5, <2>1 DEF IInv, TypeOK, QueuesOK
  <2> QED
    BY <1>2, <1>3, <2>4, <2>5 DEF IInv
<1> QED
  BY <1>4, <1>5

(* send, receive and queue_len.                                             *)
LEMMA TransferIInv ==
    ASSUME IInv, NEW t \in Thread, send(t) \/ receive(t) \/ queue_len(t)
    PROVE  IInv'
<1> DEFINE q == queue[call[t].h.index]
<1>1. pc[t] = "queue" /\ unlock_queue(t) /\ return(t) /\ UNCHANGED <<slots, life, handles>>
  BY DEF send, receive, queue_len, At, ghosts
<1>2. CallOK(t) /\ call[t].h.index \in Index /\ Ring(q)
  BY <1>1, Alone, IndexTypes DEF IInv, QueuesOK
<1>3. CASE send(t)
  <2>1. call[t].data \in Data
    BY <1>2, <1>3 DEF send, At, CallOK
  <2>2. ~is_full(q) => Ring(queue_send(q, call[t].data))
    BY <1>2, <2>1, SendAppends
  <2> QED
    BY <1>1, <1>3, <2>2, QueueOpIInv DEF send
<1>4. CASE receive(t)
  <2>1. ~is_empty(q) => Ring(queue_receive(q))
    BY <1>2, ReceiveTakesHead
  <2> QED
    BY <1>1, <1>4, <2>1, QueueOpIInv DEF receive
<1>5. CASE queue_len(t)
  BY <1>1, <1>5, QueueOpIInv DEF queue_len
<1> QED
  BY <1>3, <1>4, <1>5

(* destroy refuses, or goes on with an empty queue while it keeps the       *)
(* table's lock, so that nobody can fill it again.                          *)
LEMMA DestroyCheckIInv ==
    ASSUME IInv, NEW t \in Thread, destroy_check(t)
    PROVE  IInv'
<1>1. pc[t] = "queue" /\ unlock_queue(t) /\ UNCHANGED <<slots, queue, life, handles>>
  BY DEF destroy_check, At, ghosts
<1>2. CASE return(t)
  BY <1>1, <1>2, QueueOpIInv
<1>3. CASE /\ is_empty(queue[call[t].h.index])
           /\ pc' = [pc EXCEPT ![t] = "clear"]
           /\ UNCHANGED <<endpoints_locked, call>>
  <2>1. queue_locked' = [i \in Index |-> FALSE]
    BY <1>1, NoQueueLocked
  <2>2. /\ \A u \in Thread : u # t => pc[u] = "idle"
        /\ endpoints_locked
        /\ CallOK(t)
    BY <1>1, Alone
  <2>3. TypeOK' /\ HandlesOK' /\ QueuesOK'
    BY <1>1, <1>3, <2>1 DEF IInv, TypeOK, HandlesOK, QueuesOK
  <2>4. pc'[t] = "clear" /\ \A u \in Thread : u # t => pc'[u] = "idle"
    BY <1>3, <2>2 DEF IInv, TypeOK
  <2>5. CallsOK'
    BY <1>1, <1>3, <2>2, <2>4 DEF CallsOK, CallOK, is_valid, is_empty
  <2>6. LocksHeld'
    BY <1>3, <2>1, <2>2, <2>4 DEF LocksHeld
  <2> QED
    BY <2>3, <2>5, <2>6 DEF IInv
<1> QED
  BY <1>2, <1>3 DEF destroy_check

(* Clearing a slot begins its next lifetime with the next generation.       *)
LEMMA DestroyClearIInv ==
    ASSUME IInv, NEW t \in Thread, destroy_clear(t)
    PROVE  /\ IInv'
           /\ slots'[call[t].h.index].occupied = FALSE
           /\ \A j \in Index \ {call[t].h.index} : slots'[j] = slots[j] /\ life'[j] = life[j]
           /\ life'[call[t].h.index] = life[call[t].h.index] + 1
<1> DEFINE i == call[t].h.index
<1>1. /\ pc[t] = "clear" /\ call[t].op = "destroy" /\ return(t)
      /\ slots' = [slots EXCEPT ![i] = clear(slots[i])]
      /\ life' = [life EXCEPT ![i] = life[i] + 1]
      /\ UNCHANGED <<queue, queue_locked, handles>>
  BY DEF destroy_clear, At
<1>2. queue_locked' = [j \in Index |-> FALSE]
  BY <1>1, NoQueueLocked
<1>3. /\ LocksHeld' /\ CallsOK'
      /\ pc' \in [Thread -> {"idle", "table", "queue", "clear"}]
      /\ call' \in [Thread -> Calls]
      /\ endpoints_locked' \in BOOLEAN
      /\ queue_locked' \in [Index -> BOOLEAN]
  BY <1>1, <1>2, ReturnOK
<1>4. /\ i \in Index /\ life[i] < MaxLife /\ queue[i].count = 0
      /\ life[i] \in 0 .. MaxLife
      /\ slots[i].generation = life[i] + 1
  BY <1>1, Alone, IndexTypes DEF CallOK, IInv, TypeOK, HandlesOK
<1>5. /\ life[i] + 1 \in 0 .. MaxLife
      /\ slots[i].generation + 1 = (life[i] + 1) + 1
      /\ slots[i].generation + 1 \in 1 .. GenerationLimit - 1
      /\ slots[i].generation + 1 # GenerationLimit
  BY <1>4, IpcAssumption
<1>6. /\ clear(slots[i]).occupied = FALSE
      /\ clear(slots[i]).generation = slots[i].generation + 1
      /\ clear(slots[i]) \in [occupied : BOOLEAN, generation : 1 .. GenerationLimit - 1]
  BY <1>5 DEF clear
<1> HIDE DEF i
<1>7. /\ slots \in [Index -> [occupied : BOOLEAN, generation : 1 .. GenerationLimit - 1]]
      /\ life \in [Index -> 0 .. MaxLife]
  BY DEF IInv, TypeOK
<1>8. /\ slots' \in [Index -> [occupied : BOOLEAN, generation : 1 .. GenerationLimit - 1]]
      /\ life' \in [Index -> 0 .. MaxLife]
  BY <1>1, <1>4, <1>5, <1>6, <1>7
<1>9. /\ slots'[i] = clear(slots[i]) /\ life'[i] = life[i] + 1
      /\ \A j \in Index \ {i} : slots'[j] = slots[j] /\ life'[j] = life[j]
  BY <1>1, <1>4, <1>7
<1>10. TypeOK'
  BY <1>1, <1>3, <1>8 DEF IInv, TypeOK
<1>11. HandlesOK'
  <2>1. slots'[i].generation = life'[i] + 1
    BY <1>5, <1>6, <1>9, Zenon
  <2>2. ASSUME NEW j \in Index PROVE slots'[j].generation = life'[j] + 1
    <3>1. CASE j = i
      BY <2>1, <3>1
    <3>2. CASE j # i
      BY <1>9, <3>2, Zenon DEF IInv, HandlesOK
    <3> QED
      BY <3>1, <3>2
  <2> QED
    BY <1>1, <2>2 DEF IInv, HandlesOK
<1>12. QueuesOK'
  BY <1>1, <1>4, <1>9 DEF IInv, QueuesOK
<1> QED
  BY <1>3, <1>6, <1>9, <1>10, <1>11, <1>12 DEF IInv, i

(* Every step keeps the invariant.                                          *)
LEMMA NextIInv == IInv /\ [Next]_vars => IInv'
<1> SUFFICES ASSUME IInv, [Next]_vars PROVE IInv'
  OBVIOUS
<1>1. ASSUME NEW t \in Thread, send_too_long(t) \/ lock_endpoints(t) \/ Step(t)
      PROVE  IInv'
  BY <1>1, SendTooLongIInv, LockEndpointsIInv, CreateIInv, RefuseIInv, LockQueueIInv,
     TransferIInv, DestroyCheckIInv, DestroyClearIInv DEF Step
<1>2. CASE UNCHANGED vars
  BY <1>2 DEF vars, locks, ghosts, IInv, TypeOK, HandlesOK, QueuesOK, CallsOK, CallOK,
     is_valid, LocksHeld
<1> QED
  BY <1>1, <1>2 DEF Next

(* The invariant holds in every state the threads reach.                    *)
THEOREM Invariance == Spec => []IInv
  BY InitIInv, NextIInv, PTL DEF Spec

(* Whoever is inside a call is alone there and holds the table's lock; a    *)
(* queue is locked exactly while a call is at it.                           *)
THEOREM MutualExclusion == Spec => []LocksHeld
<1>1. IInv => LocksHeld
  BY DEF IInv
<1> QED
  BY <1>1, Invariance, PTL

(* The fields of the table, the queues and the calls keep their types.      *)
THEOREM TypeCorrect == Spec => []TypeOK
<1>1. IInv => TypeOK
  BY DEF IInv
<1> QED
  BY <1>1, Invariance, PTL

-----------------------------------------------------------------------------
(* What a ring buffer holds outside the part it counts.                     *)

RestEmpty(q) ==
    \A k \in q.count + 1 .. IPC_QUEUE_CAPACITY : q.messages[wrap(q.head + (k - 1))] = Empty

(* A message that is sent goes into the first free position.                *)
LEMMA SendKeepsRest ==
    ASSUME NEW q, Ring(q), RestEmpty(q), ~is_full(q), NEW d
    PROVE  RestEmpty(queue_send(q, d))
<1> DEFINE r == queue_send(q, d)
<1>1. /\ q.count \in Positions /\ q.head \in Positions
      /\ q.messages \in [Positions -> Data \cup {Empty}] /\ q.tail = wrap(q.head + q.count)
  BY IpcAssumption DEF Ring, IpcQueue, is_full, Positions
<1>2. /\ r.count = q.count + 1 /\ r.head = q.head
      /\ r.messages = [q.messages EXCEPT ![q.tail] = d]
  BY DEF queue_send
<1> HIDE DEF r
<1> SUFFICES ASSUME NEW k \in q.count + 2 .. IPC_QUEUE_CAPACITY
             PROVE  r.messages[wrap(q.head + (k - 1))] = Empty
  BY <1>1, <1>2 DEF RestEmpty, r, Positions
<1>3. k - 1 \in Positions /\ k - 1 # q.count /\ k \in q.count + 1 .. IPC_QUEUE_CAPACITY
  BY <1>1, IpcAssumption DEF Positions
<1>4. wrap(q.head + (k - 1)) \in Positions /\ wrap(q.head + (k - 1)) # q.tail
  BY <1>1, <1>3, WrapInjective
<1>5. q.messages[wrap(q.head + (k - 1))] = Empty
  BY <1>3 DEF RestEmpty
<1> QED
  BY <1>1, <1>2, <1>4, <1>5

(* A message that is received leaves its position empty.                    *)
LEMMA ReceiveKeepsRest ==
    ASSUME NEW q, Ring(q), RestEmpty(q), ~is_empty(q)
    PROVE  RestEmpty(queue_receive(q))
<1> DEFINE r == queue_receive(q)
<1>1. /\ q.count \in 1 .. IPC_QUEUE_CAPACITY /\ q.head \in Positions
      /\ q.messages \in [Positions -> Data \cup {Empty}]
  BY IpcAssumption DEF Ring, IpcQueue, is_empty
<1>2. /\ r.count = q.count - 1 /\ r.head = advance(q.head)
      /\ r.messages = [q.messages EXCEPT ![q.head] = Empty]
  BY DEF queue_receive
<1> HIDE DEF r
<1> SUFFICES ASSUME NEW k \in q.count .. IPC_QUEUE_CAPACITY
             PROVE  r.messages[wrap(advance(q.head) + (k - 1))] = Empty
  BY <1>1, <1>2 DEF RestEmpty, r
<1>3. k \in 1 .. IPC_QUEUE_CAPACITY
  BY <1>1, IpcAssumption
<1>4. wrap(advance(q.head) + (k - 1)) = wrap(q.head + k) /\ wrap(q.head + k) \in Positions
  BY <1>1, <1>3, AdvanceWraps
<1>5. CASE k < IPC_QUEUE_CAPACITY
  <2>1. k + 1 \in q.count + 1 .. IPC_QUEUE_CAPACITY /\ (k + 1) - 1 = k
    BY <1>1, <1>5, IpcAssumption
  <2>2. q.messages[wrap(q.head + k)] = Empty
    BY <2>1 DEF RestEmpty
  <2> QED
    BY <1>1, <1>2, <1>4, <2>2
<1>6. CASE k = IPC_QUEUE_CAPACITY
  <2>1. wrap(q.head + k) = q.head
    BY <1>1, <1>6, IpcAssumption DEF Positions, wrap
  <2> QED
    BY <1>1, <1>2, <1>4, <2>1
<1> QED
  BY <1>3, <1>5, <1>6, IpcAssumption

(* No slot, open or not, keeps a message that was received, and a slot that *)
(* was freed has none at all: create, which resets no queue, hands out an   *)
(* empty endpoint, for every capacity and any interleaving of threads.      *)
THEOREM FreedQueuesAreEmpty == Spec => []NothingLeftBehind
<1> DEFINE Clean == \A i \in Index : RestEmpty(queue[i])
<1>1. Init => Clean
  <2>1. \A k \in 1 .. IPC_QUEUE_CAPACITY : wrap(0 + (k - 1)) \in Positions
    BY IpcAssumption DEF wrap, Positions
  <2>2. RestEmpty(IpcQueue_new)
    BY <2>1 DEF RestEmpty, IpcQueue_new
  <2> QED
    BY <2>2 DEF Init
<1>2. IInv /\ Clean /\ [Next]_vars => Clean'
  <2> SUFFICES ASSUME IInv, Clean, [Next]_vars PROVE Clean'
    OBVIOUS
  <2>1. ASSUME UNCHANGED queue PROVE Clean'
    BY <2>1 DEF RestEmpty
  <2>2. ASSUME NEW t \in Thread, send(t) \/ receive(t) PROVE Clean'
    <3> DEFINE i == call[t].h.index
    <3>1. i \in Index /\ Ring(queue[i]) /\ RestEmpty(queue[i]) /\ queue \in [Index -> IpcQueue]
      BY IndexTypes DEF IInv, QueuesOK, TypeOK
    <3>2. CASE queue' = [queue EXCEPT ![i] = queue_send(queue[i], call[t].data)]
               /\ ~is_full(queue[i])
      <4>1. RestEmpty(queue_send(queue[i], call[t].data))
        BY <3>1, <3>2, SendKeepsRest
      <4>2. \A j \in Index : RestEmpty(queue'[j])
        BY <3>1, <3>2, <4>1
      <4> QED
        BY <4>2 DEF RestEmpty
    <3>3. CASE queue' = [queue EXCEPT ![i] = queue_receive(queue[i])] /\ ~is_empty(queue[i])
      <4>1. RestEmpty(queue_receive(queue[i]))
        BY <3>1, <3>3, ReceiveKeepsRest
      <4>2. \A j \in Index : RestEmpty(queue'[j])
        BY <3>1, <3>3, <4>1
      <4> QED
        BY <4>2 DEF RestEmpty
    <3> QED
      BY <2>1, <2>2, <3>2, <3>3 DEF send, receive
  <2>3. CASE UNCHANGED vars
    BY <2>1, <2>3 DEF vars
  <2> QED
    BY <2>1, <2>2, <2>3 DEF Next, Step, send_too_long, lock_endpoints, create, refuse, lock_queue,
       queue_len, destroy_check, destroy_clear
<1>3. IInv /\ Clean => NothingLeftBehind
  BY DEF IInv, QueuesOK, RestEmpty, NothingLeftBehind
<1> QED
  BY <1>1, <1>2, <1>3, Invariance, PTL DEF Spec

-----------------------------------------------------------------------------
(* The refinement: the step that decides a call is the step of IpcFifo, all *)
(* others leave its variables alone.                                        *)

(* A handle of the manager, as IpcFifo knows it.                            *)
abs(h) == [index |-> h.index, life |-> h.life]

(* The endpoint's box; and that a handle is valid exactly when IpcFifo has  *)
(* it open.                                                                 *)
LEMMA BoxOf ==
    ASSUME IInv, NEW h \in handles \cup {INVALID}
    PROVE  /\ abs(h) \in [index : Index, life : -1 .. MaxLife]
           /\ is_valid(h) <=> Fifo!Open(abs(h))
           /\ boxes[h.index] = [open |-> slots[h.index].occupied, life |-> life[h.index],
                                queue |-> fifo(queue[h.index])]
           /\ Ring(queue[h.index])
           /\ fifo(queue[h.index]) = << >> <=> is_empty(queue[h.index])
           /\ Len(fifo(queue[h.index])) = queue[h.index].count
<1>1. /\ h.index \in Index /\ h.life \in -1 .. MaxLife
      /\ is_valid(h) <=> slots[h.index].occupied /\ life[h.index] = h.life
  BY ValidHandle
<1>2. boxes[h.index] = [open |-> slots[h.index].occupied, life |-> life[h.index],
                        queue |-> fifo(queue[h.index])]
  BY <1>1 DEF boxes
<1>3. abs(h).index = h.index /\ abs(h).life = h.life
  BY DEF abs
<1>4. Fifo!Open(abs(h)) <=> slots[h.index].occupied /\ life[h.index] = h.life
  BY <1>1, <1>2, <1>3 DEF Fifo!Open
<1>5. Ring(queue[h.index])
  BY <1>1 DEF IInv, QueuesOK
<1>6. /\ fifo(queue[h.index]) = << >> <=> queue[h.index].count = 0
      /\ Len(fifo(queue[h.index])) = queue[h.index].count
  BY <1>5, FifoIsSeq
<1> QED
  BY <1>1, <1>2, <1>4, <1>5, <1>6 DEF is_empty, abs

(* Steps that leave the slots, the ages and the queues leave the boxes.     *)
LEMMA BoxesKept ==
    ASSUME UNCHANGED <<slots, queue, life>>
    PROVE  UNCHANGED boxes
  BY DEF boxes

(* create opens the box.                                                    *)
LEMMA CreateStep ==
    ASSUME IInv, NEW t \in Thread, create(t)
    PROVE  Fifo!FNext
<1>1. UNCHANGED <<queue, life>>
  BY DEF create
<1>2. CASE (\A i \in Index : slots[i].occupied) /\ Did("create", << >>) /\ UNCHANGED slots
  <2>1. UNCHANGED boxes
    BY <1>1, <1>2, BoxesKept
  <2>2. \A i \in Index : boxes[i].open
    BY <1>2 DEF boxes
  <2> QED
    BY <1>2, <2>1, <2>2 DEF Fifo!FNext, Fifo!CreateRefused, Fifo!Refused, Fifo!Did, Did
<1>3. ASSUME NEW i \in Index, ~slots[i].occupied,
             slots' = [slots EXCEPT ![i] = [occupied |-> TRUE,
                                            generation |-> slots[i].generation]],
             Did("create", <<[index |-> i, life |-> life[i]]>>)
      PROVE  Fifo!FNext
  <2>1. ~boxes[i].open /\ boxes[i].life = life[i]
    BY <1>3 DEF boxes
  <2>2. fifo(queue[i]) = << >>
    BY <1>3, FifoIsSeq DEF IInv, QueuesOK
  <2>3. slots'[i].occupied = TRUE /\ \A j \in Index : j # i => slots'[j] = slots[j]
    BY <1>3 DEF IInv, TypeOK
  <2>4. boxes' = [boxes EXCEPT ![i] = [open |-> TRUE, life |-> life[i], queue |-> << >>]]
    BY <1>1, <2>2, <2>3 DEF boxes
  <2> QED
    BY <1>3, <2>1, <2>4 DEF Fifo!FNext, Fifo!Create, Fifo!Did, Did
<1> QED
  BY <1>2, <1>3 DEF create

(* A handle that is not valid is refused by IpcFifo too.                    *)
LEMMA RefuseStep ==
    ASSUME IInv, NEW t \in Thread, refuse(t)
    PROVE  Fifo!FNext
<1> DEFINE h == call[t].h
<1>1. /\ pc[t] = "table" /\ call[t].op \in HandleOps /\ ~is_valid(h)
      /\ Did(call[t].op, << >>) /\ UNCHANGED <<slots, queue, life>>
  BY DEF refuse, At, ghosts
<1>2. h \in handles \cup {INVALID} /\ (call[t].op = "send" => call[t].data \in Data)
  BY <1>1, Alone DEF CallOK
<1>3. UNCHANGED boxes
  BY <1>1, BoxesKept
<1>4. abs(h) \in [index : Index, life : -1 .. MaxLife] /\ ~Fifo!Open(abs(h))
  BY <1>1, <1>2, BoxOf
<1>5. CASE call[t].op = "send"
  BY <1>1, <1>2, <1>3, <1>4, <1>5
     DEF Fifo!FNext, Fifo!SendRefused, Fifo!Refused, Fifo!Did, Did
<1>6. CASE call[t].op = "receive"
  BY <1>1, <1>3, <1>4, <1>6
     DEF Fifo!FNext, Fifo!ReceiveRefused, Fifo!Refused, Fifo!Did, Did
<1>7. CASE call[t].op = "queue_len"
  BY <1>1, <1>3, <1>4, <1>7 DEF Fifo!FNext, Fifo!QueueLen, Fifo!Did, Did
<1>8. CASE call[t].op = "destroy"
  BY <1>1, <1>3, <1>4, <1>8
     DEF Fifo!FNext, Fifo!DestroyRefused, Fifo!Refused, Fifo!Did, Did
<1> QED
  BY <1>1, <1>5, <1>6, <1>7, <1>8 DEF HandleOps

(* What the step that decides a call knows of its handle.                   *)
LEMMA AtQueue ==
    ASSUME IInv, NEW t \in Thread, pc[t] = "queue" \/ pc[t] = "clear",
           NEW h, h = call[t].h
    PROVE  /\ h \in handles \cup {INVALID}
           /\ h.index \in Index
           /\ abs(h) \in [index : Index, life : -1 .. MaxLife]
           /\ abs(h).index = h.index /\ abs(h).life = h.life
           /\ Fifo!Open(abs(h))
           /\ boxes[h.index].queue = fifo(queue[h.index])
           /\ Ring(queue[h.index])
           /\ fifo(queue[h.index]) = << >> <=> is_empty(queue[h.index])
           /\ Len(fifo(queue[h.index])) = queue[h.index].count
           /\ slots[h.index].occupied = TRUE
           /\ life[h.index] = h.life
<1>1. h \in handles \cup {INVALID} /\ is_valid(h)
  BY Alone DEF CallOK
<1>2. h.index \in Index /\ slots[h.index].occupied /\ life[h.index] = h.life
  BY <1>1, ValidHandle
<1>3. slots[h.index].occupied = TRUE
  BY <1>2 DEF IInv, TypeOK
<1>4. abs(h).index = h.index /\ abs(h).life = h.life
  BY DEF abs
<1>5. /\ abs(h) \in [index : Index, life : -1 .. MaxLife]
      /\ Fifo!Open(abs(h))
      /\ Ring(queue[h.index])
      /\ fifo(queue[h.index]) = << >> <=> is_empty(queue[h.index])
      /\ Len(fifo(queue[h.index])) = queue[h.index].count
  BY <1>1, BoxOf
<1>6. boxes[h.index].queue = fifo(queue[h.index])
  BY <1>2 DEF boxes
<1> QED
  BY <1>1, <1>2, <1>3, <1>4, <1>5, <1>6

(* A new ring buffer in one endpoint is a new queue in its box.             *)
LEMMA BoxQueue ==
    ASSUME IInv, NEW t \in Thread, pc[t] = "queue", NEW r,
           queue' = [queue EXCEPT ![call[t].h.index] = r], UNCHANGED <<slots, life>>,
           NEW f, fifo(r) = f
    PROVE  boxes' = [boxes EXCEPT ![call[t].h.index] =
                       [open |-> TRUE, life |-> call[t].h.life, queue |-> f]]
<1> DEFINE i == call[t].h.index
<1>1. i \in Index /\ slots[i].occupied = TRUE /\ life[i] = call[t].h.life
  BY AtQueue
<1>2. queue'[i] = r /\ \A j \in Index : j # i => queue'[j] = queue[j]
  BY <1>1 DEF IInv, TypeOK
<1> HIDE DEF i
<1> QED
  BY <1>1, <1>2 DEF boxes, i

(* send appends to the queue of the box, or is refused at capacity.         *)
LEMMA SendStep ==
    ASSUME IInv, NEW t \in Thread, send(t)
    PROVE  Fifo!FNext
<1> DEFINE h == call[t].h
           q == queue[h.index]
           d == call[t].data
<1>1. pc[t] = "queue" /\ call[t].op = "send" /\ UNCHANGED <<slots, life>>
  BY DEF send, At, ghosts
<1>2. d \in Data \ TooLong
  BY <1>1, Alone DEF CallOK
<1>3. /\ abs(h) \in [index : Index, life : -1 .. MaxLife]
      /\ Fifo!Open(abs(h))
      /\ boxes[h.index].queue = fifo(q)
      /\ Ring(q) /\ Len(fifo(q)) = q.count
      /\ abs(h).index = h.index /\ abs(h).life = h.life
  BY <1>1, AtQueue
<1>4. CASE is_full(q) /\ Did("send", << >>) /\ UNCHANGED queue
  <2>1. UNCHANGED boxes
    BY <1>1, <1>4, BoxesKept
  <2>2. Len(boxes[abs(h).index].queue) = IPC_QUEUE_CAPACITY
    BY <1>3, <1>4 DEF is_full
  <2> QED
    BY <1>2, <1>3, <1>4, <2>1, <2>2
       DEF Fifo!FNext, Fifo!SendRefused, Fifo!Refused, Fifo!Did, Did
<1>5. CASE /\ ~is_full(q) /\ Did("send", <<d>>)
           /\ queue' = [queue EXCEPT ![h.index] = queue_send(q, d)]
  <2>1. fifo(queue_send(q, d)) = Append(fifo(q), d)
    BY <1>2, <1>3, <1>5, SendAppends
  <2>2. boxes' = [boxes EXCEPT ![h.index] = [open |-> TRUE, life |-> h.life,
                                             queue |-> Append(fifo(q), d)]]
    <3> DEFINE r == queue_send(q, d)
               f == Append(fifo(q), d)
    <3>1. fifo(r) = f /\ queue' = [queue EXCEPT ![h.index] = r]
      BY <1>5, <2>1
    <3> HIDE DEF r, f
    <3>2. boxes' = [boxes EXCEPT ![h.index] = [open |-> TRUE, life |-> h.life, queue |-> f]]
      BY <1>1, <3>1, BoxQueue
    <3> QED
      BY <3>2 DEF f
  <2>3. Len(boxes[abs(h).index].queue) < IPC_QUEUE_CAPACITY
    BY <1>3, <1>5, IpcAssumption DEF is_full, Ring, IpcQueue
  <2>4. Fifo!Send(abs(h), d)
    BY <1>2, <1>3, <1>5, <2>2, <2>3 DEF Fifo!Send, Fifo!Did, Did
  <2> QED
    BY <1>2, <1>3, <2>4 DEF Fifo!FNext
<1> QED
  BY <1>4, <1>5 DEF send

(* receive takes the head of the queue of the box, or is refused when empty. *)
LEMMA ReceiveStep ==
    ASSUME IInv, NEW t \in Thread, receive(t)
    PROVE  Fifo!FNext
<1> DEFINE h == call[t].h
           q == queue[h.index]
<1>1. pc[t] = "queue" /\ UNCHANGED <<slots, life>>
  BY DEF receive, At, ghosts
<1>2. /\ abs(h) \in [index : Index, life : -1 .. MaxLife]
      /\ Fifo!Open(abs(h))
      /\ boxes[h.index].queue = fifo(q)
      /\ Ring(q) /\ (fifo(q) = << >> <=> is_empty(q))
      /\ abs(h).index = h.index /\ abs(h).life = h.life
  BY <1>1, AtQueue
<1>3. CASE is_empty(q) /\ Did("receive", << >>) /\ UNCHANGED queue
  <2>1. UNCHANGED boxes
    BY <1>1, <1>3, BoxesKept
  <2> QED
    BY <1>2, <1>3, <2>1
       DEF Fifo!FNext, Fifo!ReceiveRefused, Fifo!Refused, Fifo!Did, Did
<1>4. CASE /\ ~is_empty(q) /\ Did("receive", <<q.messages[q.head]>>)
           /\ queue' = [queue EXCEPT ![h.index] = queue_receive(q)]
  <2>1. Head(fifo(q)) = q.messages[q.head] /\ fifo(queue_receive(q)) = Tail(fifo(q))
    BY <1>2, <1>4, ReceiveTakesHead
  <2>2. boxes' = [boxes EXCEPT ![h.index] = [open |-> TRUE, life |-> h.life,
                                             queue |-> Tail(fifo(q))]]
    BY <1>1, <1>4, <2>1, BoxQueue, ZenonT(60)
  <2>3. Fifo!Receive(abs(h))
    BY <1>2, <1>4, <2>1, <2>2 DEF Fifo!Receive, Fifo!Did, Did
  <2> QED
    BY <1>2, <2>3 DEF Fifo!FNext
<1> QED
  BY <1>3, <1>4 DEF receive

(* queue_len reports the length of the queue of the box.                    *)
LEMMA QueueLenStep ==
    ASSUME IInv, NEW t \in Thread, queue_len(t)
    PROVE  Fifo!FNext
<1> DEFINE h == call[t].h
<1>1. /\ pc[t] = "queue" /\ UNCHANGED <<slots, queue, life>>
      /\ Did("queue_len", <<queue[h.index].count>>)
  BY DEF queue_len, At, ghosts
<1>2. /\ abs(h) \in [index : Index, life : -1 .. MaxLife]
      /\ Fifo!Open(abs(h))
      /\ boxes[h.index].queue = fifo(queue[h.index])
      /\ Len(fifo(queue[h.index])) = queue[h.index].count
      /\ abs(h).index = h.index
  BY <1>1, AtQueue
<1>3. Fifo!QueueLen(abs(h))
  BY <1>1, <1>2, BoxesKept DEF Fifo!QueueLen, Fifo!Did, Did
<1> QED
  BY <1>2, <1>3 DEF Fifo!FNext

(* destroy is refused while messages wait, else it is decided by the clear. *)
LEMMA DestroyCheckStep ==
    ASSUME IInv, NEW t \in Thread, destroy_check(t)
    PROVE  [Fifo!FNext]_(Fifo!fvars)
<1> DEFINE h == call[t].h
<1>1. /\ pc[t] = "queue" /\ UNCHANGED <<slots, queue, life>>
      /\ \/ ~is_empty(queue[h.index]) /\ Did("destroy", << >>)
         \/ UNCHANGED last
  BY DEF destroy_check, At, ghosts
<1>2. UNCHANGED boxes
  BY <1>1, BoxesKept
<1>3. CASE UNCHANGED last
  BY <1>2, <1>3 DEF Fifo!fvars
<1>4. CASE ~is_empty(queue[h.index]) /\ Did("destroy", << >>)
  <2>1. /\ abs(h) \in [index : Index, life : -1 .. MaxLife]
        /\ boxes[h.index].queue # << >>
        /\ abs(h).index = h.index
    BY <1>1, <1>4, AtQueue
  <2>2. Fifo!DestroyRefused(abs(h))
    BY <1>2, <1>4, <2>1 DEF Fifo!DestroyRefused, Fifo!Refused, Fifo!Did, Did
  <2> QED
    BY <2>1, <2>2 DEF Fifo!FNext
<1> QED
  BY <1>1, <1>3, <1>4

(* The clear closes the box, which is empty.                                *)
LEMMA DestroyClearStep ==
    ASSUME IInv, NEW t \in Thread, destroy_clear(t)
    PROVE  Fifo!FNext
<1> DEFINE h == call[t].h
           i == h.index
<1>1. pc[t] = "clear" /\ UNCHANGED queue /\ Did("destroy", <<h.life>>)
  BY DEF destroy_clear, At
<1>2. /\ i \in Index
      /\ abs(h) \in [index : Index, life : -1 .. MaxLife]
      /\ Fifo!Open(abs(h)) /\ life[i] = h.life
      /\ boxes[i].queue = fifo(queue[i])
      /\ abs(h).index = i /\ abs(h).life = h.life
  BY <1>1, AtQueue
<1>3. fifo(queue[i]) = << >>
  BY <1>1, <1>2, Alone, FifoIsSeq DEF CallOK, IInv, QueuesOK
<1>4. /\ slots'[i].occupied = FALSE
      /\ \A j \in Index \ {i} : slots'[j] = slots[j] /\ life'[j] = life[j]
      /\ life'[i] = h.life + 1
  BY <1>2, DestroyClearIInv
<1> HIDE DEF i
<1>5. boxes' = [boxes EXCEPT ![i] = [open |-> FALSE, life |-> h.life + 1, queue |-> << >>]]
  BY <1>1, <1>2, <1>3, <1>4 DEF boxes
<1>6. Fifo!Destroy(abs(h))
  BY <1>1, <1>2, <1>3, <1>5 DEF Fifo!Destroy, Fifo!Did, Did
<1> QED
  BY <1>2, <1>6 DEF Fifo!FNext

(* Data too long is refused whatever the handle.                            *)
LEMMA SendTooLongStep ==
    ASSUME IInv, NEW t \in Thread, send_too_long(t)
    PROVE  Fifo!FNext
<1>1. PICK d : d \in TooLong /\ d \in Data
  BY IpcAssumption DEF send_too_long
<1>2. abs(INVALID) \in [index : Index, life : -1 .. MaxLife]
  BY BoxOf
<1>3. UNCHANGED boxes /\ Did("send", << >>)
  BY BoxesKept DEF send_too_long, ghosts
<1>4. Fifo!SendRefused(abs(INVALID), d)
  BY <1>1, <1>3 DEF Fifo!SendRefused, Fifo!Refused, Fifo!Did, Did
<1> QED
  BY <1>1, <1>2, <1>4 DEF Fifo!FNext

(* Taking a lock decides nothing.                                           *)
LEMMA LockSteps ==
    ASSUME NEW t \in Thread, lock_endpoints(t) \/ lock_queue(t)
    PROVE  UNCHANGED Fifo!fvars
  BY BoxesKept DEF lock_endpoints, lock_queue, ghosts, Fifo!fvars

(* The manager implements bounded FIFOs with lifetimes: whatever threads    *)
(* interleave, messages come out of an endpoint once each, in order, never  *)
(* from an earlier endpoint of the slot, and results are those of IpcFifo.  *)
THEOREM Refinement == Spec => ImplementsFifo
<1>1. Init => Fifo!FInit
  <2> SUFFICES ASSUME Init PROVE Fifo!FInit
    OBVIOUS
  <2>1. fifo(IpcQueue_new) = << >>
    <3>1. Ring(IpcQueue_new) /\ IpcQueue_new.count = 0
      BY IpcAssumption DEF Ring, IpcQueue, IpcQueue_new, wrap, Positions
    <3> QED
      BY <3>1, FifoIsSeq
  <2>2. boxes = [i \in Index |-> [open |-> FALSE, life |-> 0, queue |-> << >>]]
    BY <2>1 DEF boxes, Init
  <2> QED
    BY <2>2 DEF Fifo!FInit, Init
<1>2. IInv /\ [Next]_vars => [Fifo!FNext]_(Fifo!fvars)
  <2> SUFFICES ASSUME IInv, [Next]_vars PROVE [Fifo!FNext]_(Fifo!fvars)
    OBVIOUS
  <2>1. ASSUME NEW t \in Thread, send_too_long(t) \/ lock_endpoints(t) \/ Step(t)
        PROVE  [Fifo!FNext]_(Fifo!fvars)
    BY <2>1, SendTooLongStep, LockSteps, CreateStep, RefuseStep, SendStep, ReceiveStep,
       QueueLenStep, DestroyCheckStep, DestroyClearStep DEF Step
  <2>2. CASE UNCHANGED vars
    BY <2>2, BoxesKept DEF vars, ghosts, Fifo!fvars
  <2> QED
    BY <2>1, <2>2 DEF Next
<1> QED
  BY <1>1, <1>2, Invariance, PTL DEF Spec, ImplementsFifo, Fifo!FSpec
=============================================================================
