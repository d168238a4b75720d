------------------------------ MODULE IpcFifo --------------------------------
(***************************************************************************)
(* What IPC endpoints promise: each is a bounded FIFO of messages with a   *)
(* lifetime.  A handle belongs to one lifetime of one endpoint; through it *)
(* messages come out exactly once, in the order they went in, and never    *)
(* from another lifetime; an endpoint is destroyed only while empty.       *)
(***************************************************************************)
EXTENDS Integers, Sequences

CONSTANTS Index, Capacity, Data, TooLong,
          Handle      \* an endpoint and a lifetime of it, or none of any

VARIABLES
    box,    \* endpoint -> its lifetime, whether it is open, its messages
    last    \* the operation that took effect last, with its result

fvars == <<box, last>>

(* Results: << >> for false or None, <<x>> for x.                           *)
Did(op, result) == last' = [op |-> op, result |-> result]

Open(h) == /\ h.index \in Index
           /\ box[h.index].open
           /\ box[h.index].life = h.life

FInit ==
    /\ box = [i \in Index |-> [open |-> FALSE, life |-> 0, queue |-> << >>]]
    /\ last = [op |-> "boot", result |-> << >>]

Refused(op) == Did(op, << >>) /\ UNCHANGED box

Create(i) ==
    /\ ~box[i].open
    /\ box' = [box EXCEPT ![i] = [open |-> TRUE, life |-> box[i].life, queue |-> << >>]]
    /\ Did("create", <<[index |-> i, life |-> box[i].life]>>)

CreateRefused == (\A i \in Index : box[i].open) /\ Refused("create")

Send(h, d) ==
    /\ Open(h) /\ d \notin TooLong /\ Len(box[h.index].queue) < Capacity
    /\ box' = [box EXCEPT ![h.index] = [open |-> TRUE, life |-> h.life,
                                        queue |-> Append(box[h.index].queue, d)]]
    /\ Did("send", <<d>>)

SendRefused(h, d) ==
    /\ Open(h) => d \in TooLong \/ Len(box[h.index].queue) = Capacity
    /\ Refused("send")

Receive(h) ==
    /\ Open(h) /\ box[h.index].queue # << >>
    /\ box' = [box EXCEPT ![h.index] = [open |-> TRUE, life |-> h.life,
                                        queue |-> Tail(box[h.index].queue)]]
    /\ Did("receive", <<Head(box[h.index].queue)>>)

ReceiveRefused(h) ==
    /\ Open(h) => box[h.index].queue = << >>
    /\ Refused("receive")

QueueLen(h) ==
    /\ Did("queue_len", IF Open(h) THEN <<Len(box[h.index].queue)>> ELSE << >>)
    /\ UNCHANGED box

Destroy(h) ==
    /\ Open(h) /\ box[h.index].queue = << >>
    /\ box' = [box EXCEPT ![h.index] = [open |-> FALSE, life |-> h.life + 1, queue |-> << >>]]
    /\ Did("destroy", <<h.life>>)

DestroyRefused(h) ==
    /\ Open(h) => box[h.index].queue # << >>
    /\ Refused("destroy")

FNext ==
    \/ \E i \in Index : Create(i)
    \/ CreateRefused
    \/ \E h \in Handle :
         \/ \E d \in Data : Send(h, d) \/ SendRefused(h, d)
         \/ Receive(h) \/ ReceiveRefused(h)
         \/ QueueLen(h)
         \/ Destroy(h) \/ DestroyRefused(h)

FSpec == FInit /\ [][FNext]_fvars
=============================================================================
