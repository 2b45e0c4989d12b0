---------------------------- MODULE MessageQueue ----------------------------
(***************************************************************************)
(* src/ipc/message_queue.c: a ring buffer of max_msgs messages.  Messages  *)
(* are opaque values; a message slot that was never written holds NoMsg.   *)
(* The memory the queue takes from the heap is in Ipc; here a creation     *)
(* succeeds or fails.                                                      *)
(***************************************************************************)
EXTENDS Integers, Sequences

CONSTANTS
  Msgs,       \* messages
  NoMsg,      \* content of memory nobody has written
  Capacities  \* values of max_msgs passed to mq_create

ASSUME QueueAssumption == NoMsg \notin Msgs /\ Capacities \subseteq Nat

VARIABLES
  mq,       \* the struct message_queue
  received  \* what mq_receive last wrote through its msg argument

mqVars == <<mq, received>>

NoQueue == [max_msgs |-> 0, count |-> 0, head |-> 0, tail |-> 0,
            buffer |-> <<>>]

QueueInit == mq = NoQueue /\ received = NoMsg

Exists == mq.max_msgs # 0

(* Both allocations succeeded; the second asks for msg_size * max_msgs      *)
(* bytes and fails when that is 0.                                          *)
mq_created(n) ==
  /\ n > 0
  /\ mq' = [max_msgs |-> n, count |-> 0, head |-> 0, tail |-> 0,
            buffer |-> [i \in 0..(n - 1) |-> NoMsg]]
  /\ UNCHANGED received

SendOverwrites(m) ==
  /\ mq.count <= mq.max_msgs
  /\ mq' = [mq EXCEPT !.buffer[mq.head] = m,
                      !.head = (@ + 1) % mq.max_msgs,
                      !.count = @ + 1]
  /\ UNCHANGED received

mq_send(m) ==
  \/ /\ mq.count >= mq.max_msgs                    \* RTOS_ERROR_BUSY
     /\ UNCHANGED mqVars
  \/ /\ mq.count < mq.max_msgs
     /\ mq' = [mq EXCEPT !.buffer[mq.head] = m,
                         !.head = (@ + 1) % mq.max_msgs,
                         !.count = @ + 1]
     /\ UNCHANGED received

ReceiveWithoutWrap ==
  /\ mq.count > 0
  /\ received' = mq.buffer[mq.tail]
  /\ mq' = [mq EXCEPT !.tail = IF @ + 1 < mq.max_msgs THEN @ + 1 ELSE @,
                      !.count = @ - 1]

mq_receive ==
  \/ /\ mq.count = 0                               \* RTOS_ERROR_TIMEOUT
     /\ UNCHANGED mqVars
  \/ /\ mq.count # 0
     /\ received' = mq.buffer[mq.tail]
     /\ mq' = [mq EXCEPT !.tail = (@ + 1) % mq.max_msgs,
                         !.count = @ - 1]

mq_destroyed == mq' = NoQueue /\ UNCHANGED received

(* A call with a null queue or message returns RTOS_ERROR_INVALID_PARAM and *)
(* changes nothing; the application uses a queue while it exists.           *)
QueueNext ==
  \/ ~Exists /\ \E n \in Capacities : mq_created(n)
  \/ Exists /\ \E m \in Msgs : mq_send(m)
  \/ Exists /\ mq_receive
  \/ Exists /\ mq_destroyed

QueueSpec == QueueInit /\ [][QueueNext]_mqVars

-----------------------------------------------------------------------------
(* Properties.                                                              *)

(* The indices and the count of the ring buffer stay consistent.            *)
QueueTypeOK ==
  /\ mq.max_msgs \in Nat /\ mq.count \in 0..mq.max_msgs
  /\ received \in Msgs \cup {NoMsg}
  /\ Exists =>
       /\ mq.head \in 0..(mq.max_msgs - 1)
       /\ mq.tail \in 0..(mq.max_msgs - 1)
       /\ mq.buffer \in [0..(mq.max_msgs - 1) -> Msgs \cup {NoMsg}]

(* The waiting messages, oldest first, as the ring buffer lays them out.    *)
contents ==
  [i \in 1..mq.count |-> mq.buffer[(mq.tail + i - 1) % mq.max_msgs]]

Fifo == INSTANCE BoundedFifo WITH capacity <- mq.max_msgs

(* Through every wrap of head and tail the ring buffer is a bounded FIFO:   *)
(* no message is lost, duplicated, reordered or read before it was written, *)
(* and a full or empty queue changes nothing.                               *)
ImplementsFifo == Fifo!Spec
=============================================================================
