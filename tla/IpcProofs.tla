----------------------------- MODULE IpcProofs ------------------------------
(***************************************************************************)
(* Proofs about Ipc for every heap, capacity, message size and number of   *)
(* callers: the objects keep heap blocks of their own, the queue on the    *)
(* heap behaves as the queue of MessageQueue, and mutex and semaphore      *)
(* account for every caller.                                               *)
(***************************************************************************)
EXTENDS Ipc, HeapProofs, SequenceTheorems, TLAPS

-----------------------------------------------------------------------------
(* The ring buffer of message_queue.c is a bounded FIFO, for every capacity *)
(* and every set of messages.                                               *)

(* One step past the end of a ring of n slots comes back to its start.     *)
LEMMA RingIndex ==
  ASSUME NEW n \in Nat \ {0}, NEW x \in 0..(2 * n - 1)
  PROVE  x % n = IF x < n THEN x ELSE x - n
<1>1. CASE x < n
  BY <1>1
<1>2. CASE x >= n
  <2>1. (x - n) \in 0..(n - 1) /\ x = n * 1 + (x - n)
    BY <1>2
  <2> QED
    BY <2>1
<1> QED
  BY <1>1, <1>2

(* The slot after the last of c messages from slot t.                      *)
LEMMA NextHead ==
  ASSUME NEW n \in Nat \ {0}, NEW t \in 0..(n - 1), NEW c \in 0..(n - 1)
  PROVE  /\ (t + c) % n \in 0..(n - 1)
         /\ (((t + c) % n) + 1) % n \in 0..(n - 1)
         /\ (((t + c) % n) + 1) % n = (t + (c + 1)) % n
<1> DEFINE h == (t + c) % n
           k == (h + 1) % n
           l == (t + (c + 1)) % n
<1>1. t + c \in 0..(2 * n - 1) /\ t + (c + 1) \in 0..(2 * n - 1)
  OBVIOUS
<1>2. h = IF t + c < n THEN t + c ELSE (t + c) - n
  BY <1>1, RingIndex, Zenon
<1>3. l = IF t + (c + 1) < n THEN t + (c + 1) ELSE (t + (c + 1)) - n
  BY <1>1, RingIndex, Zenon
<1> HIDE DEF h, l
<1>4. h \in 0..(n - 1) /\ h + 1 \in 0..(2 * n - 1)
  BY <1>2
<1>5. k = IF h + 1 < n THEN h + 1 ELSE (h + 1) - n
  BY <1>4, RingIndex, Zenon
<1> HIDE DEF k
<1>6. k \in 0..(n - 1) /\ k = l
  BY <1>2, <1>3, <1>4, <1>5
<1> QED
  BY <1>4, <1>6, Zenon DEF h, k, l

(* The slots of the waiting messages are in the ring and not the next one. *)
LEMMA WaitingSlots ==
  ASSUME NEW n \in Nat \ {0}, NEW t \in 0..(n - 1), NEW c \in 0..n,
         NEW i \in 1..c
  PROVE  /\ (t + i - 1) % n \in 0..(n - 1)
         /\ c < n => (t + i - 1) % n # (t + c) % n
<1> DEFINE x == (t + i - 1) % n
           y == (t + c) % n
<1>1. t + i - 1 \in 0..(2 * n - 1) /\ t + c \in 0..(2 * n - 1)
  OBVIOUS
<1>2. x = IF t + i - 1 < n THEN t + i - 1 ELSE (t + i - 1) - n
  BY <1>1, RingIndex, Zenon
<1>3. y = IF t + c < n THEN t + c ELSE (t + c) - n
  BY <1>1, RingIndex, Zenon
<1> HIDE DEF x, y
<1>4. x \in 0..(n - 1) /\ (c < n => x # y)
  BY <1>2, <1>3
<1> QED
  BY <1>4, Zenon DEF x, y

(* Counting from the next tail is counting one further from this one.      *)
LEMMA NextTail ==
  ASSUME NEW n \in Nat \ {0}, NEW t \in 0..(n - 1), NEW j \in 0..(n - 1)
  PROVE  /\ (t + 1) % n \in 0..(n - 1)
         /\ (((t + 1) % n) + j) % n = (t + 1 + j) % n
<1> DEFINE u == (t + 1) % n
           v == (u + j) % n
           w == (t + 1 + j) % n
<1>1. t + 1 \in 0..(2 * n - 1) /\ t + 1 + j \in 0..(2 * n - 1)
  OBVIOUS
<1>2. u = IF t + 1 < n THEN t + 1 ELSE (t + 1) - n
  BY <1>1, RingIndex, Zenon
<1>3. w = IF t + 1 + j < n THEN t + 1 + j ELSE (t + 1 + j) - n
  BY <1>1, RingIndex, Zenon
<1> HIDE DEF u, w
<1>4. u \in 0..(n - 1) /\ u + j \in 0..(2 * n - 1)
  BY <1>2
<1>5. v = IF u + j < n THEN u + j ELSE (u + j) - n
  BY <1>4, RingIndex, Zenon
<1> HIDE DEF v
<1>6. v = w
  BY <1>2, <1>3, <1>4, <1>5
<1> QED
  BY <1>4, <1>6, Zenon DEF u, v, w

(* Writing slot h, which none of the first c indices names, appends.       *)
LEMMA AppendAt ==
  ASSUME NEW S, NEW D, NEW buf \in [D -> S], NEW m \in S, NEW c \in Nat,
         NEW h \in D, NEW idx \in [1..(c + 1) -> D], idx[c + 1] = h,
         \A i \in 1..c : idx[i] # h
  PROVE  [i \in 1..(c + 1) |-> [buf EXCEPT ![h] = m][idx[i]]]
           = Append([i \in 1..c |-> buf[idx[i]]], m)
<1> DEFINE new == [i \in 1..(c + 1) |-> [buf EXCEPT ![h] = m][idx[i]]]
           old == [i \in 1..c |-> buf[idx[i]]]
<1>1. old \in Seq(S) /\ Len(old) = c /\ \A i \in 1..c : old[i] = buf[idx[i]]
  OBVIOUS
<1>2. /\ new \in Seq(S) /\ Len(new) = c + 1
      /\ \A i \in 1..c : new[i] = buf[idx[i]]
      /\ new[c + 1] = m
  OBVIOUS
<1> HIDE DEF new, old
<1>3. Append(old, m) \in Seq(S) /\ Len(Append(old, m)) = c + 1
  BY <1>1
<1>4. \A i \in 1..(c + 1) : new[i] = Append(old, m)[i]
  BY <1>1, <1>2
<1>5. new = Append(old, m)
  BY <1>2, <1>3, <1>4, SeqEqual
<1> QED
  BY <1>5 DEF new, old

(* Dropping the first index takes the tail.                                *)
LEMMA TailAt ==
  ASSUME NEW S, NEW D, NEW buf \in [D -> S], NEW c \in Nat \ {0},
         NEW idx \in [1..c -> D]
  PROVE  /\ [i \in 1..c |-> buf[idx[i]]] # <<>>
         /\ Head([i \in 1..c |-> buf[idx[i]]]) = buf[idx[1]]
         /\ [i \in 1..(c - 1) |-> buf[idx[i + 1]]]
              = Tail([i \in 1..c |-> buf[idx[i]]])
<1> DEFINE new == [i \in 1..(c - 1) |-> buf[idx[i + 1]]]
           old == [i \in 1..c |-> buf[idx[i]]]
<1>1. old \in Seq(S) /\ Len(old) = c /\ \A i \in 1..c : old[i] = buf[idx[i]]
  OBVIOUS
<1>2. /\ new \in Seq(S) /\ Len(new) = c - 1
      /\ \A i \in 1..(c - 1) : new[i] = buf[idx[i + 1]]
  OBVIOUS
<1> HIDE DEF new, old
<1>3. old # <<>> /\ Head(old) = buf[idx[1]]
  BY <1>1
<1>4. Tail(old) \in Seq(S) /\ Len(Tail(old)) = c - 1
  BY <1>1, <1>3
<1>5. \A i \in 1..(c - 1) : new[i] = Tail(old)[i]
  BY <1>1, <1>2, <1>3
<1>6. new = Tail(old)
  BY <1>2, <1>4, <1>5, SeqEqual
<1> QED
  BY <1>3, <1>6 DEF new, old

Slot == Msgs \cup {NoMsg}
Struct == [max_msgs : Nat, count : Nat, head : Nat, tail : Nat,
           buffer : UNION {[0..(k - 1) -> Slot] : k \in Nat}]

(* The inductive invariant: while mq is a queue its indices are inside the *)
(* ring and head is count slots past tail.                                 *)
QInv ==
  /\ mq \in Struct
  /\ QueueTypeOK
  /\ Exists => mq.head = (mq.tail + mq.count) % mq.max_msgs
  /\ ~Exists => mq.count = 0

(* The absent queue has the fields of a queue. *)
LEMMA NoQueueStruct == NoQueue \in Struct
  BY 0 \in Nat, 0..(0 - 1) = {} DEF NoQueue, Struct

(* The absent queue satisfies the invariant. *)
LEMMA InitQInv == QueueInit => QInv
  BY NoQueueStruct DEF QueueInit, NoQueue, QInv, QueueTypeOK, Exists

(* A record with these fields is the struct, and satisfies QInv when its   *)
(* indices do.                                                             *)
LEMMA StructQInv ==
  ASSUME NEW n \in Nat \ {0}, NEW c \in 0..n, NEW h \in 0..(n - 1),
         NEW t \in 0..(n - 1), NEW buf \in [0..(n - 1) -> Slot],
         h = (t + c) % n, received' \in Slot,
         mq' = [max_msgs |-> n, count |-> c, head |-> h, tail |-> t,
                buffer |-> buf]
  PROVE  QInv'
<1>1. /\ mq'.max_msgs = n /\ mq'.count = c /\ mq'.head = h /\ mq'.tail = t
      /\ mq'.buffer = buf
  OBVIOUS
<1>2. buf \in UNION {[0..(k - 1) -> Slot] : k \in Nat}
  <2>1. n \in Nat
    OBVIOUS
  <2> QED
    BY <2>1, Zenon
<1>3. n \in Nat /\ c \in Nat /\ h \in Nat /\ t \in Nat
  OBVIOUS
<1>4. mq' \in Struct
  BY <1>2, <1>3 DEF Struct
<1>5. QueueTypeOK'
  BY <1>1, <1>3 DEF QueueTypeOK, Exists, Slot
<1>6. Exists'
  BY <1>1 DEF Exists
<1>7. mq'.head = (mq'.tail + mq'.count) % mq'.max_msgs
  BY <1>1, Zenon
<1> QED
  BY <1>4, <1>5, <1>6, <1>7, Zenon DEF QInv

(* What QInv says of an existing queue.                                    *)
LEMMA QueueFacts ==
  ASSUME QInv, Exists
  PROVE  /\ mq.max_msgs \in Nat \ {0}
         /\ mq.count \in 0..mq.max_msgs
         /\ mq.tail \in 0..(mq.max_msgs - 1)
         /\ mq.head \in 0..(mq.max_msgs - 1)
         /\ mq.buffer \in [0..(mq.max_msgs - 1) -> Slot]
         /\ received \in Slot
         /\ mq.head = (mq.tail + mq.count) % mq.max_msgs
  BY DEF QInv, QueueTypeOK, Exists, Slot

(* A created queue is empty.                                               *)
LEMMA CreatedStep ==
  ASSUME QInv, ~Exists, NEW n \in Capacities, mq_created(n)
  PROVE  /\ QInv'
         /\ mq'.max_msgs = n /\ n \in Nat \ {0}
         /\ mq'.count = 0 /\ received' = received
<1> DEFINE buf == [i \in 0..(n - 1) |-> NoMsg]
<1>1. n \in Nat \ {0} /\ 0 \in 0..n /\ 0 \in 0..(n - 1)
  BY QueueAssumption DEF mq_created
<1>2. buf \in [0..(n - 1) -> Slot]
  BY DEF Slot
<1>3. mq' = [max_msgs |-> n, count |-> 0, head |-> 0, tail |-> 0, buffer |-> buf]
  BY DEF mq_created
<1>4. received' = received /\ received' \in Slot
  BY DEF mq_created, QInv, QueueTypeOK, Slot
<1> HIDE DEF buf
<1>5. 0 = (0 + 0) % n
  BY <1>1
<1>6. QInv'
  BY <1>1, <1>2, <1>3, <1>4, <1>5, StructQInv
<1> QED
  BY <1>1, <1>3, <1>4, <1>6

(* A message that fits goes behind the waiting ones.                       *)
LEMMA SendStep ==
  ASSUME QInv, Exists, NEW m \in Msgs, mq.count < mq.max_msgs, mq_send(m)
  PROVE  /\ QInv'
         /\ mq'.max_msgs = mq.max_msgs /\ received' = received
         /\ contents' = Append(contents, m)
<1> DEFINE n == mq.max_msgs
           c == mq.count
           t == mq.tail
           h == mq.head
           h2 == (h + 1) % n
           buf == mq.buffer
           buf2 == [buf EXCEPT ![h] = m]
           idx == [i \in 1..(c + 1) |-> (t + i - 1) % n]
<1>1. /\ n \in Nat \ {0} /\ c \in 0..(n - 1) /\ t \in 0..(n - 1)
      /\ h \in 0..(n - 1) /\ buf \in [0..(n - 1) -> Slot]
      /\ received \in Slot /\ c < n
  BY QueueFacts
<1>2. h = (t + c) % n
  BY QueueFacts, Zenon
<1>3. /\ mq' = [max_msgs |-> n, count |-> c + 1, head |-> h2, tail |-> t,
                buffer |-> buf2]
      /\ received' = received
  <2>1. mq' = [mq EXCEPT !.buffer[mq.head] = m,
                         !.head = (@ + 1) % mq.max_msgs, !.count = @ + 1]
    BY <1>1 DEF mq_send
  <2> HIDE DEF h2
  <2>2. h2 = (mq.head + 1) % mq.max_msgs
    BY Zenon DEF h2
  <2>3. mq \in Struct /\ received' = received
    BY <1>1 DEF QInv, mq_send
  <2> QED
    BY <2>1, <2>2, <2>3 DEF Struct
<1>4. h2 \in 0..(n - 1) /\ h2 = (t + (c + 1)) % n
  <2> HIDE DEF n, c, t, h
  <2> QED
    BY <1>1, <1>2, NextHead, Zenon
<1>5. c \in 0..n /\ c \in Nat /\ c + 1 \in 0..n
  BY <1>1
<1>6. \A i \in 1..c : (t + i - 1) % n \in 0..(n - 1) /\ (t + i - 1) % n # h
  <2> HIDE DEF n, c, t, h
  <2> QED
    BY <1>1, <1>2, <1>5, WaitingSlots, Zenon
<1>7. (t + (c + 1) - 1) % n = h
  <2> HIDE DEF n, c, t, h
  <2>1. t + (c + 1) - 1 = t + c
    BY <1>1
  <2> QED
    BY <1>2, <2>1, Zenon
<1>8. buf2 \in [0..(n - 1) -> Slot]
  BY <1>1 DEF Slot
<1>9. QInv'
  <2> HIDE DEF n, c, t, h, h2, buf, buf2
  <2>1. received' \in Slot
    BY <1>1, <1>3
  <2> QED
    BY <1>1, <1>3, <1>4, <1>5, <1>8, <2>1, StructQInv, Zenon
<1>10. /\ idx \in [1..(c + 1) -> 0..(n - 1)]
       /\ idx[c + 1] = h
       /\ \A i \in 1..c : idx[i] # h
  <2> HIDE DEF n, c, t, h
  <2>1. c + 1 \in 1..(c + 1)
    BY <1>5
  <2>2. \A i \in 1..(c + 1) : i = c + 1 \/ i \in 1..c
    BY <1>5
  <2>3. \A i \in 1..c : i \in 1..(c + 1)
    BY <1>5
  <2>4. \A i \in 1..(c + 1) : (t + i - 1) % n \in 0..(n - 1)
    BY <1>1, <1>6, <1>7, <2>2, Zenon
  <2>5. idx[c + 1] = h
    BY <1>7, <2>1, Zenon
  <2> QED
    BY <1>6, <2>3, <2>4, <2>5, Zenon
<1>11. contents = [i \in 1..c |-> buf[idx[i]]]
  <2> HIDE DEF n, c, t, buf
  <2>1. \A i \in 1..c : i \in 1..(c + 1)
    BY <1>5
  <2>2. contents = [i \in 1..c |-> buf[(t + i - 1) % n]]
    BY Zenon DEF contents, n, c, t, buf
  <2> QED
    BY <2>1, <2>2, Zenon
<1>12. contents' = [i \in 1..(c + 1) |-> buf2[idx[i]]]
  <2>1. /\ mq'.count = c + 1 /\ mq'.tail = t /\ mq'.max_msgs = n
        /\ mq'.buffer = buf2
    <3> HIDE DEF n, c, t, h2, buf2
    <3> QED
      BY <1>3
  <2> HIDE DEF n, c, t, buf2
  <2>2. contents' = [i \in 1..(c + 1) |-> buf2[(t + i - 1) % n]]
    BY <2>1, Zenon DEF contents
  <2> QED
    BY <2>2, Zenon
<1>13. contents' = Append(contents, m)
  <2> HIDE DEF n, c, t, h, buf, idx
  <2>1. m \in Slot
    BY DEF Slot
  <2>2. [i \in 1..(c + 1) |-> [buf EXCEPT ![h] = m][idx[i]]]
           = Append([i \in 1..c |-> buf[idx[i]]], m)
    <3> DEFINE D == 0..(n - 1)
    <3>1. /\ buf \in [D -> Slot] /\ c \in Nat /\ h \in D
          /\ idx \in [1..(c + 1) -> D] /\ idx[c + 1] = h
          /\ \A i \in 1..c : idx[i] # h
      BY <1>1, <1>5, <1>10
    <3> HIDE DEF D
    <3> QED
      BY <2>1, <3>1, AppendAt
  <2> QED
    BY <1>11, <1>12, <2>2, Zenon
<1>14. mq'.max_msgs = n
  <2> HIDE DEF n, c, t, h2, buf2
  <2> QED
    BY <1>3
<1> QED
  BY <1>3, <1>9, <1>13, <1>14

(* The oldest message comes out.                                           *)
LEMMA ReceiveStep ==
  ASSUME QInv, Exists, mq.count # 0, mq_receive
  PROVE  /\ QInv'
         /\ mq'.max_msgs = mq.max_msgs
         /\ contents # <<>>
         /\ received' = Head(contents)
         /\ contents' = Tail(contents)
<1> DEFINE n == mq.max_msgs
           c == mq.count
           t == mq.tail
           h == mq.head
           t2 == (t + 1) % n
           buf == mq.buffer
           idx == [i \in 1..c |-> (t + i - 1) % n]
<1>1. /\ n \in Nat \ {0} /\ c \in 0..n /\ c \in Nat \ {0} /\ t \in 0..(n - 1)
      /\ h \in 0..(n - 1) /\ buf \in [0..(n - 1) -> Slot]
  BY QueueFacts
<1>2. h = (t + c) % n
  BY QueueFacts, Zenon
<1>3. /\ mq' = [max_msgs |-> n, count |-> c - 1, head |-> h, tail |-> t2,
                buffer |-> buf]
      /\ received' = buf[t]
  <2>1. mq' = [mq EXCEPT !.tail = (@ + 1) % mq.max_msgs, !.count = @ - 1]
    BY DEF mq_receive
  <2> HIDE DEF t2
  <2>2. t2 = (mq.tail + 1) % mq.max_msgs
    BY Zenon DEF t2
  <2>3. mq \in Struct /\ received' = mq.buffer[mq.tail]
    BY DEF QInv, mq_receive
  <2> QED
    BY <2>1, <2>2, <2>3 DEF Struct
<1>4. ASSUME NEW j \in 0..(c - 1)
      PROVE  t2 \in 0..(n - 1) /\ (t2 + j) % n = (t + 1 + j) % n
  <2> HIDE DEF n, c, t
  <2>1. j \in 0..(n - 1)
    BY <1>1
  <2> QED
    BY <1>1, <2>1, NextTail, Zenon
<1>5. t2 \in 0..(n - 1) /\ h = (t2 + (c - 1)) % n
  <2> HIDE DEF n, c, t, h, t2
  <2>1. c - 1 \in 0..(c - 1) /\ t + 1 + (c - 1) = t + c
    BY <1>1
  <2> QED
    BY <1>2, <1>4, <2>1, Zenon
<1>6. \A i \in 1..c : (t + i - 1) % n \in 0..(n - 1)
  <2> HIDE DEF n, c, t
  <2> QED
    BY <1>1, WaitingSlots, Zenon
<1>7. QInv'
  <2> HIDE DEF n, c, t, h, t2, buf
  <2>1. c - 1 \in 0..n
    BY <1>1
  <2>2. received' \in Slot
    BY <1>1, <1>3
  <2> QED
    BY <1>1, <1>3, <1>5, <2>1, <2>2, StructQInv, Zenon
<1>8. idx \in [1..c -> 0..(n - 1)]
  <2> HIDE DEF n, c, t
  <2> QED
    BY <1>6, Zenon
<1>9. idx[1] = t
  <2> HIDE DEF n, c, t
  <2>1. 1 \in 1..c /\ t + 1 - 1 = t /\ t \in 0..(2 * n - 1) /\ t < n
    BY <1>1
  <2>2. t % n = t
    BY <1>1, <2>1, RingIndex, Zenon
  <2> QED
    BY <2>1, <2>2, Zenon
<1>10. contents = [i \in 1..c |-> buf[idx[i]]]
  <2> HIDE DEF n, c, t, buf
  <2>1. contents = [i \in 1..c |-> buf[(t + i - 1) % n]]
    BY Zenon DEF contents, n, c, t, buf
  <2> QED
    BY <2>1, Zenon
<1>11. contents' = [i \in 1..(c - 1) |-> buf[idx[i + 1]]]
  <2>1. /\ mq'.count = c - 1 /\ mq'.tail = t2 /\ mq'.max_msgs = n
        /\ mq'.buffer = buf
    <3> HIDE DEF n, c, t, h, t2, buf
    <3> QED
      BY <1>3
  <2> HIDE DEF n, c, t, t2, buf
  <2>2. contents' = [i \in 1..(c - 1) |-> buf[(t2 + i - 1) % n]]
    BY <2>1, Zenon DEF contents
  <2>3. ASSUME NEW i \in 1..(c - 1)
        PROVE  (t2 + i - 1) % n = idx[i + 1]
    <3>1. /\ i - 1 \in 0..(c - 1) /\ i + 1 \in 1..c
          /\ t + 1 + (i - 1) = t + (i + 1) - 1
      BY <1>1
    <3>2. t2 + (i - 1) = t2 + i - 1
      BY <1>1, <1>5
    <3>3. (t2 + (i - 1)) % n = (t + 1 + (i - 1)) % n
      BY <1>4, <3>1, Zenon
    <3> QED
      BY <3>1, <3>2, <3>3, Zenon
  <2> QED
    BY <2>2, <2>3, Zenon
<1>12. /\ contents # <<>> /\ Head(contents) = buf[idx[1]]
       /\ contents' = Tail(contents)
  <2> HIDE DEF n, c, t, h, buf, idx
  <2>1. /\ [i \in 1..c |-> buf[idx[i]]] # <<>>
        /\ Head([i \in 1..c |-> buf[idx[i]]]) = buf[idx[1]]
        /\ [i \in 1..(c - 1) |-> buf[idx[i + 1]]]
             = Tail([i \in 1..c |-> buf[idx[i]]])
    <3> DEFINE D == 0..(n - 1)
    <3>1. buf \in [D -> Slot] /\ c \in Nat \ {0} /\ idx \in [1..c -> D]
      BY <1>1, <1>8
    <3> HIDE DEF D
    <3> QED
      BY <3>1, TailAt
  <2> QED
    BY <1>10, <1>11, <2>1, Zenon
<1>13. mq'.max_msgs = n
  <2> HIDE DEF n, c, t, h, t2, buf
  <2> QED
    BY <1>3
<1> QED
  BY <1>3, <1>7, <1>9, <1>12, <1>13

(* Every step keeps QInv and is a step or a stutter of the bounded FIFO.   *)
LEMMA QueueStep ==
  QInv /\ [QueueNext]_mqVars =>
    QInv' /\ [Fifo!Next]_<<contents, mq.max_msgs, received>>
<1> SUFFICES ASSUME QInv, [QueueNext]_mqVars
             PROVE  QInv' /\ [Fifo!Next]_<<contents, mq.max_msgs, received>>
  OBVIOUS
<1>0. CASE UNCHANGED mqVars
  BY <1>0 DEF mqVars, QInv, QueueTypeOK, Exists, contents
<1>1. ASSUME ~Exists, NEW n \in Capacities, mq_created(n)
      PROVE  QInv' /\ Fifo!Next
  <2>1. /\ QInv'
        /\ mq'.max_msgs = n /\ n \in Nat \ {0}
        /\ mq'.count = 0 /\ received' = received
    BY <1>1, CreatedStep
  <2>2. mq.count = 0 /\ mq.max_msgs = 0
    BY <1>1 DEF QInv, Exists
  <2>3. contents = <<>> /\ contents' = <<>>
    BY <2>1, <2>2 DEF contents
  <2> QED
    BY <2>1, <2>2, <2>3 DEF Fifo!Next, Fifo!Create
<1>2. ASSUME Exists, NEW m \in Msgs, mq_send(m)
      PROVE  QInv' /\ [Fifo!Next]_<<contents, mq.max_msgs, received>>
  <2>1. CASE mq.count >= mq.max_msgs
    <3>1. UNCHANGED mqVars
      BY <1>2, <2>1 DEF mq_send, QInv, QueueTypeOK
    <3> QED
      BY <1>0, <3>1
  <2>2. CASE mq.count < mq.max_msgs
    <3>1. /\ QInv'
          /\ mq'.max_msgs = mq.max_msgs /\ received' = received
          /\ contents' = Append(contents, m)
      BY <1>2, <2>2, SendStep
    <3>2. Len(contents) = mq.count
      BY DEF contents, QInv, QueueTypeOK
    <3> QED
      BY <1>2, <2>2, <3>1, <3>2 DEF Fifo!Next, Fifo!Send
  <2> QED
    BY <2>1, <2>2 DEF QInv, QueueTypeOK
<1>3. ASSUME Exists, mq_receive
      PROVE  QInv' /\ [Fifo!Next]_<<contents, mq.max_msgs, received>>
  <2>1. CASE mq.count = 0
    BY <1>0, <1>3, <2>1 DEF mq_receive
  <2>2. CASE mq.count # 0
    BY <1>3, <2>2, ReceiveStep DEF Fifo!Next, Fifo!Receive
  <2> QED
    BY <2>1, <2>2
<1>4. ASSUME Exists, mq_destroyed
      PROVE  QInv' /\ Fifo!Next
  <2>1. /\ mq'.max_msgs = 0 /\ mq'.count = 0 /\ received' = received
        /\ mq.max_msgs # 0
    BY <1>4 DEF mq_destroyed, NoQueue, Exists
  <2>2. QInv'
    BY <1>4, NoQueueStruct DEF mq_destroyed, NoQueue, QInv, QueueTypeOK, Exists
  <2>3. contents' = <<>>
    BY <2>1 DEF contents
  <2> QED
    BY <2>1, <2>2, <2>3 DEF Fifo!Next, Fifo!Destroy
<1> QED
  BY <1>0, <1>1, <1>2, <1>3, <1>4 DEF QueueNext

(* message_queue.c implements a bounded FIFO: for every capacity, through  *)
(* every wrap of its indices.                                              *)
THEOREM QueueIsFifo == QueueSpec => ImplementsFifo
<1>1. QueueInit => Fifo!Init
  BY QueueAssumption DEF QueueInit, NoQueue, contents, Fifo!Init
<1> QED
  BY <1>1, InitQInv, QueueStep, PTL DEF QueueSpec, ImplementsFifo, Fifo!Spec

(* The ring buffer's indices and count stay in range.                      *)
THEOREM QueueTypeCorrect == QueueSpec => []QueueTypeOK
<1>1. QInv => QueueTypeOK
  BY DEF QInv
<1> QED
  BY <1>1, InitQInv, QueueStep, PTL DEF QueueSpec

-----------------------------------------------------------------------------
(* The objects on the heap.                                                 *)

Objects == {"mq", "buffer", "mutex", "sem"}

(* Objects that are placed are in allocated blocks, each in its own.       *)
Placement(a, h) ==
  /\ a \in [Objects -> Int]
  /\ \A o \in Objects : a[o] # Nowhere =>
       /\ a[o] \in AllocSet(h)
       /\ \A q \in Objects : q # o => a[q] # a[o]

MutexInv == MutexExclusive /\ mutex.locked \in BOOLEAN

SemInv ==
  /\ sem \in [count : Nat, max_count : Nat]
  /\ taken \in Int /\ permits \in Nat
  /\ PermitsConserved

(* The queue's struct and buffer exist exactly while MessageQueue's queue  *)
(* does.  Without this a send could reach a queue that is not there.       *)
QueuePlaced == (Placed("mq") <=> Exists) /\ (Placed("mq") <=> Placed("buffer"))

IInv ==
  /\ HeapInv /\ Placement(at, heap)
  /\ QInv /\ QueuePlaced
  /\ MutexInv
  /\ SemInv

-----------------------------------------------------------------------------
(* Placement.                                                              *)

(* Objects stay placed while their blocks stay allocated. *)
LEMMA PlacementKept ==
  ASSUME NEW a, NEW g, NEW h, Placement(a, h),
         \A o \in Objects : a[o] # Nowhere => a[o] \in AllocSet(g)
  PROVE  Placement(a, g)
  BY DEF Placement

(* An object placed in a newly allocated block shares it with no other. *)
LEMMA PlacementAdded ==
  ASSUME NEW a, NEW g, NEW h, Placement(a, h), NEW o \in Objects, NEW b \in Addr,
         b \notin AllocSet(h), b \in AllocSet(g), Keeps(g, h, AllocSet(h))
  PROVE  LET e == [a EXCEPT ![o] = b]
         IN  /\ Placement(e, g)
             /\ e[o] # Nowhere
             /\ \A q \in Objects : q # o => e[q] = a[q]
<1> DEFINE e == [a EXCEPT ![o] = b]
<1>1. a \in [Objects -> Int] /\ b \in Int /\ b # Nowhere
  BY Sizes4 DEF Placement, Addr, Nowhere
<1>2. /\ e \in [Objects -> Int] /\ e[o] = b
      /\ \A q \in Objects : q # o => e[q] = a[q]
  BY <1>1
<1> HIDE DEF e
<1>3. \A q \in Objects : a[q] # Nowhere => a[q] \in AllocSet(h) /\ a[q] \in AllocSet(g)
  BY DEF Placement, Keeps
<1>4. \A q \in Objects : a[q] # b
  BY <1>1, <1>3
<1>5. ASSUME NEW q \in Objects, e[q] # Nowhere
      PROVE  e[q] \in AllocSet(g) /\ \A r \in Objects : r # q => e[r] # e[q]
  BY <1>2, <1>3, <1>4, <1>5 DEF Placement
<1> QED
  BY <1>1, <1>2, <1>5 DEF Placement, e

(* Freeing one object's block leaves the others in theirs. *)
LEMMA PlacementRemoved ==
  ASSUME NEW a, NEW g, NEW h, Placement(a, h), NEW o \in Objects,
         a[o] # Nowhere, AllocSet(g) = AllocSet(h) \ {a[o]}
  PROVE  LET e == [a EXCEPT ![o] = Nowhere]
         IN  /\ Placement(e, g)
             /\ e[o] = Nowhere
             /\ \A q \in Objects : q # o => e[q] = a[q]
<1> DEFINE e == [a EXCEPT ![o] = Nowhere]
<1>1. a \in [Objects -> Int] /\ Nowhere \in Int
  BY DEF Placement, Nowhere
<1>2. /\ e \in [Objects -> Int] /\ e[o] = Nowhere
      /\ \A q \in Objects : q # o => e[q] = a[q]
  BY <1>1
<1> HIDE DEF e
<1>3. ASSUME NEW q \in Objects, e[q] # Nowhere
      PROVE  e[q] \in AllocSet(g) /\ \A r \in Objects : r # q => e[r] # e[q]
  <2>1. q # o /\ e[q] = a[q] /\ a[q] \in AllocSet(h) /\ a[q] # a[o]
    BY <1>2, <1>3 DEF Placement
  <2>2. ASSUME NEW r \in Objects, r # q PROVE e[r] # e[q]
    BY <1>2, <1>3, <2>1, <2>2 DEF Placement
  <2> QED
    BY <2>1, <2>2
<1> QED
  BY <1>2, <1>3 DEF Placement, e

(* The size a request is rounded up to is a multiple of four. *)
LEMMA AlignedRequest ==
  ASSUME NEW n \in 0..(SIZE_MOD - 1)
  PROVE  align_size(n) \in Nat /\ align_size(n) % 4 = 0
  BY AlignFacts

(* The sizes of the three structs are sizes one may ask for. *)
LEMMA ObjectSizes ==
  /\ SIZEOF_MQ \in 0..(SIZE_MOD - 1) /\ SIZEOF_MQ \in Nat \ {0}
  /\ SIZEOF_MUTEX \in 0..(SIZE_MOD - 1) /\ SIZEOF_MUTEX \in Nat \ {0}
  /\ SIZEOF_SEM \in 0..(SIZE_MOD - 1) /\ SIZEOF_SEM \in Nat \ {0}
  BY IpcAssumption, Sizes4

-----------------------------------------------------------------------------
(* The heap calls of the objects.                                          *)

(* A call that touches no memory keeps the heap and the objects' places. *)
LEMMA HeapUnchanged ==
  ASSUME HeapInv, Placement(at, heap), UNCHANGED <<heapVars, at>>
  PROVE  HeapInv' /\ Placement(at, heap)' /\ at' = at
<1>1. heap' = heap /\ at' = at /\ UNCHANGED heapVars
  BY DEF heapVars
<1>2. StepFacts({})
  BY <1>1, StutterFacts
<1> QED
  BY <1>1, <1>2 DEF StepFacts, Placement, AllocSet

(* Creating a one-block object. *)
LEMMA PlaceFacts ==
  ASSUME HeapInv, Placement(at, heap), NEW o \in Objects,
         NEW n \in 1..(SIZE_MOD - 1), Place(o, n)
  PROVE  /\ HeapInv' /\ Placement(at, heap)'
         /\ \A q \in Objects : q # o => at'[q] = at[q]
<1> DEFINE s == align_size(n)
           b == find_best_fit(heap, s)
           g == Allocate(heap, s)
           e == [asked EXCEPT ![b] = n]
           d == [at EXCEPT ![o] = b]
<1>1. /\ Fits(heap, s) # {} /\ heap' = g /\ asked' = e /\ freed' = {}
      /\ at' = d
  BY DEF Place
<1>2. s \in Nat /\ s % 4 = 0 /\ n \in Nat \ {0}
  BY AlignedRequest, Sizes4
<1>3. Ledger(heap, asked)
  BY DEF HeapInv
<1> HIDE DEF s
<1>4. /\ b \in Addr /\ b \notin AllocSet(heap)
      /\ Ledger(g, e) /\ AllocSet(g) = AllocSet(heap) \cup {b}
      /\ Keeps(g, heap, AllocSet(heap))
  <2>1. Fits(heap, s) # {}
    BY <1>1
  <2> QED
    BY <1>2, <1>3, <2>1, AllocateLedger
<1> HIDE DEF b, g
<1>5. Placement(d, g) /\ \A q \in Objects : q # o => d[q] = at[q]
  BY <1>4, PlacementAdded
<1> HIDE DEF d, e
<1>6. HeapInv'
  BY <1>1, <1>4, LedgerStep
<1> QED
  BY <1>1, <1>5, <1>6 DEF Placement, AllocSet

(* Destroying a one-block object. *)
LEMMA UnplaceFacts ==
  ASSUME HeapInv, Placement(at, heap), NEW o \in Objects, Placed(o), Unplace(o)
  PROVE  /\ HeapInv' /\ Placement(at, heap)'
         /\ \A q \in Objects : q # o => at'[q] = at[q]
<1> DEFINE b == at[o]
           g == Release(heap, b)
           e == [asked EXCEPT ![b] = 0]
           d == [at EXCEPT ![o] = Nowhere]
<1>1. /\ heap' = g /\ asked' = e /\ freed' = freed \cup {b} /\ at' = d
  BY DEF Unplace, rtos_free
<1>2. /\ Ledger(heap, asked) /\ freed \subseteq Addr
      /\ \A x \in freed : heap.is_free[x]
      /\ b \in AllocSet(heap) /\ at[o] # Nowhere
  BY DEF HeapInv, Placement, Placed
<1>3. /\ b \in Addr /\ Ledger(g, e) /\ AllocSet(g) = AllocSet(heap) \ {b}
      /\ g.is_free = [heap.is_free EXCEPT ![b] = TRUE]
  BY <1>2, ReleaseLedger
<1>4. heap.is_free \in [Addr -> BOOLEAN]
  BY <1>2, RecFacts DEF Ledger, Sound, Layout
<1> HIDE DEF g, e
<1>5. Placement(d, g) /\ \A q \in Objects : q # o => d[q] = at[q]
  BY <1>2, <1>3, PlacementRemoved
<1> HIDE DEF d
<1>6. freed' \subseteq Addr /\ \A x \in freed' : g.is_free[x]
  BY <1>1, <1>2, <1>3, <1>4
<1>7. HeapInv'
  BY <1>1, <1>3, <1>6, LedgerStep
<1> QED
  BY <1>1, <1>5, <1>7 DEF Placement, AllocSet

(* Both of the queue's blocks, or neither.                                 *)
LEMMA QueueCreated ==
  ASSUME IInv, NEW n \in Capacities, ~Placed("mq"), mq_create(n)
  PROVE  /\ HeapInv' /\ Placement(at, heap)'
         /\ \/ at' = at /\ UNCHANGED mqVars
            \/ /\ mq_created(n)
               /\ Placed("mq")' /\ Placed("buffer")'
               /\ at'["mutex"] = at["mutex"] /\ at'["sem"] = at["sem"]
<1> DEFINE need   == align_size(SIZEOF_MQ)
           bytes  == (MsgSize * n) % SIZE_MOD
           room   == align_size(bytes)
           struct == find_best_fit(heap, need)
           grown  == Allocate(heap, need)
           buf    == find_best_fit(grown, room)
           final  == Allocate(grown, room)
           e      == [asked EXCEPT ![struct] = SIZEOF_MQ]
           e2     == [e EXCEPT ![buf] = bytes]
           d      == [at EXCEPT !["mq"] = struct]
           d2     == [d EXCEPT !["buffer"] = buf]
<1>0. /\ HeapInv /\ Placement(at, heap) /\ Ledger(heap, asked)
      /\ at \in [Objects -> Int]
  BY DEF IInv, HeapInv, Placement
<1>1. need \in Nat /\ need % 4 = 0 /\ SIZEOF_MQ \in Nat \ {0}
  BY ObjectSizes, AlignedRequest
<1>2. bytes \in 0..(SIZE_MOD - 1)
  <2>1. MsgSize * n \in Int
    BY IpcAssumption, QueueAssumption
  <2> QED
    BY <2>1, ModFacts, Sizes4
<1>3. room \in Nat /\ room % 4 = 0
  BY <1>2, AlignedRequest
<1>4. \/ UNCHANGED <<heapVars, mqVars, at>>
      \/ /\ Fits(heap, need) # {}
         /\ heap' = Release(grown, struct) /\ asked' = asked /\ freed' = {}
         /\ UNCHANGED mqVars /\ at' = at
      \/ /\ Fits(heap, need) # {} /\ bytes # 0 /\ Fits(grown, room) # {}
         /\ heap' = final
         /\ asked' = [asked EXCEPT ![struct] = SIZEOF_MQ, ![buf] = bytes]
         /\ freed' = {}
         /\ at' = [at EXCEPT !["mq"] = struct, !["buffer"] = buf]
         /\ mq_created(n)
  BY DEF mq_create
<1> HIDE DEF need, bytes, room
<1>5. CASE UNCHANGED <<heapVars, mqVars, at>>
  <2>1. UNCHANGED <<heapVars, at>> /\ UNCHANGED mqVars
    BY <1>5
  <2> QED
    BY <1>0, <2>1, HeapUnchanged
<1>6. CASE /\ Fits(heap, need) # {}
           /\ heap' = Release(grown, struct) /\ asked' = asked /\ freed' = {}
           /\ UNCHANGED mqVars /\ at' = at
  <2> DEFINE g == Release(grown, struct)
  <2>1. Ledger(g, asked) /\ Keeps(g, heap, AllocSet(heap))
    <3>1. Fits(heap, need) # {}
      BY <1>6
    <3> QED
      BY <1>0, <1>1, <3>1, AllocateRelease
  <2>2. heap' = g
    BY <1>6
  <2> HIDE DEF g
  <2>3. HeapInv'
    BY <1>6, <2>1, <2>2, LedgerStep
  <2>4. Placement(at, g)
    <3>1. \A o \in Objects : at[o] # Nowhere => at[o] \in AllocSet(g)
      BY <1>0, <2>1 DEF Placement, Keeps
    <3> QED
      BY <1>0, <3>1, PlacementKept
  <2>5. Placement(at, heap)'
    BY <1>6, <2>2, <2>4 DEF Placement, AllocSet
  <2> QED
    BY <1>6, <2>3, <2>5
<1>7. CASE /\ Fits(heap, need) # {} /\ bytes # 0 /\ Fits(grown, room) # {}
           /\ heap' = final
           /\ asked' = [asked EXCEPT ![struct] = SIZEOF_MQ, ![buf] = bytes]
           /\ freed' = {}
           /\ at' = [at EXCEPT !["mq"] = struct, !["buffer"] = buf]
           /\ mq_created(n)
  <2>1. /\ Fits(heap, need) # {} /\ Fits(grown, room) # {} /\ bytes \in Nat \ {0}
    BY <1>2, <1>7, Sizes4
  <2>2. heap' = final /\ asked' = e2 /\ freed' = {} /\ at' = d2
    BY <1>7
  <2>3. /\ struct \in Addr /\ struct \notin AllocSet(heap)
        /\ Ledger(grown, e) /\ AllocSet(grown) = AllocSet(heap) \cup {struct}
        /\ Keeps(grown, heap, AllocSet(heap))
    BY <1>0, <1>1, <2>1, AllocateLedger
  <2> HIDE DEF struct, grown, e
  <2>4. /\ buf \in Addr /\ buf \notin AllocSet(grown)
        /\ Ledger(final, e2) /\ AllocSet(final) = AllocSet(grown) \cup {buf}
        /\ Keeps(final, grown, AllocSet(grown))
    BY <1>3, <2>1, <2>3, AllocateLedger
  <2> HIDE DEF buf, final, e2
  <2>5. /\ Placement(d, grown) /\ d["mq"] # Nowhere
        /\ \A q \in Objects : q # "mq" => d[q] = at[q]
    <3>1. "mq" \in Objects /\ struct \in AllocSet(grown)
      BY <2>3 DEF Objects
    <3>2. Placement(at, heap) /\ struct \in Addr /\ struct \notin AllocSet(heap)
      BY <1>0, <2>3
    <3>3. Keeps(grown, heap, AllocSet(heap))
      BY <2>3
    <3> QED
      BY <3>1, <3>2, <3>3, PlacementAdded
  <2> HIDE DEF d
  <2>6. /\ Placement(d2, final) /\ d2["buffer"] # Nowhere
        /\ \A q \in Objects : q # "buffer" => d2[q] = d[q]
    <3>1. "buffer" \in Objects /\ buf \in AllocSet(final)
      BY <2>4 DEF Objects
    <3>2. Placement(d, grown) /\ buf \in Addr /\ buf \notin AllocSet(grown)
      BY <2>4, <2>5
    <3>3. Keeps(final, grown, AllocSet(grown))
      BY <2>4
    <3> QED
      BY <3>1, <3>2, <3>3, PlacementAdded
  <2> HIDE DEF d2
  <2>7. HeapInv'
    BY <2>2, <2>4, LedgerStep
  <2>8. Placement(at, heap)'
    BY <2>2, <2>6 DEF Placement, AllocSet
  <2>9. /\ at'["mq"] # Nowhere /\ at'["buffer"] # Nowhere
        /\ at'["mutex"] = at["mutex"] /\ at'["sem"] = at["sem"]
    BY <2>2, <2>5, <2>6 DEF Objects
  <2> QED
    BY <1>7, <2>7, <2>8, <2>9 DEF Placed
<1> QED
  BY <1>4, <1>5, <1>6, <1>7

(* mq_destroy frees both blocks of the queue. *)
LEMMA QueueDestroyed ==
  ASSUME IInv, Placed("mq"), mq_destroy
  PROVE  /\ HeapInv' /\ Placement(at, heap)'
         /\ ~Placed("mq")' /\ ~Placed("buffer")'
         /\ at'["mutex"] = at["mutex"] /\ at'["sem"] = at["sem"]
<1> DEFINE b == at["buffer"]
           s == at["mq"]
           g == Release(heap, b)
           e == [asked EXCEPT ![b] = 0]
           d == [at EXCEPT !["buffer"] = Nowhere]
           final == Release(g, s)
           e2 == [e EXCEPT ![s] = 0]
           d2 == [d EXCEPT !["mq"] = Nowhere]
<1>1. /\ heap' = final /\ asked' = e2 /\ freed' = freed \cup {b, s}
  BY DEF mq_destroy
<1>2. /\ Ledger(heap, asked) /\ freed \subseteq Addr
      /\ \A x \in freed : heap.is_free[x]
      /\ Placement(at, heap) /\ at \in [Objects -> Int]
      /\ at["buffer"] # Nowhere /\ at["mq"] # Nowhere
  BY DEF IInv, HeapInv, Placement, QueuePlaced, Placed
<1>3. "buffer" \in Objects /\ "mq" \in Objects /\ "buffer" # "mq"
  BY DEF Objects
<1>4. b \in AllocSet(heap) /\ s \in AllocSet(heap) /\ b # s
  BY <1>2, <1>3 DEF Placement
<1>5. at' = d2
  <2>1. at' = [at EXCEPT !["mq"] = Nowhere, !["buffer"] = Nowhere]
    BY DEF mq_destroy
  <2> QED
    BY <1>2, <1>3, <2>1
<1>6. /\ b \in Addr /\ Ledger(g, e) /\ AllocSet(g) = AllocSet(heap) \ {b}
      /\ g.is_free = [heap.is_free EXCEPT ![b] = TRUE]
  BY <1>2, <1>4, ReleaseLedger
<1>7. heap.is_free \in [Addr -> BOOLEAN]
  BY <1>2, RecFacts DEF Ledger, Sound, Layout
<1>8. /\ Placement(d, g) /\ d["buffer"] = Nowhere
      /\ \A q \in Objects : q # "buffer" => d[q] = at[q]
  BY <1>2, <1>3, <1>6, PlacementRemoved
<1> HIDE DEF g, e, d
<1>9. s \in AllocSet(g) /\ d["mq"] = s /\ d["mq"] # Nowhere
  BY <1>2, <1>3, <1>4, <1>6, <1>8
<1>10. /\ s \in Addr /\ Ledger(final, e2) /\ AllocSet(final) = AllocSet(g) \ {s}
       /\ final.is_free = [g.is_free EXCEPT ![s] = TRUE]
  BY <1>6, <1>9, ReleaseLedger
<1> HIDE DEF b, s, final, e2
<1>11. /\ Placement(d2, final) /\ d2["mq"] = Nowhere
       /\ \A q \in Objects : q # "mq" => d2[q] = d[q]
  BY <1>3, <1>8, <1>9, <1>10, PlacementRemoved
<1> HIDE DEF d2
<1>12. freed' \subseteq Addr /\ \A x \in freed' : final.is_free[x]
  BY <1>1, <1>2, <1>4, <1>6, <1>7, <1>10
<1>13. HeapInv'
  BY <1>1, <1>10, <1>12, LedgerStep
<1>14. Placement(at, heap)'
  BY <1>1, <1>5, <1>11 DEF Placement, AllocSet
<1>15. /\ at'["mq"] = Nowhere /\ at'["buffer"] = Nowhere
       /\ at'["mutex"] = at["mutex"] /\ at'["sem"] = at["sem"]
  BY <1>5, <1>8, <1>11 DEF Objects
<1> QED
  BY <1>13, <1>14, <1>15 DEF Placed

-----------------------------------------------------------------------------
(* Mutex, semaphore and queue.                                             *)

(* Locking and unlocking keep the owner and the count in step with the
   callers. *)
LEMMA MutexStep ==
  ASSUME MutexInv, NEW id, mutex_lock(id) \/ mutex_unlock(id)
  PROVE  MutexInv'
<1>1. CASE UNCHANGED mutexVars
  BY <1>1 DEF MutexInv, MutexExclusive, mutexVars
<1>2. CASE /\ ~mutex.locked
           /\ mutex' = [locked |-> TRUE, owner_task_id |-> id]
           /\ lockers' = lockers \cup {id}
  BY <1>2 DEF MutexInv, MutexExclusive
<1>3. CASE /\ mutex.locked /\ mutex.owner_task_id = id
           /\ mutex' = Unlocked /\ lockers' = lockers \ {id}
  BY <1>3 DEF MutexInv, MutexExclusive, Unlocked
<1> QED
  BY <1>1, <1>2, <1>3 DEF mutex_lock, mutex_unlock

(* Taking and giving keep the count of permits. *)
LEMMA SemStep ==
  ASSUME SemInv, sem_take \/ sem_give
  PROVE  SemInv'
<1>1. CASE UNCHANGED semVars
  BY <1>1 DEF SemInv, PermitsConserved, semVars
<1>2. CASE /\ sem.count # 0 /\ sem' = [sem EXCEPT !.count = @ - 1]
           /\ taken' = taken + 1 /\ permits' = permits
  BY <1>2 DEF SemInv, PermitsConserved
<1>3. CASE /\ sem.count < sem.max_count /\ sem' = [sem EXCEPT !.count = @ + 1]
           /\ taken' = taken - 1 /\ permits' = permits
  BY <1>3 DEF SemInv, PermitsConserved
<1> QED
  BY <1>1, <1>2, <1>3 DEF sem_take, sem_give

(* A new mutex is nobody's. *)
LEMMA UnlockedInv ==
  ASSUME mutex' = Unlocked, lockers' = {}
  PROVE  MutexInv'
  BY DEF MutexInv, MutexExclusive, Unlocked

(* A new semaphore has its initial permits. *)
LEMMA FreshSemInv ==
  ASSUME NEW i \in Nat, NEW max \in Nat,
         sem' = [count |-> i, max_count |-> max], taken' = 0, permits' = i
  PROVE  SemInv'
  BY DEF SemInv, PermitsConserved

(* Other calls leave the mutex alone. *)
LEMMA MutexKept ==
  ASSUME MutexInv, UNCHANGED mutexVars
  PROVE  MutexInv'
  BY DEF MutexInv, MutexExclusive, mutexVars

(* Other calls leave the semaphore alone. *)
LEMMA SemKept ==
  ASSUME SemInv, UNCHANGED semVars
  PROVE  SemInv'
  BY DEF SemInv, PermitsConserved, semVars

(* A queue that keeps its blocks and its capacity stays a placed queue. *)
LEMMA QueuePlacedKept ==
  ASSUME QueuePlaced, at'["mq"] = at["mq"], at'["buffer"] = at["buffer"],
         mq'.max_msgs = mq.max_msgs
  PROVE  QueuePlaced'
  BY DEF QueuePlaced, Placed, Exists

(* To the queue, a step of the whole system is a step of MessageQueue.     *)
LEMMA QueueRefinement ==
  ASSUME IInv, [IpcNext]_ipcVars
  PROVE  [QueueNext]_mqVars
<1>0. Placed("mq") <=> Exists
  BY DEF IInv, QueuePlaced
<1>1. ASSUME ~Placed("mq"), NEW n \in Capacities, mq_create(n)
      PROVE  [QueueNext]_mqVars
  <2>1. UNCHANGED mqVars \/ mq_created(n)
    BY <1>1, QueueCreated
  <2> QED
    BY <1>0, <1>1, <2>1 DEF QueueNext
<1>2. CASE Placed("mq") /\ mq_destroy
  BY <1>0, <1>2 DEF QueueNext, mq_destroy
<1>3. CASE Placed("mq") /\ ((\E m \in Msgs : mq_send(m)) \/ mq_receive)
  BY <1>0, <1>3 DEF QueueNext
<1>4. CASE UNCHANGED mqVars
  BY <1>4
<1> QED
  BY <1>1, <1>2, <1>3, <1>4 DEF IpcNext, ipcVars

-----------------------------------------------------------------------------

(* The invariant holds before anything is created. *)
LEMMA IpcInitInv ==
  ASSUME IpcInit
  PROVE  IInv
<1>1. HeapInv
  BY InitialHeapFacts DEF IpcInit
<1>2. at = [o \in Objects |-> Nowhere] /\ Nowhere \in Int
  BY DEF IpcInit, Objects, Nowhere
<1>3. Placement(at, heap)
  BY <1>2 DEF Placement
<1>4. QInv
  BY InitQInv DEF IpcInit
<1>5. QueuePlaced
  BY <1>2 DEF QueuePlaced, Placed, Exists, IpcInit, QueueInit, NoQueue, Objects
<1>6. MutexInv
  BY DEF IpcInit, MutexInit, MutexInv, MutexExclusive, Unlocked
<1>7. SemInv
  BY DEF IpcInit, NoSemaphore, SemInv, PermitsConserved
<1> QED
  BY <1>1, <1>3, <1>4, <1>5, <1>6, <1>7 DEF IInv

(* The application's own heap calls leave the objects' blocks alone.       *)
LEMMA HeapStepKeepsObjects ==
  ASSUME IInv, HeapStep(Held \ ObjectBlocks), at' = at
  PROVE  HeapInv' /\ Placement(at, heap)'
<1>1. HeapInv /\ Placement(at, heap) /\ at \in [Objects -> Int]
  BY DEF IInv, Placement
<1>2. StepFacts(Held \ ObjectBlocks)
  BY <1>1, HeapStepFacts
<1>3. HeapInv' /\ Keeps(heap', heap, AllocSet(heap) \ (Held \ ObjectBlocks))
  BY <1>2 DEF StepFacts
<1>4. ASSUME NEW o \in Objects, at[o] # Nowhere
      PROVE  at[o] \in AllocSet(heap')
  <2>1. at[o] \in ObjectBlocks /\ at[o] \in AllocSet(heap)
    BY <1>1, <1>4 DEF ObjectBlocks, Placement
  <2> QED
    BY <1>3, <2>1 DEF Keeps
<1>5. Placement(at, heap')
  BY <1>1, <1>4, PlacementKept
<1> QED
  BY <1>3, <1>5 DEF Placement, AllocSet

(* One step per call of the application.                                   *)
LEMMA IpcStep ==
  ASSUME IInv, [IpcNext]_ipcVars
  PROVE  IInv'
<1>0. /\ HeapInv /\ Placement(at, heap) /\ QInv /\ QueuePlaced
      /\ MutexInv /\ SemInv
  BY DEF IInv
<1>1. QInv'
  BY <1>0, QueueRefinement, QueueStep
<1>2. {"mq", "buffer", "mutex", "sem"} = Objects
  BY DEF Objects
<1> SUFFICES HeapInv' /\ Placement(at, heap)' /\ QueuePlaced' /\ MutexInv' /\ SemInv'
  BY <1>1 DEF IInv
<1>3. CASE /\ HeapStep(Held \ ObjectBlocks)
           /\ UNCHANGED <<mqVars, at, mutexVars, semVars>>
  <2>1. at' = at /\ mq' = mq /\ UNCHANGED mutexVars /\ UNCHANGED semVars
    BY <1>3 DEF mqVars
  <2>2. HeapInv' /\ Placement(at, heap)'
    BY <1>3, <2>1, HeapStepKeepsObjects
  <2> QED
    BY <1>0, <2>1, <2>2, MutexKept, SemKept, QueuePlacedKept
<1>4. ASSUME ~Placed("mq"), NEW n \in Capacities, mq_create(n),
             UNCHANGED <<mutexVars, semVars>>
      PROVE  HeapInv' /\ Placement(at, heap)' /\ QueuePlaced' /\ MutexInv' /\ SemInv'
  <2>1. MutexInv' /\ SemInv'
    BY <1>0, <1>4, MutexKept, SemKept
  <2>2. /\ HeapInv' /\ Placement(at, heap)'
        /\ \/ at' = at /\ UNCHANGED mqVars
           \/ mq_created(n) /\ Placed("mq")' /\ Placed("buffer")'
    BY <1>4, QueueCreated
  <2>3. CASE at' = at /\ UNCHANGED mqVars
    BY <1>0, <2>3, QueuePlacedKept, <2>1, <2>2 DEF mqVars
  <2>4. CASE mq_created(n) /\ Placed("mq")' /\ Placed("buffer")'
    <3>1. Exists'
      BY <2>4 DEF mq_created, Exists
    <3> QED
      BY <2>1, <2>2, <2>4, <3>1 DEF QueuePlaced
  <2> QED
    BY <2>2, <2>3, <2>4
<1>5. CASE Placed("mq") /\ mq_destroy /\ UNCHANGED <<mutexVars, semVars>>
  <2>1. MutexInv' /\ SemInv'
    BY <1>0, <1>5, MutexKept, SemKept
  <2>2. /\ HeapInv' /\ Placement(at, heap)'
        /\ ~Placed("mq")' /\ ~Placed("buffer")'
    BY <1>5, QueueDestroyed
  <2>3. ~Exists'
    BY <1>5 DEF mq_destroy, mq_destroyed, NoQueue, Exists
  <2> QED
    BY <2>1, <2>2, <2>3 DEF QueuePlaced
<1>6. CASE /\ ~Placed("mutex") /\ mutex_create
           /\ UNCHANGED <<mqVars, semVars>>
  <2>1. SemInv' /\ mq' = mq
    BY <1>0, <1>6, SemKept DEF mqVars
  <2>2. CASE UNCHANGED <<heapVars, at>> /\ UNCHANGED mutexVars
    BY <1>0, <2>1, <2>2, HeapUnchanged, MutexKept, QueuePlacedKept
  <2>3. CASE Place("mutex", SIZEOF_MUTEX) /\ mutex' = Unlocked /\ lockers' = {}
    <3>1. "mutex" \in Objects /\ SIZEOF_MUTEX \in 1..(SIZE_MOD - 1)
      BY <1>2, IpcAssumption
    <3>2. /\ HeapInv' /\ Placement(at, heap)'
          /\ \A q \in Objects : q # "mutex" => at'[q] = at[q]
      BY <1>0, <2>3, <3>1, PlaceFacts
    <3>3. at'["mq"] = at["mq"] /\ at'["buffer"] = at["buffer"]
      BY <1>2, <3>2
    <3> QED
      BY <1>0, <2>1, <2>3, <3>2, <3>3, UnlockedInv, QueuePlacedKept
  <2> QED
    BY <1>6, <2>2, <2>3 DEF mutex_create, NoRoom
<1>7. CASE /\ Placed("mutex") /\ mutex_destroy
           /\ UNCHANGED <<mqVars, semVars>>
  <2>1. SemInv' /\ mq' = mq /\ MutexInv'
    BY <1>0, <1>7, SemKept, UnlockedInv DEF mqVars, mutex_destroy
  <2>2. /\ HeapInv' /\ Placement(at, heap)'
        /\ \A q \in Objects : q # "mutex" => at'[q] = at[q]
    <3>1. "mutex" \in Objects /\ Unplace("mutex")
      BY <1>2, <1>7 DEF mutex_destroy
    <3> QED
      BY <1>0, <1>7, <3>1, UnplaceFacts
  <2>3. at'["mq"] = at["mq"] /\ at'["buffer"] = at["buffer"]
    BY <1>2, <2>2
  <2> QED
    BY <1>0, <2>1, <2>2, <2>3, QueuePlacedKept
<1>8. ASSUME ~Placed("sem"), NEW i \in Counts, NEW max \in Counts,
             sem_create(i, max), UNCHANGED <<mqVars, mutexVars>>
      PROVE  HeapInv' /\ Placement(at, heap)' /\ QueuePlaced' /\ MutexInv' /\ SemInv'
  <2>1. MutexInv' /\ mq' = mq
    BY <1>0, <1>8, MutexKept DEF mqVars
  <2>2. CASE UNCHANGED <<heapVars, at>> /\ UNCHANGED semVars
    BY <1>0, <2>1, <2>2, HeapUnchanged, SemKept, QueuePlacedKept
  <2>3. CASE /\ Place("sem", SIZEOF_SEM)
             /\ sem' = [count |-> i, max_count |-> max]
             /\ taken' = 0 /\ permits' = i
    <3>1. "sem" \in Objects /\ SIZEOF_SEM \in 1..(SIZE_MOD - 1)
      BY <1>2, IpcAssumption
    <3>2. /\ HeapInv' /\ Placement(at, heap)'
          /\ \A q \in Objects : q # "sem" => at'[q] = at[q]
      BY <1>0, <2>3, <3>1, PlaceFacts
    <3>3. at'["mq"] = at["mq"] /\ at'["buffer"] = at["buffer"]
      BY <1>2, <3>2
    <3>4. SemInv'
      BY <2>3, IpcAssumption, FreshSemInv
    <3> QED
      BY <1>0, <2>1, <3>2, <3>3, <3>4, QueuePlacedKept
  <2> QED
    BY <1>8, <2>2, <2>3 DEF sem_create, NoRoom
<1>9. CASE /\ Placed("sem") /\ sem_destroy
           /\ UNCHANGED <<mqVars, mutexVars>>
  <2>1. MutexInv' /\ mq' = mq
    BY <1>0, <1>9, MutexKept DEF mqVars
  <2>2. SemInv'
    BY <1>9, FreshSemInv DEF sem_destroy, NoSemaphore
  <2>3. /\ HeapInv' /\ Placement(at, heap)'
        /\ \A q \in Objects : q # "sem" => at'[q] = at[q]
    <3>1. "sem" \in Objects /\ Unplace("sem")
      BY <1>2, <1>9 DEF sem_destroy
    <3> QED
      BY <1>0, <1>9, <3>1, UnplaceFacts
  <2>4. at'["mq"] = at["mq"] /\ at'["buffer"] = at["buffer"]
    BY <1>2, <2>3
  <2> QED
    BY <1>0, <2>1, <2>2, <2>3, <2>4, QueuePlacedKept
<1>10. CASE /\ (\E m \in Msgs : mq_send(m)) \/ mq_receive
            /\ UNCHANGED <<heapVars, at, mutexVars, semVars>>
  <2>1. UNCHANGED <<heapVars, at>> /\ UNCHANGED mutexVars /\ UNCHANGED semVars
    BY <1>10
  <2>2. HeapInv' /\ Placement(at, heap)' /\ at' = at /\ MutexInv' /\ SemInv'
    BY <1>0, <2>1, HeapUnchanged, MutexKept, SemKept
  <2>3. mq'.max_msgs = mq.max_msgs
    <3>1. mq \in Struct
      BY <1>0 DEF QInv
    <3> QED
      BY <1>10, <3>1 DEF mq_send, mq_receive, mqVars, Struct
  <2> QED
    BY <1>0, <2>2, <2>3, QueuePlacedKept
<1>11. CASE /\ \E id \in TaskIds : mutex_lock(id) \/ mutex_unlock(id)
            /\ UNCHANGED <<heapVars, mqVars, at, semVars>>
  <2>1. UNCHANGED <<heapVars, at>> /\ mq' = mq /\ UNCHANGED semVars
    BY <1>11 DEF mqVars
  <2>2. HeapInv' /\ Placement(at, heap)' /\ at' = at /\ SemInv'
    BY <1>0, <2>1, HeapUnchanged, SemKept
  <2>3. MutexInv'
    BY <1>0, <1>11, MutexStep
  <2> QED
    BY <1>0, <2>1, <2>2, <2>3, QueuePlacedKept
<1>12. CASE /\ sem_take \/ sem_give
            /\ UNCHANGED <<heapVars, mqVars, at, mutexVars>>
  <2>1. UNCHANGED <<heapVars, at>> /\ mq' = mq /\ UNCHANGED mutexVars
    BY <1>12 DEF mqVars
  <2>2. HeapInv' /\ Placement(at, heap)' /\ at' = at /\ MutexInv'
    BY <1>0, <2>1, HeapUnchanged, MutexKept
  <2>3. SemInv'
    BY <1>0, <1>12, SemStep
  <2> QED
    BY <1>0, <2>1, <2>2, <2>3, QueuePlacedKept
<1>13. CASE UNCHANGED ipcVars
  <2>1. /\ UNCHANGED <<heapVars, at>> /\ mq' = mq /\ UNCHANGED mutexVars
        /\ UNCHANGED semVars
    BY <1>13 DEF ipcVars, mqVars
  <2> QED
    BY <1>0, <2>1, HeapUnchanged, MutexKept, SemKept, QueuePlacedKept
<1> QED
  BY <1>3, <1>4, <1>5, <1>6, <1>7, <1>8, <1>9, <1>10, <1>11, <1>12, <1>13
     DEF IpcNext

(* The inductive invariant holds in every reachable state. *)
LEMMA IpcSpecInv == IpcSpec => []IInv
<1>1. IpcInit => IInv
  BY IpcInitInv
<1>2. IInv /\ [IpcNext]_ipcVars => IInv'
  BY IpcStep
<1> QED
  BY <1>1, <1>2, PTL DEF IpcSpec

-----------------------------------------------------------------------------
(* At most one task believes it holds the mutex, and it is the one the     *)
(* mutex names, for any number of callers and through destroy and create.  *)
THEOREM MutexIsExclusive == IpcSpec => []MutexExclusive
<1>1. IInv => MutexExclusive
  BY DEF IInv, MutexInv
<1> QED
  BY <1>1, IpcSpecInv, PTL

(* sem_take and sem_give neither make nor lose permits, whatever initial   *)
(* and maximum count sem_create was given.                                 *)
THEOREM SemaphoreConserves == IpcSpec => []PermitsConserved
<1>1. IInv => PermitsConserved
  BY DEF IInv, SemInv
<1> QED
  BY <1>1, IpcSpecInv, PTL

(* The objects have heap blocks of their own and nothing else stays        *)
(* allocated, also when the buffer of a queue does not fit and when the    *)
(* multiplication for its size wraps.                                      *)
THEOREM ObjectsKeepBlocks == IpcSpec => []ObjectsOwnBlocks
<1>1. ASSUME IInv PROVE ObjectsOwnBlocks
  <2>1. Allocated = AllocSet(heap) /\ Held = AllocSet(heap)
    BY <1>1, HeldIsAllocSet DEF IInv
  <2>2. DOMAIN at = Objects
    BY <1>1 DEF IInv, Placement
  <2>3. ObjectBlocks \subseteq Allocated
    BY <1>1, <2>1, <2>2 DEF IInv, Placement, ObjectBlocks
  <2>4. \A o, q \in Objects : o # q /\ at[o] = at[q] => at[o] = Nowhere
    BY <1>1 DEF IInv, Placement
  <2> QED
    BY <2>1, <2>2, <2>3, <2>4 DEF ObjectsOwnBlocks
<1> QED
  BY <1>1, IpcSpecInv, PTL

(* The system on the heap implements the queue module: what is proved of   *)
(* a queue whose creation may fail holds of the one that takes its memory  *)
(* from the heap, next to the other objects.                               *)
THEOREM IpcImplementsQueue == IpcSpec => QueueSpec
<1>1. IpcInit => QueueInit
  BY DEF IpcInit
<1>2. IInv /\ [IpcNext]_ipcVars => [QueueNext]_mqVars
  BY QueueRefinement
<1> QED
  BY <1>1, <1>2, IpcSpecInv, PTL DEF IpcSpec, QueueSpec

(* The queue on the heap is a bounded FIFO with its indices in range.      *)
THEOREM IpcQueueIsFifo == IpcSpec => ImplementsFifo /\ []QueueTypeOK
  BY IpcImplementsQueue, QueueIsFifo, QueueTypeCorrect, PTL
=============================================================================
