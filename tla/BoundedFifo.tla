---------------------------- MODULE BoundedFifo -----------------------------
(***************************************************************************)
(* What a message queue promises: messages come out in the order they went *)
(* in, each once, at most `capacity' of them wait, and a full or empty     *)
(* queue refuses without changing anything.  Capacity 0: no queue.         *)
(***************************************************************************)
EXTENDS Naturals, Sequences

CONSTANT Msgs

VARIABLES contents, capacity, received

Init == contents = <<>> /\ capacity = 0 /\ received \notin Msgs

Create ==
  /\ capacity = 0
  /\ capacity' \in Nat \ {0}
  /\ UNCHANGED <<contents, received>>

Send ==
  /\ Len(contents) < capacity
  /\ \E m \in Msgs : contents' = Append(contents, m)
  /\ UNCHANGED <<capacity, received>>

Receive ==
  /\ contents # <<>>
  /\ received' = Head(contents)
  /\ contents' = Tail(contents)
  /\ UNCHANGED capacity

Destroy ==
  /\ capacity # 0
  /\ capacity' = 0
  /\ contents' = <<>>
  /\ UNCHANGED received

Next == Create \/ Send \/ Receive \/ Destroy

Spec == Init /\ [][Next]_<<contents, capacity, received>>
=============================================================================
