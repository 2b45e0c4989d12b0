---------------------------- MODULE KernelProofs ----------------------------
(***************************************************************************)
(* Proofs about Kernel for every number of slots, priorities and ids: the  *)
(* ready lists link exactly the READY tasks, one task at most is RUNNING,  *)
(* handles are unique, a switch dispatches a highest task, a tick ends     *)
(* every inversion of priorities, and no waiting task is overtaken.        *)
(***************************************************************************)
EXTENDS Kernel, WellFoundedInduction, TLAPS

-----------------------------------------------------------------------------
(* Lists without repetition.                                               *)

Injective(q) == \A i, j \in 1..Len(q) : q[i] = q[j] => i = j

(* Appending an element that is not in the list keeps it repetition-free.  *)
LEMMA AppendFacts ==
  ASSUME NEW S, NEW q \in Seq(S), NEW e \in S, Injective(q), ~Contains(q, e)
  PROVE  /\ Append(q, e) \in Seq(S)
         /\ Injective(Append(q, e))
         /\ \A x : Contains(Append(q, e), x) <=> Contains(q, x) \/ x = e
  BY DEF Injective, Contains

(* RemoveFirst closes the gap that its element leaves.                     *)
LEMMA RemoveIndices ==
  ASSUME NEW S, NEW q \in Seq(S), NEW e, Injective(q),
         NEW k \in 1..Len(q), q[k] = e
  PROVE  /\ RemoveFirst(q, e) \in Seq(S)
         /\ Len(RemoveFirst(q, e)) = Len(q) - 1
         /\ \A i \in 1..Len(RemoveFirst(q, e)) :
              RemoveFirst(q, e)[i] = IF i < k THEN q[i] ELSE q[i + 1]
<1>1. {i \in 1..Len(q) : q[i] = e} = {k}
  BY DEF Injective
<1>2. SelectInSeq(q, LAMBDA v : v = e) = k
  BY <1>1 DEF SelectInSeq, Min
<1>3. RemoveFirst(q, e) = RemoveAt(q, k)
  BY <1>2 DEF RemoveFirst
<1> DEFINE r == RemoveAt(q, k)
           a == SubSeq(q, 1, k - 1)
           b == SubSeq(q, k + 1, Len(q))
<1>4. /\ a \in Seq(S)
      /\ Len(a) = k - 1
      /\ \A i \in 1..(k - 1) : a[i] = q[i]
  OBVIOUS
<1>5. /\ b \in Seq(S)
      /\ Len(b) = Len(q) - k
      /\ \A i \in 1..(Len(q) - k) : b[i] = q[i + k]
  OBVIOUS
<1>6. r = a \o b
  BY DEF RemoveAt
<1> HIDE DEF a, b, r
<1>7. r \in Seq(S) /\ Len(r) = Len(q) - 1
  BY <1>4, <1>5, <1>6
<1>8. ASSUME NEW i \in 1..Len(r)
      PROVE  r[i] = IF i < k THEN q[i] ELSE q[i + 1]
  <2>1. CASE i < k
    <3>1. i \in 1..Len(a)
      BY <1>4, <1>7, <2>1
    <3> QED
      BY <1>4, <1>5, <1>6, <2>1, <3>1
  <2>2. CASE ~(i < k)
    <3>1. i - Len(a) \in 1..Len(b) /\ i > Len(a)
      BY <1>4, <1>5, <1>7, <2>2
    <3>2. r[i] = b[i - Len(a)]
      BY <1>4, <1>5, <1>6, <3>1
    <3>3. (i - (k - 1)) + k = i + 1
      BY <1>7
    <3> QED
      BY <1>4, <1>5, <2>2, <3>1, <3>2, <3>3
  <2> QED
    BY <2>1, <2>2
<1> QED
  BY <1>3, <1>7, <1>8 DEF r

(* RemoveFirst takes e, and only e, out of a repetition-free list.         *)
LEMMA RemoveFacts ==
  ASSUME NEW S, NEW q \in Seq(S), NEW e, Injective(q)
  PROVE  /\ RemoveFirst(q, e) \in Seq(S)
         /\ Injective(RemoveFirst(q, e))
         /\ \A x : Contains(RemoveFirst(q, e), x) <=> Contains(q, x) /\ x # e
<1>1. CASE ~ \E i \in 1..Len(q) : q[i] = e
  <2>1. RemoveFirst(q, e) = q
    BY <1>1 DEF RemoveFirst
  <2> QED
    BY <1>1, <2>1 DEF Injective, Contains
<1>2. CASE \E i \in 1..Len(q) : q[i] = e
  <2>1. PICK k \in 1..Len(q) : q[k] = e
    BY <1>2
  <2> DEFINE r == RemoveFirst(q, e)
  <2>5. /\ r \in Seq(S)
        /\ Len(r) = Len(q) - 1
        /\ \A i \in 1..Len(r) : r[i] = IF i < k THEN q[i] ELSE q[i + 1]
    BY <2>1, RemoveIndices
  <2> HIDE DEF r
  <2>6. Injective(r)
    <3> SUFFICES ASSUME NEW i \in 1..Len(r), NEW j \in 1..Len(r), r[i] = r[j]
                 PROVE  i = j
      BY DEF Injective
    <3> DEFINE g(n) == IF n < k THEN n ELSE n + 1
    <3>1. Len(q) \in Nat /\ k \in Int /\ i \in Int /\ j \in Int
      BY <2>1, <2>5
    <3>2. g(i) \in 1..Len(q) /\ g(j) \in 1..Len(q)
      BY <2>5, <3>1
    <3>3. r[i] = q[g(i)] /\ r[j] = q[g(j)]
      BY <2>5
    <3>4. g(i) = g(j)
      BY <3>2, <3>3 DEF Injective
    <3> QED
      BY <3>1, <3>4
  <2>7. ASSUME NEW x
        PROVE  Contains(r, x) <=> Contains(q, x) /\ x # e
    <3>1. ASSUME Contains(r, x)
          PROVE  Contains(q, x) /\ x # e
      <4>1. PICK i \in 1..Len(r) : r[i] = x
        BY <3>1 DEF Contains
      <4> QED
        BY <2>1, <2>5, <4>1 DEF Contains, Injective
    <3>2. ASSUME Contains(q, x), x # e
          PROVE  Contains(r, x)
      <4>1. PICK j \in 1..Len(q) : q[j] = x
        BY <3>2 DEF Contains
      <4>2. CASE j < k
        BY <2>1, <2>5, <4>1, <4>2 DEF Contains
      <4>3. CASE j > k
        <5>1. j - 1 \in 1..Len(r) /\ r[j - 1] = x
          BY <2>1, <2>5, <4>1, <4>3
        <5> QED
          BY <5>1 DEF Contains
      <4> QED
        BY <2>1, <3>2, <4>1, <4>2, <4>3
    <3> QED
      BY <3>1, <3>2
  <2> QED
    BY <2>5, <2>6, <2>7 DEF r
<1> QED
  BY <1>1, <1>2

-----------------------------------------------------------------------------
(* Task states st and ready lists rl agree: the reading of ReadyListsExact *)
(* for the intermediate values a call works on.                            *)

Exact(st, rl) ==
  /\ st \in [Slots -> TaskStates]
  /\ rl \in [Priorities -> Seq(Slots)]
  /\ \A p \in Priorities : Injective(rl[p])
  /\ \A p \in Priorities, s \in Slots :
       Contains(rl[p], s) <=>
         task_id[s] # 0 /\ st[s] = "READY" /\ priority[s] = p

(* The fields that a scheduling step reads and leaves alone.               *)
Fields ==
  /\ priority \in [Slots -> Priorities]
  /\ task_id \in [Slots -> 0..MaxTaskId]
  /\ current_tcb \in Slots \cup {NULL}
  /\ current_tcb # NULL => task_id[current_tcb] # 0

(* scheduler_remove_task with a state other than READY keeps agreement.    *)
LEMMA RemoveExact ==
  ASSUME NEW st, NEW rl, Exact(st, rl), Fields, NEW s \in Slots,
         NEW x \in TaskStates \ {"READY"}
  PROVE  Exact([st EXCEPT ![s] = x], scheduler_remove_task(rl, s))
<1> DEFINE st2 == [st EXCEPT ![s] = x]
           rl2 == scheduler_remove_task(rl, s)
           q == priority[s]
<1>1. q \in Priorities /\ rl[q] \in Seq(Slots) /\ Injective(rl[q])
  BY DEF Exact, Fields
<1>2. /\ RemoveFirst(rl[q], s) \in Seq(Slots)
      /\ Injective(RemoveFirst(rl[q], s))
      /\ \A t : Contains(RemoveFirst(rl[q], s), t) <=> Contains(rl[q], t) /\ t # s
  BY <1>1, RemoveFacts
<1>3. st2 \in [Slots -> TaskStates]
  BY DEF Exact
<1>4. /\ rl2 \in [Priorities -> Seq(Slots)]
      /\ rl2[q] = RemoveFirst(rl[q], s)
      /\ \A p \in Priorities : p # q => rl2[p] = rl[p]
  BY <1>1, <1>2 DEF Exact, scheduler_remove_task
<1>5. \A p \in Priorities : Injective(rl2[p])
  BY <1>2, <1>4 DEF Exact
<1>6. ASSUME NEW p \in Priorities, NEW t \in Slots
      PROVE  Contains(rl2[p], t) <=>
               task_id[t] # 0 /\ st2[t] = "READY" /\ priority[t] = p
  <2>1. Contains(rl[p], t) <=>
               task_id[t] # 0 /\ st[t] = "READY" /\ priority[t] = p
    BY DEF Exact
  <2>2. st2[t] = IF t = s THEN x ELSE st[t]
    BY DEF Exact
  <2>3. CASE p = q
    BY <1>2, <1>4, <2>1, <2>2, <2>3
  <2>4. CASE p # q
    BY <1>4, <2>1, <2>2, <2>4
  <2> QED
    BY <2>3, <2>4
<1> QED
  BY <1>3, <1>4, <1>5, <1>6 DEF Exact

(* scheduler_add_task of a task that is not READY yet keeps agreement.     *)
LEMMA AddExact ==
  ASSUME NEW st, NEW rl, Exact(st, rl), Fields, NEW s \in Slots,
         task_id[s] # 0, st[s] # "READY"
  PROVE  Exact([st EXCEPT ![s] = "READY"],
               scheduler_add_task(rl, s, priority[s]))
<1> DEFINE st2 == [st EXCEPT ![s] = "READY"]
           rl2 == scheduler_add_task(rl, s, priority[s])
           q == priority[s]
<1>1. /\ q \in Priorities /\ rl[q] \in Seq(Slots) /\ Injective(rl[q])
      /\ ~Contains(rl[q], s)
  BY DEF Exact, Fields
<1>2. /\ Append(rl[q], s) \in Seq(Slots)
      /\ Injective(Append(rl[q], s))
      /\ \A t : Contains(Append(rl[q], s), t) <=> Contains(rl[q], t) \/ t = s
  BY <1>1, AppendFacts
<1>3. st2 \in [Slots -> TaskStates]
  BY DEF Exact, TaskStates
<1>4. /\ rl2 \in [Priorities -> Seq(Slots)]
      /\ rl2[q] = Append(rl[q], s)
      /\ \A p \in Priorities : p # q => rl2[p] = rl[p]
  BY <1>1, <1>2 DEF Exact, scheduler_add_task
<1>5. \A p \in Priorities : Injective(rl2[p])
  BY <1>2, <1>4 DEF Exact
<1>6. ASSUME NEW p \in Priorities, NEW t \in Slots
      PROVE  Contains(rl2[p], t) <=>
               task_id[t] # 0 /\ st2[t] = "READY" /\ priority[t] = p
  <2>1. Contains(rl[p], t) <=>
               task_id[t] # 0 /\ st[t] = "READY" /\ priority[t] = p
    BY DEF Exact
  <2>2. st2[t] = IF t = s THEN "READY" ELSE st[t]
    BY DEF Exact
  <2>3. CASE p = q
    BY <1>2, <1>4, <2>1, <2>2, <2>3
  <2>4. CASE p # q
    BY <1>4, <2>1, <2>2, <2>4
  <2> QED
    BY <2>3, <2>4
<1> QED
  BY <1>3, <1>4, <1>5, <1>6 DEF Exact

(* What a scheduling step establishes.                                     *)
Scheduled ==
  /\ Exact(state', ready_lists')
  /\ current_tcb' \in Slots \cup {NULL}
  /\ current_tcb' = current_task'
  /\ current_tcb' # NULL => task_id[current_tcb'] # 0
  /\ \A s \in Slots : state'[s] = "RUNNING" => s = current_tcb'

(* schedule() keeps agreement and leaves at most the current task RUNNING, *)
(* when it is entered with no task RUNNING.                                *)
LEMMA ScheduleKeeps ==
  ASSUME NEW st, NEW rl, Exact(st, rl), Fields, current_tcb = current_task,
         \A s \in Slots : st[s] # "RUNNING", schedule(st, rl)
  PROVE  Scheduled
<1>1. CASE KeepCurrent(st, rl)
  BY <1>1 DEF KeepCurrent, Fields, Scheduled
<1>2. ASSUME NEW p \in Priorities, HighestLevel(rl, p),
             SwitchTo(Head(rl[p]), st, rl)
      PROVE  Scheduled
  <2> DEFINE next == Head(rl[p])
             rotate == current_tcb # NULL /\ st[current_tcb] = "READY"
             rotated == IF rotate
                        THEN scheduler_add_task(
                               scheduler_remove_task(rl, current_tcb),
                               current_tcb, priority[current_tcb])
                        ELSE rl
  <2>1. next \in Slots /\ Contains(rl[p], next)
    BY <1>2 DEF Exact, HighestLevel, Contains
  <2>2. task_id[next] # 0
    BY <2>1 DEF Exact
  <2>3. Exact(st, rotated)
    <3>1. CASE rotate
      <4> DEFINE c == current_tcb
                 st1 == [st EXCEPT ![c] = "BLOCKED"]
                 rl1 == scheduler_remove_task(rl, c)
      <4>1. c \in Slots /\ task_id[c] # 0 /\ st[c] = "READY"
        BY <3>1 DEF Fields
      <4>2. "BLOCKED" \in TaskStates \ {"READY"}
        BY DEF TaskStates
      <4>3. Exact(st1, rl1)
        BY <4>1, <4>2, RemoveExact
      <4>4. st1[c] # "READY"
        BY <4>1 DEF Exact
      <4>5. Exact([st1 EXCEPT ![c] = "READY"],
                  scheduler_add_task(rl1, c, priority[c]))
        <5> HIDE DEF st1, rl1, c
        <5> QED
          BY <4>1, <4>3, <4>4, AddExact
      <4>6. [st1 EXCEPT ![c] = "READY"] = st
        <5>1. st \in [Slots -> TaskStates]
          BY DEF Exact
        <5> QED
          BY <4>1, <5>1
      <4>7. rotated = scheduler_add_task(rl1, c, priority[c])
        BY <3>1
      <4> HIDE DEF st1, rl1, c, rotated
      <4> QED
        BY <4>5, <4>6, <4>7
    <3> QED
      BY <3>1
  <2>4. /\ ready_lists' = scheduler_remove_task(rotated, next)
        /\ state' = [st EXCEPT ![next] = "RUNNING"]
        /\ current_tcb' = next
        /\ current_task' = next
    BY <1>2 DEF SwitchTo
  <2>5. "RUNNING" \in TaskStates \ {"READY"}
    BY DEF TaskStates
  <2> HIDE DEF next, rotated
  <2>6. Exact(state', ready_lists')
    BY <2>1, <2>3, <2>4, <2>5, RemoveExact
  <2>7. \A s \in Slots : state'[s] = "RUNNING" => s = next
    BY <2>4 DEF Exact
  <2> QED
    BY <2>1, <2>2, <2>4, <2>6, <2>7 DEF Scheduled
<1> QED
  BY <1>1, <1>2 DEF schedule

(* scheduler_yield() does the same when only the current task may be       *)
(* RUNNING.                                                                *)
LEMMA YieldKeeps ==
  ASSUME NEW st, NEW rl, Exact(st, rl), Fields, current_tcb = current_task,
         \A s \in Slots : st[s] = "RUNNING" => s = current_tcb,
         scheduler_yield(st, rl)
  PROVE  Scheduled /\ (current_tcb' = current_tcb \/ scheduler_running)
<1> DEFINE running == current_tcb # NULL /\ st[current_tcb] = "RUNNING"
<1>1. CASE KeepCurrent(st, rl)
  BY <1>1 DEF KeepCurrent, Fields, Scheduled
<1>2. CASE scheduler_running /\ running /\ schedule([st EXCEPT ![current_tcb] = "READY"],
                     scheduler_add_task(rl, current_tcb, priority[current_tcb]))
  <2> DEFINE st1 == [st EXCEPT ![current_tcb] = "READY"]
  <2>1. Exact(st1, scheduler_add_task(rl, current_tcb, priority[current_tcb]))
    BY <1>2, AddExact DEF Fields
  <2>2. \A s \in Slots : st1[s] # "RUNNING"
    BY <1>2 DEF Exact, Fields
  <2> HIDE DEF st1
  <2> QED
    BY <1>2, <2>1, <2>2, ScheduleKeeps DEF st1
<1>3. CASE scheduler_running /\ ~running /\ schedule(st, rl)
  <2>1. \A s \in Slots : st[s] # "RUNNING"
    BY <1>3 DEF Fields, Slots, NULL
  <2> QED
    BY <1>3, <2>1, ScheduleKeeps
<1> QED
  BY <1>1, <1>2, <1>3 DEF scheduler_yield

-----------------------------------------------------------------------------
(* The inductive invariant.  None of its parts is inductive alone: a       *)
(* dispatch takes the head of a list to be a live READY task, a yield      *)
(* takes the RUNNING task to be in no list, and a tick takes delayed_list  *)
(* to be empty.                                                            *)

IInv ==
  /\ TypeOK
  /\ ReadyListsExact
  /\ OneRunning
  /\ UniqueIds
  /\ delayed_list = <<>>

(* Empty lists and an empty pool satisfy the invariant. *)
LEMMA InitIInv == Init => IInv
<1> SUFFICES ASSUME Init PROVE IInv
  OBVIOUS
<1> USE KernelAssumption
<1>1. TypeOK
  <2>1. 0 \in Priorities /\ 0 \in 0..(TICK_MOD - 1) /\ 0 \in 0..MaxTaskId
    BY DEF Priorities
  <2>2. <<>> \in Seq(Slots)
    OBVIOUS
  <2>3. 1 \in 1..(MaxTaskId + 1)
    OBVIOUS
  <2> QED
    BY <2>1, <2>2, <2>3 DEF Init, TypeOK, TaskStates
<1>2. ReadyListsExact
  BY DEF Init, ReadyListsExact, NoDuplicates, Contains
<1>3. OneRunning
  BY DEF Init, OneRunning, NULL
<1>4. UniqueIds
  BY DEF Init, UniqueIds
<1> QED
  BY <1>1, <1>2, <1>3, <1>4 DEF Init, IInv

(* What the action properties need of the invariant. *)
LEMMA IInvExact ==
  ASSUME IInv
  PROVE  /\ Exact(state, ready_lists)
         /\ Fields
         /\ current_tcb = current_task
         /\ \A s \in Slots : state[s] = "RUNNING" => s = current_tcb
  BY DEF IInv, TypeOK, ReadyListsExact, NoDuplicates, OneRunning, Exact,
         Fields, Injective

(* A step that only moves tasks between states and lists keeps the         *)
(* invariant if it ends Scheduled.                                         *)
LEMMA SchedulingStep ==
  ASSUME IInv, Scheduled,
         UNCHANGED <<priority, task_id, next_task_id, delayed_list>>,
         wake_time' \in [Slots -> 0..(TICK_MOD - 1)],
         system_tick_count' \in 0..(TICK_MOD - 1),
         scheduler_running' \in BOOLEAN,
         current_tcb' # NULL => scheduler_running'
  PROVE  IInv'
<1>1. TypeOK'
  BY DEF IInv, TypeOK, Scheduled, Exact, Slots, Priorities
<1>2. ReadyListsExact'
  BY DEF Scheduled, Exact, ReadyListsExact, NoDuplicates, Injective
<1>3. OneRunning'
  BY DEF Scheduled, OneRunning
<1>4. UniqueIds'
  BY DEF IInv, UniqueIds
<1> QED
  BY <1>1, <1>2, <1>3, <1>4 DEF IInv

(* task_delete and task_suspend, once the TCB is found.                    *)
LEMMA StopTaskKeeps ==
  ASSUME IInv, NEW s \in Slots, NEW x \in TaskStates \ {"READY", "RUNNING"},
         StopTask(s, x),
         UNCHANGED <<priority, task_id, wake_time, delayed_list,
                     scheduler_running, system_tick_count, next_task_id>>
  PROVE  IInv'
<1> DEFINE st == [state EXCEPT ![s] = x]
           rl == scheduler_remove_task(ready_lists, s)
<1>1. Exact(st, rl)
  BY IInvExact, RemoveExact
<1>2. \A t \in Slots : st[t] = "RUNNING" => t = current_tcb
  BY IInvExact DEF Exact
<1>3. Scheduled /\ (current_tcb' = current_tcb \/ scheduler_running)
  <2>1. CASE KeepCurrent(st, rl)
    <3> HIDE DEF st, rl
    <3> QED
      BY <1>1, <1>2, <2>1, IInvExact DEF KeepCurrent, Scheduled, Fields
  <2>2. CASE scheduler_yield(st, rl)
    <3> HIDE DEF st, rl
    <3> QED
      BY <1>1, <1>2, <2>2, IInvExact, YieldKeeps
  <2> QED
    BY <2>1, <2>2 DEF StopTask
<1>4. current_tcb' # NULL => scheduler_running'
  BY <1>3 DEF IInv, OneRunning
<1> QED
  BY <1>3, <1>4, SchedulingStep DEF IInv, TypeOK

(* task_create: the chosen slot is in no list and gets a fresh id.         *)
LEMMA CreateKeeps ==
  ASSUME IInv, NEW p \in 0..NUM_PRIORITY_LEVELS, task_create(p)
  PROVE  IInv'
<1>1. CASE UNCHANGED vars
  BY <1>1 DEF vars, tcbs, IInv, TypeOK, ReadyListsExact, NoDuplicates,
              OneRunning, UniqueIds
<1>2. ASSUME NEW s \in Slots, FreeTcb(s), Initialise(s, p, next_task_id),
             p < NUM_PRIORITY_LEVELS,
             next_task_id <= MaxTaskId, next_task_id' = next_task_id + 1,
             UNCHANGED <<delayed_list, current_tcb, current_task,
                         scheduler_running, system_tick_count>>
      PROVE  IInv'
  <2>1. p \in Priorities
    BY <1>2, KernelAssumption DEF Priorities
  <2>2. /\ ready_lists[p] \in Seq(Slots)
        /\ Injective(ready_lists[p])
        /\ \A q \in Priorities : ~Contains(ready_lists[q], s)
    BY <1>2, <2>1, IInvExact DEF Exact, FreeTcb
  <2>3. /\ Append(ready_lists[p], s) \in Seq(Slots)
        /\ Injective(Append(ready_lists[p], s))
        /\ \A t : Contains(Append(ready_lists[p], s), t) <=>
                     Contains(ready_lists[p], t) \/ t = s
    BY <2>1, <2>2, AppendFacts
  <2>4. /\ task_id' = [task_id EXCEPT ![s] = next_task_id]
        /\ priority' = [priority EXCEPT ![s] = p]
        /\ state' = [state EXCEPT ![s] = "READY"]
        /\ wake_time' = [wake_time EXCEPT ![s] = 0]
        /\ ready_lists' = [ready_lists EXCEPT ![p] = Append(@, s)]
    BY <1>2 DEF Initialise, scheduler_add_task
  <2>5. TypeOK'
    BY <1>2, <2>1, <2>3, <2>4, KernelAssumption DEF IInv, TypeOK, TaskStates
  <2>6. NoDuplicates'
    <3>1. \A q \in Priorities :
            ready_lists'[q] = IF q = p THEN Append(ready_lists[p], s)
                              ELSE ready_lists[q]
      BY <2>1, <2>4 DEF IInv, TypeOK
    <3>2. \A q \in Priorities : Injective(ready_lists'[q])
      BY <2>3, <3>1, IInvExact DEF Exact
    <3> QED
      BY <3>2 DEF NoDuplicates, Injective
  <2>7. ASSUME NEW q \in Priorities, NEW t \in Slots
        PROVE  Contains(ready_lists'[q], t) <=>
                 task_id'[t] # 0 /\ state'[t] = "READY" /\ priority'[t] = q
    <3>1. Contains(ready_lists'[q], t) <=>
            Contains(ready_lists[q], t) \/ (t = s /\ q = p)
      BY <2>1, <2>3, <2>4 DEF IInv, TypeOK
    <3>2. Contains(ready_lists[q], t) <=>
            task_id[t] # 0 /\ state[t] = "READY" /\ priority[t] = q
      BY DEF IInv, ReadyListsExact
    <3>3. CASE t = s
      BY <2>2, <2>4, <3>1, <3>3 DEF IInv, TypeOK
    <3>4. CASE t # s
      BY <2>4, <3>1, <3>2, <3>4 DEF IInv, TypeOK
    <3> QED
      BY <3>3, <3>4
  <2>8. ReadyListsExact'
    BY <2>6, <2>7 DEF ReadyListsExact
  <2>9. OneRunning'
    BY <1>2, <2>4 DEF IInv, TypeOK, OneRunning
  <2>10. UniqueIds'
    BY <1>2, <2>4 DEF IInv, TypeOK, UniqueIds
  <2> QED
    BY <1>2, <2>5, <2>8, <2>9, <2>10 DEF IInv
<1> QED
  BY <1>1, <1>2 DEF task_create

(* Every step keeps the invariant: one step of the proof per action.       *)
LEMMA NextIInv == IInv /\ [Next]_vars => IInv'
<1> SUFFICES ASSUME IInv, [Next]_vars PROVE IInv'
  OBVIOUS
<1> USE KernelAssumption
<1>0. CASE UNCHANGED vars
  BY <1>0 DEF vars, tcbs, IInv, TypeOK, ReadyListsExact, NoDuplicates,
              OneRunning, UniqueIds
<1>1. ASSUME NEW p \in 0..NUM_PRIORITY_LEVELS, task_create(p)
      PROVE  IInv'
  BY <1>1, CreateKeeps
<1>2. ASSUME NEW id \in 1..MaxTaskId, task_delete(id)
      PROVE  IInv'
  <2>1. "DELETED" \in TaskStates \ {"READY", "RUNNING"}
    BY DEF TaskStates
  <2> QED
    BY <1>0, <1>2, <2>1, StopTaskKeeps DEF task_delete
<1>3. ASSUME NEW id \in 1..MaxTaskId, task_suspend(id)
      PROVE  IInv'
  <2>1. "SUSPENDED" \in TaskStates \ {"READY", "RUNNING"}
    BY DEF TaskStates
  <2> QED
    BY <1>0, <1>3, <2>1, StopTaskKeeps DEF task_suspend
<1>4. ASSUME NEW id \in 1..MaxTaskId, task_resume(id)
      PROVE  IInv'
  <2>1. ASSUME NEW s \in Slots, task_get_tcb(id, s), state[s] = "SUSPENDED",
               state' = [state EXCEPT ![s] = "READY"],
               ready_lists' = scheduler_add_task(ready_lists, s, priority[s]),
               UNCHANGED <<priority, task_id, wake_time, delayed_list,
                           current_tcb, current_task, scheduler_running,
                           system_tick_count, next_task_id>>
        PROVE  IInv'
    <3>1. task_id[s] # 0
      BY <2>1 DEF task_get_tcb, HasId
    <3>2. Exact(state', ready_lists')
      BY <2>1, <3>1, IInvExact, AddExact
    <3>3. Scheduled
      BY <2>1, <3>2, IInvExact DEF Scheduled, Fields, Exact
    <3> QED
      BY <2>1, <3>3, SchedulingStep DEF IInv, TypeOK, OneRunning
  <2> QED
    BY <1>0, <1>4, <2>1 DEF task_resume
<1>5. ASSUME NEW n \in Ticks, task_delay(n)
      PROVE  IInv'
  <2> SUFFICES ASSUME current_task # NULL,
                 wake_time' = [wake_time EXCEPT
                   ![current_task] = (system_tick_count + n) % TICK_MOD],
                 scheduler_yield([state EXCEPT ![current_task] = "BLOCKED"],
                           scheduler_remove_task(ready_lists, current_task)),
                 UNCHANGED <<priority, task_id, delayed_list,
                   scheduler_running, system_tick_count, next_task_id>>
               PROVE  IInv'
    BY <1>0, <1>5 DEF task_delay
  <2> DEFINE st == [state EXCEPT ![current_task] = "BLOCKED"]
             rl == scheduler_remove_task(ready_lists, current_task)
  <2>1. current_task \in Slots
    BY DEF IInv, TypeOK
  <2>2. Exact(st, rl)
    BY <2>1, IInvExact, RemoveExact DEF TaskStates
  <2>3. \A t \in Slots : st[t] = "RUNNING" => t = current_tcb
    BY IInvExact DEF Exact
  <2>4. scheduler_yield(st, rl)
    OBVIOUS
  <2> HIDE DEF st, rl
  <2>5. Scheduled /\ (current_tcb' = current_tcb \/ scheduler_running)
    BY <2>2, <2>3, <2>4, IInvExact, YieldKeeps
  <2>6. (system_tick_count + n) % TICK_MOD \in 0..(TICK_MOD - 1)
    BY DEF IInv, TypeOK
  <2>7. wake_time' \in [Slots -> 0..(TICK_MOD - 1)]
    BY <2>1, <2>6 DEF IInv, TypeOK
  <2> QED
    BY <2>5, <2>7, SchedulingStep DEF IInv, TypeOK, OneRunning
<1>6. CASE task_yield
  <2>1. Scheduled /\ (current_tcb' = current_tcb \/ scheduler_running)
    BY <1>6, IInvExact, YieldKeeps DEF task_yield
  <2> QED
    BY <1>6, <2>1, SchedulingStep DEF task_yield, IInv, TypeOK, OneRunning
<1>7. CASE scheduler_tick
  <2> DEFINE tick == (system_tick_count + 1) % TICK_MOD
             awake == process_delayed_tasks(tick)
  <2>1. tick \in 0..(TICK_MOD - 1)
    BY DEF IInv, TypeOK
  <2>2. /\ awake.st = state
        /\ awake.rl = ready_lists
        /\ awake.dl = delayed_list
    <3>1. DueCount(tick) = 0
      BY DEF IInv, DueCount
    <3> QED
      BY <3>1 DEF process_delayed_tasks
  <2>3. /\ system_tick_count' = tick
        /\ UNCHANGED <<priority, task_id, wake_time, scheduler_running,
                       next_task_id, delayed_list>>
        /\ \/ scheduler_yield(state, ready_lists)
           \/ KeepCurrent(state, ready_lists)
    BY <1>7, <2>2 DEF scheduler_tick
  <2>4. Scheduled /\ (current_tcb' = current_tcb \/ scheduler_running)
    <3>1. CASE KeepCurrent(state, ready_lists)
      BY <3>1, IInvExact DEF KeepCurrent, Scheduled, Fields
    <3> QED
      BY <2>3, <3>1, IInvExact, YieldKeeps
  <2> QED
    BY <2>1, <2>3, <2>4, SchedulingStep DEF IInv, TypeOK, OneRunning
<1>8. CASE ~scheduler_running /\ scheduler_start
  <2>1. \A s \in Slots : state[s] # "RUNNING"
    BY <1>8 DEF IInv, OneRunning, Slots, NULL
  <2>2. Scheduled
    BY <1>8, <2>1, IInvExact, ScheduleKeeps DEF scheduler_start
  <2> QED
    BY <1>8, <2>2, SchedulingStep DEF scheduler_start, IInv, TypeOK
<1> QED
  BY <1>0, <1>1, <1>2, <1>3, <1>4, <1>5, <1>6, <1>7, <1>8 DEF Next

(* The inductive invariant holds in every reachable state. *)
LEMMA SpecIInv == Spec => []IInv
  BY InitIInv, NextIInv, PTL DEF Spec

(* Every variable of the task manager and the scheduler keeps its type.    *)
THEOREM TypeCorrect == Spec => []TypeOK
<1>1. IInv => TypeOK
  BY DEF IInv
<1> QED
  BY <1>1, SpecIInv, PTL

(* However many tasks, priorities and calls: the ready lists link exactly  *)
(* the READY tasks, once each.                                             *)
THEOREM ReadyListsCorrect == Spec => []ReadyListsExact
<1>1. IInv => ReadyListsExact
  BY DEF IInv
<1> QED
  BY <1>1, SpecIInv, PTL

(* task.c and scheduler.c agree on the current task, and only it is        *)
(* RUNNING.                                                                *)
THEOREM AtMostOneRunning == Spec => []OneRunning
<1>1. IInv => OneRunning
  BY DEF IInv
<1> QED
  BY <1>1, SpecIInv, PTL

(* Below the wrap of next_task_id, a handle names at most one task.        *)
THEOREM HandlesUnique == Spec => []UniqueIds
<1>1. IInv => UniqueIds
  BY DEF IInv
<1> QED
  BY <1>1, SpecIInv, PTL

-----------------------------------------------------------------------------
(* Dispatching.  Highest says of the state a scheduling step leads to that *)
(* no READY task outranks the current one.                                 *)

Highest ==
  current_tcb' # NULL =>
    \A s \in Slots : state'[s] = "READY" /\ task_id[s] # 0 =>
      priority[s] >= priority[current_tcb']

Dispatched ==
  current_tcb' # current_tcb =>
    /\ current_tcb' # NULL
    /\ state'[current_tcb'] = "RUNNING"
    /\ Highest

(* The list of the highest level holds the READY tasks of least priority   *)
(* number, and its head is one of them.                                    *)
LEMMA HighestLevelFacts ==
  ASSUME NEW st, NEW rl, Exact(st, rl), Fields, NEW p \in Priorities,
         HighestLevel(rl, p)
  PROVE  /\ Head(rl[p]) \in Slots
         /\ priority[Head(rl[p])] = p
         /\ st[Head(rl[p])] = "READY"
         /\ \A s \in Slots : st[s] = "READY" /\ task_id[s] # 0 => priority[s] >= p
<1>1. Head(rl[p]) \in Slots /\ Contains(rl[p], Head(rl[p]))
  BY DEF Exact, HighestLevel, Contains
<1>2. ASSUME NEW s \in Slots, st[s] = "READY", task_id[s] # 0
      PROVE  priority[s] >= p
  <2>1. priority[s] \in Priorities /\ Contains(rl[priority[s]], s)
    BY <1>2 DEF Exact, Fields
  <2>2. rl[priority[s]] # <<>>
    BY <2>1 DEF Contains
  <2>3. ~(priority[s] < p)
    BY <2>1, <2>2 DEF HighestLevel
  <2> QED
    BY <2>1, <2>3 DEF Priorities
<1> QED
  BY <1>1, <1>2 DEF Exact

(* schedule either keeps the task or dispatches a highest one. *)
LEMMA ScheduleDispatches ==
  ASSUME NEW st, NEW rl, Exact(st, rl), Fields, schedule(st, rl)
  PROVE  Dispatched /\ Highest
<1>1. CASE (\A p \in Priorities : rl[p] = <<>>) /\ KeepCurrent(st, rl)
  <2>1. ASSUME NEW s \in Slots, st[s] = "READY", task_id[s] # 0
        PROVE  FALSE
    <3>1. priority[s] \in Priorities /\ Contains(rl[priority[s]], s)
      BY <2>1 DEF Exact, Fields
    <3> QED
      BY <1>1, <3>1 DEF Contains
  <2> QED
    BY <1>1, <2>1 DEF KeepCurrent, Dispatched, Highest
<1>2. ASSUME NEW p \in Priorities, HighestLevel(rl, p),
             Head(rl[p]) = current_tcb, KeepCurrent(st, rl)
      PROVE  Dispatched /\ Highest
  <2>1. /\ priority[Head(rl[p])] = p
        /\ \A s \in Slots : st[s] = "READY" /\ task_id[s] # 0 => priority[s] >= p
    BY <1>2, HighestLevelFacts
  <2> QED
    BY <1>2, <2>1 DEF KeepCurrent, Dispatched, Highest
<1>3. ASSUME NEW p \in Priorities, HighestLevel(rl, p),
             SwitchTo(Head(rl[p]), st, rl)
      PROVE  Dispatched /\ Highest
  <2> DEFINE next == Head(rl[p])
  <2>1. /\ next \in Slots /\ priority[next] = p
        /\ \A s \in Slots : st[s] = "READY" /\ task_id[s] # 0 => priority[s] >= p
    BY <1>3, HighestLevelFacts
  <2>2. state' = [st EXCEPT ![next] = "RUNNING"] /\ current_tcb' = next
    BY <1>3 DEF SwitchTo
  <2> HIDE DEF next
  <2>3. st \in [Slots -> TaskStates] /\ next # NULL
    BY <2>1 DEF Exact, Slots, NULL
  <2>4. /\ state'[next] = "RUNNING"
        /\ \A s \in Slots : state'[s] = "READY" => st[s] = "READY"
    BY <2>1, <2>2, <2>3
  <2> QED
    BY <2>1, <2>2, <2>3, <2>4 DEF Dispatched, Highest
<1> QED
  BY <1>1, <1>2, <1>3 DEF schedule

(* So does scheduler_yield, which may put the current task back first. *)
LEMMA YieldDispatches ==
  ASSUME NEW st, NEW rl, Exact(st, rl), Fields, scheduler_yield(st, rl)
  PROVE  Dispatched /\ (scheduler_running => Highest)
<1> DEFINE running == current_tcb # NULL /\ st[current_tcb] = "RUNNING"
           st1 == [st EXCEPT ![current_tcb] = "READY"]
           rl1 == scheduler_add_task(rl, current_tcb, priority[current_tcb])
<1>1. CASE ~scheduler_running /\ KeepCurrent(st, rl)
  BY <1>1 DEF KeepCurrent, Dispatched
<1>2. CASE running /\ schedule(st1, rl1)
  <2>1. Exact(st1, rl1)
    BY <1>2, AddExact DEF Fields
  <2> HIDE DEF st1, rl1
  <2> QED
    BY <1>2, <2>1, ScheduleDispatches
<1>3. CASE schedule(st, rl)
  BY <1>3, ScheduleDispatches
<1> QED
  BY <1>1, <1>2, <1>3 DEF scheduler_yield

(* A nonempty ready list somewhere means there is a highest level.         *)
LEMMA HighestLevelExists ==
  ASSUME NEW rl, NEW q \in Priorities, rl[q] # <<>>
  PROVE  \E p \in Priorities : HighestLevel(rl, p) /\ p <= q
<1> DEFINE busy == {p \in Priorities : rl[p] # <<>>}
<1>1. busy \subseteq Nat /\ busy # {}
  BY KernelAssumption DEF Priorities
<1>2. PICK p \in busy : \A r \in busy : <<r, p>> \notin OpToRel(<, Nat)
  BY <1>1, NatLessThanWellFounded, WFMin
<1>3. \A r \in busy : ~(r < p)
  BY <1>1, <1>2 DEF OpToRel
<1>4. p \in Priorities /\ rl[p] # <<>>
  OBVIOUS
<1>5. p <= q
  BY <1>3, <1>4 DEF Priorities
<1> QED
  BY <1>3, <1>4, <1>5 DEF HighestLevel

-----------------------------------------------------------------------------
(* What a step does to the lists, whichever call takes it: nothing, link a *)
(* task that was in no list, or, after at most one task left its list,     *)
(* keep or choose the current task.                                        *)

LinksTask(s, p) ==
  /\ \A q \in Priorities : ~Contains(ready_lists[q], s)
  /\ ready_lists' = scheduler_add_task(ready_lists, s, p)
  /\ UNCHANGED <<current_tcb, system_tick_count>>

Unlinks(s, st, rl) ==
  /\ rl = scheduler_remove_task(ready_lists, s)
  /\ KeepCurrent(st, rl)
  /\ UNCHANGED system_tick_count

TickKeeps ==
  /\ KeepCurrent(state, ready_lists)
  /\ ~Preempts(ready_lists)
  /\ UNCHANGED <<priority, task_id, scheduler_running>>

CurrentUnlinked(rl) ==
  current_tcb # NULL /\ rl = scheduler_remove_task(ready_lists, current_tcb)

Reschedules(st, rl) ==
  /\ Exact(st, rl)
  /\ rl = ready_lists \/ CurrentUnlinked(rl)
  /\ \/ scheduler_yield(st, rl) /\ UNCHANGED system_tick_count
     \/ scheduler_yield(st, rl) /\ scheduler_running
     \/ schedule(st, rl) /\ UNCHANGED system_tick_count
  /\ UNCHANGED <<priority, task_id>>

StepCase ==
  \/ UNCHANGED vars
  \/ \E s \in Slots, p \in Priorities : LinksTask(s, p)
  \/ \E s \in Slots, st \in [Slots -> TaskStates],
        rl \in [Priorities -> Seq(Slots)] : Unlinks(s, st, rl)
  \/ TickKeeps
  \/ \E st \in [Slots -> TaskStates], rl \in [Priorities -> Seq(Slots)] :
        Reschedules(st, rl)

(* A call that ends in a reschedule is one of the kinds of step. *)
LEMMA ReschedulesCase ==
  ASSUME NEW st, NEW rl, Reschedules(st, rl)
  PROVE  StepCase
<1>1. st \in [Slots -> TaskStates] /\ rl \in [Priorities -> Seq(Slots)]
  BY DEF Reschedules, Exact
<1> QED
  BY <1>1 DEF StepCase

(* Stopping a task is one of these kinds of step. *)
LEMMA StopTaskCase ==
  ASSUME IInv, NEW s \in Slots, NEW x \in TaskStates \ {"READY"},
         StopTask(s, x),
         UNCHANGED <<priority, task_id, system_tick_count>>
  PROVE  StepCase
<1> DEFINE st == [state EXCEPT ![s] = x]
           rl == scheduler_remove_task(ready_lists, s)
<1>1. Exact(st, rl)
  BY IInvExact, RemoveExact
<1>2. st \in [Slots -> TaskStates] /\ rl \in [Priorities -> Seq(Slots)]
  BY <1>1 DEF Exact
<1>3. s # NULL
  BY DEF Slots, NULL
<1>4. CASE s = current_task /\ scheduler_yield(st, rl)
  <2>1. CurrentUnlinked(rl)
    BY <1>3, <1>4, IInvExact DEF CurrentUnlinked
  <2> HIDE DEF st, rl
  <2>2. Reschedules(st, rl)
    BY <1>1, <1>4, <2>1 DEF Reschedules
  <2> QED
    BY <2>2, ReschedulesCase
<1>5. CASE KeepCurrent(st, rl)
  <2>1. Unlinks(s, st, rl)
    BY <1>5 DEF Unlinks
  <2> HIDE DEF st, rl
  <2> QED
    BY <1>2, <2>1 DEF StepCase
<1> QED
  BY <1>4, <1>5 DEF StopTask

(* Every step of the kernel is one of these.                               *)
LEMMA StepCases ==
  ASSUME IInv, [Next]_vars
  PROVE  StepCase
<1> USE KernelAssumption
<1>0. CASE UNCHANGED vars
  BY <1>0 DEF StepCase
<1>1. ASSUME NEW p \in 0..NUM_PRIORITY_LEVELS, task_create(p)
      PROVE  StepCase
  <2> SUFFICES ASSUME p < NUM_PRIORITY_LEVELS, NEW s \in Slots, FreeTcb(s),
                      Initialise(s, p, next_task_id),
                      UNCHANGED <<current_tcb, system_tick_count>>
               PROVE  StepCase
    BY <1>0, <1>1 DEF task_create
  <2>1. p \in Priorities
    BY DEF Priorities
  <2>2. \A q \in Priorities : ~Contains(ready_lists[q], s)
    BY IInvExact DEF Exact, FreeTcb
  <2>3. LinksTask(s, p)
    BY <2>2 DEF LinksTask, Initialise
  <2> QED
    BY <2>1, <2>3 DEF StepCase
<1>2. ASSUME NEW id \in 1..MaxTaskId, task_delete(id)
      PROVE  StepCase
  BY <1>0, <1>2, StopTaskCase DEF task_delete, TaskStates
<1>3. ASSUME NEW id \in 1..MaxTaskId, task_suspend(id)
      PROVE  StepCase
  BY <1>0, <1>3, StopTaskCase DEF task_suspend, TaskStates
<1>4. ASSUME NEW id \in 1..MaxTaskId, task_resume(id)
      PROVE  StepCase
  <2> SUFFICES ASSUME NEW s \in Slots, state[s] = "SUSPENDED",
                 ready_lists' = scheduler_add_task(ready_lists, s, priority[s]),
                 UNCHANGED <<current_tcb, system_tick_count>>
               PROVE  StepCase
    BY <1>0, <1>4 DEF task_resume
  <2>1. priority[s] \in Priorities
    BY IInvExact DEF Fields
  <2>2. \A q \in Priorities : ~Contains(ready_lists[q], s)
    BY IInvExact DEF Exact
  <2>3. LinksTask(s, priority[s])
    BY <2>2 DEF LinksTask
  <2> QED
    BY <2>1, <2>3 DEF StepCase
<1>5. ASSUME NEW n \in Ticks, task_delay(n)
      PROVE  StepCase
  <2> DEFINE st == [state EXCEPT ![current_task] = "BLOCKED"]
             rl == scheduler_remove_task(ready_lists, current_task)
  <2> SUFFICES ASSUME current_task # NULL, scheduler_yield(st, rl),
                      UNCHANGED <<priority, task_id, system_tick_count>>
               PROVE  StepCase
    BY <1>0, <1>5 DEF task_delay
  <2>1. current_task \in Slots /\ current_task = current_tcb
    BY DEF IInv, TypeOK, OneRunning
  <2>2. Exact(st, rl)
    BY <2>1, IInvExact, RemoveExact DEF TaskStates
  <2>3. CurrentUnlinked(rl)
    BY <2>1 DEF CurrentUnlinked
  <2> HIDE DEF st, rl
  <2>4. Reschedules(st, rl)
    BY <2>2, <2>3 DEF Reschedules
  <2> QED
    BY <2>4, ReschedulesCase
<1>6. CASE task_yield
  <2>1. Reschedules(state, ready_lists)
    BY <1>6, IInvExact DEF task_yield, Reschedules
  <2> QED
    BY <2>1, ReschedulesCase
<1>7. CASE scheduler_tick
  <2> DEFINE tick == (system_tick_count + 1) % TICK_MOD
             awake == process_delayed_tasks(tick)
  <2>1. awake.st = state /\ awake.rl = ready_lists
    <3>1. DueCount(tick) = 0
      BY DEF IInv, DueCount
    <3> QED
      BY <3>1 DEF process_delayed_tasks
  <2>2. /\ UNCHANGED <<priority, task_id, scheduler_running>>
        /\ \/ Preempts(ready_lists) /\ scheduler_yield(state, ready_lists)
           \/ ~Preempts(ready_lists) /\ KeepCurrent(state, ready_lists)
    BY <1>7, <2>1 DEF scheduler_tick
  <2>3. CASE Preempts(ready_lists) /\ scheduler_yield(state, ready_lists)
    <3>1. scheduler_running
      BY <2>3 DEF Preempts
    <3>2. Reschedules(state, ready_lists)
      BY <2>2, <2>3, <3>1, IInvExact DEF Reschedules
    <3> QED
      BY <3>2, ReschedulesCase
  <2>4. CASE ~Preempts(ready_lists) /\ KeepCurrent(state, ready_lists)
    <3>1. TickKeeps
      BY <2>2, <2>4 DEF TickKeeps
    <3> QED
      BY <3>1 DEF StepCase
  <2> QED
    BY <2>2, <2>3, <2>4
<1>8. CASE scheduler_start
  <2>1. Reschedules(state, ready_lists)
    BY <1>8, IInvExact DEF scheduler_start, Reschedules
  <2> QED
    BY <2>1, ReschedulesCase
<1> QED
  BY <1>0, <1>1, <1>2, <1>3, <1>4, <1>5, <1>6, <1>7, <1>8 DEF Next

(* Choosing a task dispatches one that no READY task outranks.             *)
LEMMA ReschedulesDispatches ==
  ASSUME IInv, NEW st, NEW rl, Reschedules(st, rl)
  PROVE  /\ Dispatched
         /\ system_tick_count' # system_tick_count => Highest
  BY IInvExact, YieldDispatches, ScheduleDispatches DEF Reschedules

(* A step that changes the current task dispatches one that no READY task
   outranks. *)
LEMMA DispatchStep ==
  ASSUME IInv, [Next]_vars, current_tcb' # current_tcb
  PROVE  /\ state'[current_tcb'] = "RUNNING"
         /\ \A s \in Slots : state'[s] = "READY" /\ task_id'[s] # 0 =>
              priority'[s] >= priority'[current_tcb']
<1>1. PICK st, rl : Reschedules(st, rl)
  BY StepCases DEF StepCase, vars, LinksTask, Unlinks, TickKeeps, KeepCurrent
<1>2. Dispatched
  BY <1>1, ReschedulesDispatches
<1>3. UNCHANGED <<priority, task_id>>
  BY <1>1 DEF Reschedules
<1> QED
  BY <1>2, <1>3 DEF Dispatched, Highest

(* DispatchIsHighest, for any number of tasks and priorities: whatever     *)
(* call makes schedule() switch, the task it switches to is RUNNING and no *)
(* READY task has a higher priority.                                       *)
THEOREM DispatchesHighest == Spec => DispatchIsHighest
<1>1. IInv /\ [Next]_vars =>
        [current_tcb' # current_tcb =>
           /\ state'[current_tcb'] = "RUNNING"
           /\ \A s \in Slots : state'[s] = "READY" /\ task_id'[s] # 0 =>
                priority'[s] >= priority'[current_tcb']]_vars
  BY DispatchStep
<1> QED
  BY <1>1, SpecIInv, PTL DEF Spec, DispatchIsHighest

(* After a tick no READY task outranks the current one. *)
LEMMA TickStep ==
  ASSUME IInv, [Next]_vars, system_tick_count' # system_tick_count
  PROVE  ~Outranked'
<1>1. TickKeeps \/ \E st, rl : Reschedules(st, rl)
  BY StepCases DEF StepCase, vars, LinksTask, Unlinks
<1>2. ASSUME NEW st, NEW rl, Reschedules(st, rl)
      PROVE  ~Outranked'
  <2>1. Highest
    BY <1>2, ReschedulesDispatches
  <2>2. UNCHANGED <<priority, task_id>>
    BY <1>2 DEF Reschedules
  <2>3. current_tcb' \in Slots \cup {NULL} /\ priority \in [Slots -> Priorities]
    BY NextIInv DEF IInv, TypeOK, Slots, NULL
  <2> QED
    BY <2>1, <2>2, <2>3 DEF Highest, Outranked, Slots, NULL, Priorities
<1>3. CASE TickKeeps
  <2> SUFFICES ASSUME Outranked' PROVE FALSE
    OBVIOUS
  <2>1. /\ UNCHANGED <<state, priority, task_id, current_tcb, scheduler_running>>
        /\ ~Preempts(ready_lists)
    BY <1>3 DEF TickKeeps, KeepCurrent
  <2>2. PICK s \in Slots : /\ state[s] = "READY" /\ task_id[s] # 0
                           /\ priority[s] < priority[current_tcb]
    BY <2>1 DEF Outranked, Slots
  <2>3. scheduler_running /\ current_tcb # NULL
    BY <2>1 DEF Outranked, NULL
  <2>4. priority[s] \in Priorities /\ Contains(ready_lists[priority[s]], s)
    BY <2>2, IInvExact DEF Exact, Fields
  <2>5. ready_lists[priority[s]] # <<>>
    BY <2>4 DEF Contains
  <2>6. PICK p \in Priorities : HighestLevel(ready_lists, p) /\ p <= priority[s]
    BY <2>4, <2>5, HighestLevelExists
  <2>7. priority[Head(ready_lists[p])] = p
    BY <2>6, IInvExact, HighestLevelFacts
  <2>8. priority[current_tcb] \in Priorities
    BY <2>3, IInvExact DEF Fields
  <2>9. p < priority[current_tcb]
    BY <2>2, <2>4, <2>6, <2>8 DEF Priorities
  <2> QED
    BY <2>1, <2>3, <2>6, <2>7, <2>9 DEF Preempts
<1> QED
  BY <1>1, <1>2, <1>3

(* TickPreempts, for any number of tasks and priorities: the preemption    *)
(* test of scheduler_tick misses no READY task of higher priority.         *)
THEOREM TicksPreempt == Spec => TickPreempts
<1>1. IInv /\ [Next]_vars =>
        [system_tick_count' # system_tick_count => ~Outranked']_vars
  BY TickStep
<1> QED
  BY <1>1, SpecIInv, PTL DEF Spec, TickPreempts

-----------------------------------------------------------------------------
(* Order in the lists.                                                     *)

(* Taking an element out leaves the order of the others.                   *)
LEMMA RemoveOrder ==
  ASSUME NEW S, NEW q \in Seq(S), NEW e, Injective(q), NEW a, NEW b
  PROVE  Before(RemoveFirst(q, e), a, b) <=> Before(q, a, b) /\ a # e /\ b # e
<1>1. CASE ~ \E i \in 1..Len(q) : q[i] = e
  <2>1. RemoveFirst(q, e) = q
    BY <1>1 DEF RemoveFirst
  <2> QED
    BY <1>1, <2>1 DEF Before
<1>2. ASSUME NEW k \in 1..Len(q), q[k] = e
      PROVE  Before(RemoveFirst(q, e), a, b) <=>
               Before(q, a, b) /\ a # e /\ b # e
  <2> DEFINE r == RemoveFirst(q, e)
  <2>1. /\ Len(r) = Len(q) - 1
        /\ \A i \in 1..Len(r) : r[i] = IF i < k THEN q[i] ELSE q[i + 1]
    BY <1>2, RemoveIndices
  <2> HIDE DEF r
  <2>2. Len(q) \in Nat
    OBVIOUS
  <2>3. ASSUME Before(r, a, b)
        PROVE  Before(q, a, b) /\ a # e /\ b # e
    <3>1. PICK i, j \in 1..Len(r) : i < j /\ r[i] = a /\ r[j] = b
      BY <2>3 DEF Before
    <3> DEFINE g(n) == IF n < k THEN n ELSE n + 1
    <3>2. /\ g(i) \in 1..Len(q) /\ g(j) \in 1..Len(q)
          /\ g(i) < g(j) /\ g(i) # k /\ g(j) # k
      BY <2>1, <2>2, <3>1
    <3>3. q[g(i)] = a /\ q[g(j)] = b
      BY <2>1, <3>1
    <3> HIDE DEF g
    <3> QED
      BY <1>2, <3>2, <3>3 DEF Before, Injective
  <2>4. ASSUME Before(q, a, b), a # e, b # e
        PROVE  Before(r, a, b)
    <3>1. PICK i, j \in 1..Len(q) : i < j /\ q[i] = a /\ q[j] = b
      BY <2>4 DEF Before
    <3> DEFINE h(n) == IF n < k THEN n ELSE n - 1
    <3>2. i # k /\ j # k
      BY <1>2, <2>4, <3>1
    <3>3. h(i) \in 1..Len(r) /\ h(j) \in 1..Len(r) /\ h(i) < h(j)
      BY <2>1, <2>2, <3>1, <3>2
    <3>4. ASSUME NEW n \in 1..Len(q), n # k, h(n) \in 1..Len(r)
          PROVE  r[h(n)] = q[n]
      <4>1. CASE n < k
        BY <2>1, <3>4, <4>1
      <4>2. CASE n > k
        <5>1. h(n) = n - 1 /\ ~(n - 1 < k) /\ (n - 1) + 1 = n
          BY <4>2
        <5>2. r[n - 1] = q[(n - 1) + 1]
          BY <2>1, <3>4, <5>1
        <5> QED
          BY <5>1, <5>2
      <4> QED
        BY <3>4, <4>1, <4>2
    <3>5. r[h(i)] = a /\ r[h(j)] = b
      BY <3>1, <3>2, <3>3, <3>4
    <3> HIDE DEF h
    <3> QED
      BY <3>3, <3>5 DEF Before
  <2> QED
    BY <2>3, <2>4 DEF r
<1> QED
  BY <1>1, <1>2

(* A new element goes behind all the others.                               *)
LEMMA AppendOrder ==
  ASSUME NEW S, NEW q \in Seq(S), NEW e \in S, NEW a, NEW b
  PROVE  /\ Before(q, a, b) => Before(Append(q, e), a, b)
         /\ Before(Append(q, e), a, b) => Before(q, a, b) \/ b = e
  BY DEF Before

(* In a list without repetition no two elements precede each other, and    *)
(* nothing precedes the head.                                              *)
LEMMA BeforeAsymmetric ==
  ASSUME NEW S, NEW q \in Seq(S), Injective(q), NEW a, NEW b, Before(q, a, b)
  PROVE  ~Before(q, b, a) /\ b # Head(q)
  BY DEF Before, Injective

(* How lists rl that a call works on relate to the lists it was entered    *)
(* with: nothing but the current task has fallen behind, and two others    *)
(* keep their order.                                                       *)
Ordered(rl) ==
  \A p \in Priorities : \A a, b \in Slots :
    a # current_tcb /\ Before(rl[p], b, a) => Before(ready_lists[p], b, a)
Kept(rl) ==
  \A p \in Priorities : \A a, b \in Slots :
    a # current_tcb /\ b # current_tcb /\ Before(ready_lists[p], a, b) =>
      Before(rl[p], a, b)

Lists(rl) ==
  /\ rl \in [Priorities -> Seq(Slots)]
  /\ \A p \in Priorities : Injective(rl[p])

(* Removing a task changes nobody else's order. *)
LEMMA RemoveOrdered ==
  ASSUME NEW rl, Lists(rl), Fields, NEW s \in Slots
  PROVE  LET rl2 == scheduler_remove_task(rl, s)
         IN  /\ Lists(rl2)
             /\ Ordered(rl) => Ordered(rl2)
             /\ Kept(rl) /\ s = current_tcb => Kept(rl2)
<1> DEFINE rl2 == scheduler_remove_task(rl, s)
           q == priority[s]
<1>1. q \in Priorities /\ rl[q] \in Seq(Slots) /\ Injective(rl[q])
  BY DEF Fields, Lists
<1>2. RemoveFirst(rl[q], s) \in Seq(Slots) /\ Injective(RemoveFirst(rl[q], s))
  BY <1>1, RemoveFacts
<1>3. /\ rl2 \in [Priorities -> Seq(Slots)]
      /\ rl2[q] = RemoveFirst(rl[q], s)
      /\ \A p \in Priorities : p # q => rl2[p] = rl[p]
  BY <1>1, <1>2 DEF Lists, scheduler_remove_task
<1>4. Lists(rl2)
  BY <1>2, <1>3 DEF Lists
<1>5. \A a, b : Before(rl2[q], a, b) <=> Before(rl[q], a, b) /\ a # s /\ b # s
  BY <1>1, <1>3, RemoveOrder
<1> HIDE DEF rl2, q
<1>6. Ordered(rl) => Ordered(rl2)
  BY <1>3, <1>5 DEF Ordered
<1>7. Kept(rl) /\ s = current_tcb => Kept(rl2)
  BY <1>3, <1>5 DEF Kept
<1> QED
  BY <1>4, <1>6, <1>7 DEF rl2

(* A task that is added comes after those that wait. *)
LEMMA AddOrdered ==
  ASSUME NEW rl, Lists(rl), NEW s \in Slots, NEW q \in Priorities,
         ~Contains(rl[q], s)
  PROVE  LET rl2 == scheduler_add_task(rl, s, q)
         IN  /\ Lists(rl2)
             /\ Ordered(rl) /\ s = current_tcb => Ordered(rl2)
             /\ Kept(rl) => Kept(rl2)
             /\ \A p \in Priorities : \A a, b \in Slots :
                  Before(rl2[p], a, b) => Before(rl[p], a, b) \/ b = s
<1> DEFINE rl2 == scheduler_add_task(rl, s, q)
<1>1. rl[q] \in Seq(Slots) /\ Injective(rl[q])
  BY DEF Lists
<1>2. Append(rl[q], s) \in Seq(Slots) /\ Injective(Append(rl[q], s))
  BY <1>1, AppendFacts
<1>3. /\ rl2 \in [Priorities -> Seq(Slots)]
      /\ rl2[q] = Append(rl[q], s)
      /\ \A p \in Priorities : p # q => rl2[p] = rl[p]
  BY <1>1, <1>2 DEF Lists, scheduler_add_task
<1>4. Lists(rl2)
  BY <1>2, <1>3 DEF Lists
<1>5. \A a, b : /\ Before(rl[q], a, b) => Before(rl2[q], a, b)
                /\ Before(rl2[q], a, b) => Before(rl[q], a, b) \/ b = s
  BY <1>1, <1>3, AppendOrder
<1> HIDE DEF rl2
<1>6. Ordered(rl) /\ s = current_tcb => Ordered(rl2)
  BY <1>3, <1>5 DEF Ordered
<1>7. Kept(rl) => Kept(rl2)
  BY <1>3, <1>5 DEF Kept
<1>8. \A p \in Priorities : \A a, b \in Slots :
        Before(rl2[p], a, b) => Before(rl[p], a, b) \/ b = s
  BY <1>3, <1>5
<1> QED
  BY <1>4, <1>6, <1>7, <1>8 DEF rl2

(* What a scheduling step promises about order: nobody but the current     *)
(* task falls behind, and a task that had another before it is not chosen. *)
Fair ==
  /\ Ordered(ready_lists')
  /\ \A p \in Priorities : \A a, b \in Slots :
       Before(ready_lists[p], a, b) /\ a # current_tcb =>
         (current_tcb' = b => current_tcb = b)

(* schedule takes the head of a list, so it overtakes nobody. *)
LEMMA ScheduleOrder ==
  ASSUME NEW st, NEW rl, Exact(st, rl), Fields, Ordered(rl), Kept(rl),
         \A p \in Priorities, a, b \in Slots :
            Before(ready_lists[p], a, b) => priority[b] = p,
         schedule(st, rl)
  PROVE  Fair
<1>0. Lists(rl)
  BY DEF Exact, Lists
<1>1. CASE KeepCurrent(st, rl)
  BY <1>1 DEF KeepCurrent, Fair
<1>2. ASSUME NEW p \in Priorities, HighestLevel(rl, p),
             SwitchTo(Head(rl[p]), st, rl)
      PROVE  Fair
  <2> DEFINE next == Head(rl[p])
             rotate == current_tcb # NULL /\ st[current_tcb] = "READY"
             unlinked == scheduler_remove_task(rl, current_tcb)
             rotated == IF rotate
                        THEN scheduler_add_task(unlinked, current_tcb,
                                                priority[current_tcb])
                        ELSE rl
  <2>1. next \in Slots /\ priority[next] = p
    BY <1>2, HighestLevelFacts
  <2>2. Lists(rotated) /\ Ordered(rotated)
    <3>1. CASE rotate
      <4> DEFINE c == current_tcb
      <4>1. c \in Slots /\ priority[c] \in Priorities
        BY <3>1 DEF Fields
      <4>2. Lists(unlinked) /\ Ordered(unlinked)
        BY <1>0, <4>1, RemoveOrdered
      <4>3. ~Contains(unlinked[priority[c]], c)
        <5>1. unlinked[priority[c]] = RemoveFirst(rl[priority[c]], c)
          BY <1>0, <4>1 DEF scheduler_remove_task, Lists
        <5>2. rl[priority[c]] \in Seq(Slots) /\ Injective(rl[priority[c]])
          BY <1>0, <4>1 DEF Lists
        <5> QED
          BY <5>1, <5>2, RemoveFacts
      <4>4. rotated = scheduler_add_task(unlinked, c, priority[c])
        BY <3>1
      <4> HIDE DEF unlinked, rotated
      <4> QED
        BY <4>1, <4>2, <4>3, <4>4, AddOrdered
    <3> QED
      BY <1>0, <3>1
  <2>3. /\ ready_lists' = scheduler_remove_task(rotated, next)
        /\ current_tcb' = next
    BY <1>2 DEF SwitchTo
  <2> HIDE DEF rotated
  <2>4. Ordered(scheduler_remove_task(rotated, next))
    BY <2>1, <2>2, RemoveOrdered
  <2>5. Ordered(ready_lists')
    BY <2>3, <2>4
  <2>6. ASSUME NEW q \in Priorities, NEW a \in Slots, NEW b \in Slots,
               Before(ready_lists[q], a, b), a # current_tcb,
               next = b, current_tcb # b
        PROVE  FALSE
    <3>1. q = p
      BY <2>1, <2>6
    <3>2. Before(rl[p], a, b)
      BY <2>6, <3>1 DEF Kept
    <3>3. rl[p] \in Seq(Slots) /\ Injective(rl[p])
      BY <1>0 DEF Lists
    <3> QED
      BY <2>6, <3>2, <3>3, BeforeAsymmetric
  <2> QED
    BY <2>3, <2>5, <2>6 DEF Fair
<1> QED
  BY <1>1, <1>2 DEF schedule

(* Nor does scheduler_yield, which appends the task it takes off the CPU. *)
LEMMA YieldOrder ==
  ASSUME NEW st, NEW rl, Exact(st, rl), Fields, Ordered(rl), Kept(rl),
         \A p \in Priorities, a, b \in Slots :
            Before(ready_lists[p], a, b) => priority[b] = p,
         scheduler_yield(st, rl)
  PROVE  Fair
<1> DEFINE running == current_tcb # NULL /\ st[current_tcb] = "RUNNING"
           st1 == [st EXCEPT ![current_tcb] = "READY"]
           rl1 == scheduler_add_task(rl, current_tcb, priority[current_tcb])
<1>1. CASE KeepCurrent(st, rl)
  BY <1>1 DEF KeepCurrent, Fair
<1>2. CASE running /\ schedule(st1, rl1)
  <2>1. Exact(st1, rl1)
    BY <1>2, AddExact DEF Fields
  <2>2. Ordered(rl1) /\ Kept(rl1)
    <3>1. current_tcb \in Slots /\ priority[current_tcb] \in Priorities
      BY <1>2 DEF Fields
    <3>2. ~Contains(rl[priority[current_tcb]], current_tcb) /\ Lists(rl)
      BY <1>2, <3>1 DEF Exact, Lists
    <3> QED
      BY <3>1, <3>2, AddOrdered
  <2> HIDE DEF st1, rl1
  <2> QED
    BY <1>2, <2>1, <2>2, ScheduleOrder
<1>3. CASE schedule(st, rl)
  BY <1>3, ScheduleOrder
<1> QED
  BY <1>1, <1>2, <1>3 DEF scheduler_yield

(* No step reverses two waiting tasks or dispatches the later one first. *)
LEMMA OvertakingStep ==
  ASSUME IInv, [Next]_vars,
         NEW p \in Priorities, NEW a \in Slots, NEW b \in Slots,
         Before(ready_lists[p], a, b), a # current_tcb
  PROVE  /\ ~Before(ready_lists'[p], b, a)
         /\ current_tcb' = b => current_tcb = b
<1>1. Lists(ready_lists) /\ Ordered(ready_lists) /\ Kept(ready_lists)
  BY IInvExact DEF Exact, Lists, Ordered, Kept
<1>2. \A q \in Priorities, x, y \in Slots :
        Before(ready_lists[q], x, y) => priority[y] = q /\ Contains(ready_lists[q], x)
  BY IInvExact DEF Exact, Before, Contains
<1>3. ~Before(ready_lists[p], b, a)
  BY <1>1, BeforeAsymmetric DEF Lists
<1>4. ASSUME Ordered(ready_lists')
      PROVE  ~Before(ready_lists'[p], b, a)
  BY <1>3, <1>4 DEF Ordered
<1>5. CASE UNCHANGED vars
  BY <1>3, <1>5 DEF vars
<1>6. ASSUME NEW s \in Slots, NEW q \in Priorities, LinksTask(s, q)
      PROVE  ~Before(ready_lists'[p], b, a) /\ current_tcb' = current_tcb
  <2>1. /\ ~Contains(ready_lists[q], s) /\ ~Contains(ready_lists[p], s)
        /\ ready_lists' = scheduler_add_task(ready_lists, s, q)
        /\ current_tcb' = current_tcb
    BY <1>6 DEF LinksTask
  <2>2. Before(ready_lists'[p], b, a) => Before(ready_lists[p], b, a) \/ a = s
    BY <1>1, <2>1, AddOrdered
  <2> QED
    BY <1>2, <1>3, <2>1, <2>2
<1>7. ASSUME NEW s \in Slots, NEW st, NEW rl, Unlinks(s, st, rl)
      PROVE  ~Before(ready_lists'[p], b, a) /\ current_tcb' = current_tcb
  <2>1. Ordered(scheduler_remove_task(ready_lists, s))
    BY <1>1, IInvExact, RemoveOrdered
  <2> QED
    BY <1>4, <1>7, <2>1 DEF Unlinks, KeepCurrent
<1>8. CASE TickKeeps
  BY <1>3, <1>8 DEF TickKeeps, KeepCurrent
<1>9. ASSUME NEW st, NEW rl, Reschedules(st, rl)
      PROVE  /\ ~Before(ready_lists'[p], b, a)
             /\ current_tcb' = b => current_tcb = b
  <2>1. Ordered(rl) /\ Kept(rl)
    <3>1. CASE CurrentUnlinked(rl)
      <4>1. /\ current_tcb \in Slots
            /\ rl = scheduler_remove_task(ready_lists, current_tcb)
        BY <3>1, IInvExact DEF CurrentUnlinked, Fields
      <4> QED
        BY <1>1, <4>1, IInvExact, RemoveOrdered
    <3> QED
      BY <1>1, <1>9, <3>1 DEF Reschedules
  <2>2. Fair
    BY <1>2, <1>9, <2>1, IInvExact, YieldOrder, ScheduleOrder DEF Reschedules
  <2> QED
    BY <1>4, <2>2 DEF Fair
<1> QED
  BY <1>5, <1>6, <1>7, <1>8, <1>9, StepCases DEF StepCase, vars, TickKeeps,
     KeepCurrent

(* NoOvertaking, for any number of tasks and priorities: no call lets a    *)
(* task overtake another of its priority, the caller's own yield apart.    *)
THEOREM FirstComeFirstServed == Spec => NoOvertaking
<1>1. IInv /\ [Next]_vars =>
        [\A p \in Priorities : \A a, b \in Slots :
           (Before(ready_lists[p], a, b) /\ a # current_tcb) =>
             /\ ~Before(ready_lists'[p], b, a)
             /\ current_tcb' = b => current_tcb = b]_vars
  BY OvertakingStep
<1> QED
  BY <1>1, SpecIInv, PTL DEF Spec, NoOvertaking
=============================================================================
