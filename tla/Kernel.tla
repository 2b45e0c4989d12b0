------------------------------- MODULE Kernel -------------------------------
(***************************************************************************)
(* The task manager (src/kernel/task.c) and the priority scheduler         *)
(* (src/kernel/scheduler.c).  They share the TCBs, so they are one state   *)
(* machine: every public call of either file is one action.  The calls are *)
(* not protected from interrupts (RTOS_ENTER_CRITICAL is empty), so this   *)
(* is the kernel whose calls come one after another: KernelStores has the  *)
(* stores of each call, KernelIsr the interrupts between the stores.       *)
(*                                                                         *)
(* A TCB is the number of its slot in task_pool and NULL is 0.  A ready    *)
(* list linked through tcb->next is the sequence of its TCBs; that is an   *)
(* exact picture because no call reuses a TCB that is still linked, which  *)
(* ReadyListsExact checks.  Names, stacks and console output are left out. *)
(***************************************************************************)
EXTENDS Integers, Sequences, SequencesExt

CONSTANTS
  MAX_TASKS,            \* slots of task_pool
  NUM_PRIORITY_LEVELS,  \* priorities 0 (highest) .. NUM_PRIORITY_LEVELS - 1
  TICK_MOD,             \* tick_t is an unsigned counter modulo TICK_MOD
  MaxTaskId,            \* bound: ids handed out, below the wrap at 2^32
  Ticks                 \* the arguments passed to task_delay

ASSUME KernelAssumption ==
  /\ MAX_TASKS \in Nat \ {0}
  /\ NUM_PRIORITY_LEVELS \in Nat \ {0}
  /\ TICK_MOD \in Nat \ {0}
  /\ MaxTaskId \in Nat
  /\ Ticks \subseteq 0..(TICK_MOD - 1)

VARIABLES
  state, priority, task_id, wake_time,  \* the fields of each TCB of task_pool
  ready_lists,        \* one list per priority
  delayed_list,       \* sleeping tasks by wake time
  current_tcb,        \* the scheduler's current task
  current_task,       \* the task manager's copy of it
  scheduler_running, system_tick_count, next_task_id

tcbs == <<state, priority, task_id, wake_time>>
vars == <<tcbs, ready_lists, delayed_list, current_tcb, current_task,
          scheduler_running, system_tick_count, next_task_id>>

Slots == 1..MAX_TASKS
NULL == 0
Priorities == 0..(NUM_PRIORITY_LEVELS - 1)
TaskStates == {"READY", "RUNNING", "BLOCKED", "SUSPENDED", "DELETED"}

(* task_init and scheduler_init: a zeroed TCB is READY (state 0) with id 0. *)
Init ==
  /\ state = [s \in Slots |-> "READY"]
  /\ priority = [s \in Slots |-> 0]
  /\ task_id = [s \in Slots |-> 0]
  /\ wake_time = [s \in Slots |-> 0]
  /\ ready_lists = [p \in Priorities |-> <<>>]
  /\ delayed_list = <<>>
  /\ current_tcb = NULL
  /\ current_task = NULL
  /\ scheduler_running = FALSE
  /\ system_tick_count = 0
  /\ next_task_id = 1

-----------------------------------------------------------------------------
(* Ready lists.  Every caller of scheduler_add_task also has the TCB's      *)
(* state set to READY, which is done where the states are computed.         *)

AddAtHead(rl, s, p) == [rl EXCEPT ![p] = <<s>> \o @]

scheduler_add_task(rl, s, p) == [rl EXCEPT ![p] = Append(@, s)]

scheduler_remove_task(rl, s) == [rl EXCEPT ![priority[s]] = RemoveFirst(@, s)]

LowestNonEmpty(rl, p) ==
  /\ rl[p] # <<>>
  /\ \A q \in Priorities : q > p => rl[q] = <<>>

(* get_highest_priority_task returns the head of list p.                    *)
HighestLevel(rl, p) ==
  /\ rl[p] # <<>>
  /\ \A q \in Priorities : q < p => rl[q] = <<>>

(* Dispatch of another task: a current task that is still READY goes to the *)
(* end of its list, then next_task leaves its list and runs.                *)
SwitchTo(next, st, rl) ==
  LET rotated ==
        IF current_tcb # NULL /\ st[current_tcb] = "READY"
        THEN scheduler_add_task(scheduler_remove_task(rl, current_tcb),
                                current_tcb, priority[current_tcb])
        ELSE rl
  IN  /\ ready_lists' = scheduler_remove_task(rotated, next)
      /\ state' = [st EXCEPT ![next] = "RUNNING"]
      /\ current_tcb' = next
      /\ current_task' = next

KeepCurrent(st, rl) ==
  /\ state' = st
  /\ ready_lists' = rl
  /\ UNCHANGED <<current_tcb, current_task>>

(* schedule(), entered with task states st and ready lists rl.              *)
schedule(st, rl) ==
  \/ /\ \A p \in Priorities : rl[p] = <<>>
     /\ KeepCurrent(st, rl)
  \/ \E p \in Priorities :
       /\ HighestLevel(rl, p)
       /\ \/ /\ Head(rl[p]) = current_tcb
             /\ KeepCurrent(st, rl)
          \/ /\ Head(rl[p]) # current_tcb
             /\ SwitchTo(Head(rl[p]), st, rl)

YieldWithoutRequeue(st, rl) ==
  IF scheduler_running THEN schedule(st, rl) ELSE KeepCurrent(st, rl)

(* scheduler_yield(), entered with task states st and ready lists rl.       *)
scheduler_yield(st, rl) ==
  LET running == current_tcb # NULL /\ st[current_tcb] = "RUNNING"
  IN  \/ /\ ~scheduler_running
         /\ KeepCurrent(st, rl)
      \/ /\ scheduler_running
         /\ running
         /\ schedule([st EXCEPT ![current_tcb] = "READY"],
                     scheduler_add_task(rl, current_tcb, priority[current_tcb]))
      \/ /\ scheduler_running
         /\ ~running
         /\ schedule(st, rl)

-----------------------------------------------------------------------------
(* Task management.                                                         *)

FreeTcb(s) == state[s] = "DELETED" \/ task_id[s] = 0

(* task_get_tcb(id) returns s: the first live slot with this id.            *)
HasId(s, id) == task_id[s] = id /\ state[s] # "DELETED"
task_get_tcb(id, s) == HasId(s, id) /\ \A t \in 1..(s - 1) : ~HasId(t, id)
NoTcb(id) == \A s \in Slots : ~HasId(s, id)

Initialise(s, p, id) ==
  /\ task_id' = [task_id EXCEPT ![s] = id]
  /\ priority' = [priority EXCEPT ![s] = p]
  /\ state' = [state EXCEPT ![s] = "READY"]
  /\ wake_time' = [wake_time EXCEPT ![s] = 0]
  /\ ready_lists' = scheduler_add_task(ready_lists, s, p)

CreateOffByOne(p) ==
  /\ p <= NUM_PRIORITY_LEVELS
  /\ next_task_id <= MaxTaskId
  /\ \E s \in Slots : FreeTcb(s) /\ Initialise(s, p, next_task_id)
  /\ next_task_id' = next_task_id + 1
  /\ UNCHANGED <<delayed_list, current_tcb, current_task, scheduler_running,
                 system_tick_count>>

CreateKeepsNextId(p) ==
  /\ p < NUM_PRIORITY_LEVELS
  /\ \E s \in Slots : FreeTcb(s) /\ Initialise(s, p, next_task_id)
  /\ UNCHANGED <<delayed_list, current_tcb, current_task, scheduler_running,
                 system_tick_count, next_task_id>>

(* A null task function takes the same exit as a priority out of range.     *)
task_create(p) ==
  \/ /\ p >= NUM_PRIORITY_LEVELS                   \* RTOS_ERROR_INVALID_PARAM
     /\ UNCHANGED vars
  \/ /\ p < NUM_PRIORITY_LEVELS
     /\ \A s \in Slots : ~FreeTcb(s)               \* RTOS_ERROR_NO_MEMORY
     /\ UNCHANGED vars
  \/ /\ p < NUM_PRIORITY_LEVELS
     /\ next_task_id <= MaxTaskId
     /\ \E s \in Slots :
          /\ FreeTcb(s)
          /\ \A t \in 1..(s - 1) : ~FreeTcb(t)
          /\ Initialise(s, p, next_task_id)
     /\ next_task_id' = next_task_id + 1
     /\ UNCHANGED <<delayed_list, current_tcb, current_task, scheduler_running,
                    system_tick_count>>

(* Take s off the ready lists in state st, and yield if s is the caller.    *)
StopTask(s, st) ==
  LET stopped == [state EXCEPT ![s] = st]
      unlinked == scheduler_remove_task(ready_lists, s)
  IN  \/ /\ s = current_task
         /\ scheduler_yield(stopped, unlinked)
      \/ /\ s # current_task
         /\ KeepCurrent(stopped, unlinked)

task_delete(id) ==
  \/ /\ NoTcb(id)                                  \* RTOS_ERROR_INVALID_PARAM
     /\ UNCHANGED vars
  \/ /\ \E s \in Slots : task_get_tcb(id, s) /\ StopTask(s, "DELETED")
     /\ UNCHANGED <<priority, task_id, wake_time, delayed_list,
                    scheduler_running, system_tick_count, next_task_id>>

SuspendKeepsLink(id) ==
  /\ \E s \in Slots :
       /\ task_get_tcb(id, s)
       /\ state' = [state EXCEPT ![s] = "SUSPENDED"]
  /\ UNCHANGED <<priority, task_id, wake_time, ready_lists, delayed_list,
                 current_tcb, current_task, scheduler_running,
                 system_tick_count, next_task_id>>

task_suspend(id) ==
  \/ /\ NoTcb(id)                                  \* RTOS_ERROR_INVALID_PARAM
     /\ UNCHANGED vars
  \/ /\ \E s \in Slots : task_get_tcb(id, s) /\ StopTask(s, "SUSPENDED")
     /\ UNCHANGED <<priority, task_id, wake_time, delayed_list,
                    scheduler_running, system_tick_count, next_task_id>>

task_resume(id) ==
  \/ /\ \A s \in Slots : task_get_tcb(id, s) => state[s] # "SUSPENDED"
     /\ UNCHANGED vars                             \* RTOS_ERROR_INVALID_PARAM
  \/ /\ \E s \in Slots :
          /\ task_get_tcb(id, s)
          /\ state[s] = "SUSPENDED"
          /\ state' = [state EXCEPT ![s] = "READY"]
          /\ ready_lists' = scheduler_add_task(ready_lists, s, priority[s])
     /\ UNCHANGED <<priority, task_id, wake_time, delayed_list, current_tcb,
                    current_task, scheduler_running, system_tick_count,
                    next_task_id>>

(* Blocks the current task; nothing puts it on delayed_list.                *)
task_delay(ticks) ==
  \/ /\ current_task = NULL \/ ticks = 0
     /\ UNCHANGED vars
  \/ /\ current_task # NULL
     /\ ticks > 0
     /\ wake_time' = [wake_time EXCEPT
          ![current_task] = (system_tick_count + ticks) % TICK_MOD]
     /\ scheduler_yield([state EXCEPT ![current_task] = "BLOCKED"],
                        scheduler_remove_task(ready_lists, current_task))
     /\ UNCHANGED <<priority, task_id, delayed_list, scheduler_running,
                    system_tick_count, next_task_id>>

task_yield ==
  /\ scheduler_yield(state, ready_lists)
  /\ UNCHANGED <<priority, task_id, wake_time, delayed_list,
                 scheduler_running, system_tick_count, next_task_id>>

-----------------------------------------------------------------------------
(* Ticks and start.                                                         *)

(* process_delayed_tasks() at the new tick count: the due prefix of         *)
(* delayed_list becomes READY, in order, each on the list of its priority.  *)
Due(s, tick) == wake_time[s] <= tick
DueCount(tick) ==
  CHOOSE n \in 0..Len(delayed_list) :
    /\ \A i \in 1..n : Due(delayed_list[i], tick)
    /\ n < Len(delayed_list) => ~Due(delayed_list[n + 1], tick)
process_delayed_tasks(tick) ==
  LET n     == DueCount(tick)
      woken == SubSeq(delayed_list, 1, n)
  IN  IF n = 0
      THEN [st |-> state, rl |-> ready_lists, dl |-> delayed_list]
      ELSE [st |-> [s \in Slots |->
                     IF s \in ToSet(woken) THEN "READY" ELSE state[s]],
            rl |-> [p \in Priorities |->
                     ready_lists[p] \o
                       SelectSeq(woken, LAMBDA s : priority[s] = p)],
            dl |-> SubSeq(delayed_list, n + 1, Len(delayed_list))]

PreemptsInverted(rl) ==
  /\ scheduler_running
  /\ current_tcb # NULL
  /\ \E p \in Priorities :
       HighestLevel(rl, p) /\ priority[Head(rl[p])] > priority[current_tcb]

Preempts(rl) ==
  /\ scheduler_running
  /\ current_tcb # NULL
  /\ \E p \in Priorities :
       HighestLevel(rl, p) /\ priority[Head(rl[p])] < priority[current_tcb]

scheduler_tick ==
  LET tick  == (system_tick_count + 1) % TICK_MOD
      awake == process_delayed_tasks(tick)
  IN  /\ system_tick_count' = tick
      /\ delayed_list' = awake.dl
      /\ \/ Preempts(awake.rl) /\ scheduler_yield(awake.st, awake.rl)
         \/ ~Preempts(awake.rl) /\ KeepCurrent(awake.st, awake.rl)
      /\ UNCHANGED <<priority, task_id, wake_time, scheduler_running,
                     next_task_id>>

scheduler_start ==
  /\ scheduler_running' = TRUE
  /\ schedule(state, ready_lists)
  /\ UNCHANGED <<priority, task_id, wake_time, delayed_list,
                 system_tick_count, next_task_id>>

-----------------------------------------------------------------------------
(* The application.  It passes ids that task_create has returned or will    *)
(* return (stale ones included), never 0, and starts the scheduler once.    *)

Next ==
  \/ \E p \in 0..NUM_PRIORITY_LEVELS : task_create(p)
  \/ \E id \in 1..MaxTaskId : task_delete(id)
  \/ \E id \in 1..MaxTaskId : task_suspend(id)
  \/ \E id \in 1..MaxTaskId : task_resume(id)
  \/ \E n \in Ticks : task_delay(n)
  \/ task_yield
  \/ scheduler_tick
  \/ ~scheduler_running /\ scheduler_start

Spec == Init /\ [][Next]_vars

(* The SysTick interrupt keeps arriving whatever the tasks do.              *)
TickFairness == WF_vars(scheduler_tick)
(* The task that holds the CPU keeps giving it up.                          *)
YieldFairness == WF_vars(task_yield)

FairSpec == Spec /\ TickFairness
YieldingSpec == Spec /\ TickFairness /\ YieldFairness

-----------------------------------------------------------------------------
(* Properties.                                                              *)

(* Every field holds a value its C type and its role allow.                 *)
TypeOK ==
  /\ state \in [Slots -> TaskStates]
  /\ priority \in [Slots -> Priorities]
  /\ task_id \in [Slots -> 0..MaxTaskId]
  /\ wake_time \in [Slots -> 0..(TICK_MOD - 1)]
  /\ ready_lists \in [Priorities -> Seq(Slots)]
  /\ delayed_list \in Seq(Slots)
  /\ current_tcb \in Slots \cup {NULL}
  /\ current_task \in Slots \cup {NULL}
  /\ scheduler_running \in BOOLEAN
  /\ system_tick_count \in 0..(TICK_MOD - 1)
  /\ next_task_id \in 1..(MaxTaskId + 1)

(* No TCB is linked twice in one list.                                      *)
NoDuplicates ==
  \A p \in Priorities : \A i, j \in 1..Len(ready_lists[p]) :
    ready_lists[p][i] = ready_lists[p][j] => i = j

(* After any sequence of create, delete, suspend, resume, delay, yield and  *)
(* tick, the list of priority p links exactly the READY tasks of priority   *)
(* p, each once: no task is lost to the scheduler, and none that is         *)
(* blocked, suspended, deleted or never created can be dispatched.          *)
ReadyListsExact ==
  /\ NoDuplicates
  /\ \A p \in Priorities, s \in Slots :
       Contains(ready_lists[p], s) <=>
         task_id[s] # 0 /\ state[s] = "READY" /\ priority[s] = p

(* Only the task both files call current is RUNNING: schedule() and         *)
(* task_set_current never part, and no task keeps RUNNING after a switch.   *)
OneRunning ==
  /\ current_tcb = current_task
  /\ \A s \in Slots : state[s] = "RUNNING" => s = current_tcb
  /\ current_tcb # NULL => scheduler_running /\ task_id[current_tcb] # 0

(* Handles are unambiguous: no two slots carry the same id, deleted slots   *)
(* included, and an id once handed out never comes back on another task.    *)
UniqueIds ==
  /\ \A s \in Slots : task_id[s] < next_task_id
  /\ \A s, t \in Slots : s # t /\ task_id[s] = task_id[t] => task_id[s] = 0

(* Whenever the current task changes, whatever call caused it, the new one  *)
(* runs and no task left READY outranks it.                                 *)
DispatchIsHighest ==
  [][current_tcb' # current_tcb =>
       /\ state'[current_tcb'] = "RUNNING"
       /\ \A s \in Slots : state'[s] = "READY" /\ task_id'[s] # 0 =>
            priority'[s] >= priority'[current_tcb']]_vars

(* One tick ends every inversion: after it no READY task has a higher       *)
(* priority than the current task, however the task became READY.           *)
Outranked ==
  /\ scheduler_running /\ current_tcb # NULL
  /\ \E s \in Slots :
       /\ state[s] = "READY" /\ task_id[s] # 0
       /\ priority[s] < priority[current_tcb]
TickPreempts == [][system_tick_count' # system_tick_count => ~Outranked']_vars

(* Equal priorities are first come, first served: while two tasks wait in   *)
(* one list, only the current task ever falls behind the other.             *)
Before(q, a, b) == \E i, j \in 1..Len(q) : i < j /\ q[i] = a /\ q[j] = b
NoOvertaking ==
  [][\A p \in Priorities : \A a, b \in Slots :
       (Before(ready_lists[p], a, b) /\ a # current_tcb) =>
         /\ ~Before(ready_lists'[p], b, a)
         /\ current_tcb' = b => current_tcb = b]_vars

(* task.h: wake_time is the "Wake time for delayed tasks".  A task blocked  *)
(* by task_delay is woken once ticks have passed.                           *)
DelayedTaskWakes ==
  \A s \in Slots : state[s] = "BLOCKED" ~> state[s] # "BLOCKED"

(* scheduler.c and docs/ARCHITECTURE.md: "round-robin" for equal            *)
(* priorities.  A task that waits at the current task's priority, none      *)
(* READY above it, gets the CPU when the current task keeps yielding.       *)
PeerWaits(s) ==
  /\ current_tcb # NULL /\ s # current_tcb
  /\ state[s] = "READY" /\ task_id[s] # 0
  /\ priority[s] = priority[current_tcb]
  /\ \A t \in Slots : state[t] = "READY" /\ task_id[t] # 0 =>
                        priority[t] >= priority[s]
RoundRobin == \A s \in Slots : PeerWaits(s) ~> ~PeerWaits(s)
=============================================================================
