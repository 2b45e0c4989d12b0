---------------------------- MODULE KernelStores ----------------------------
(***************************************************************************)
(* The kernel of module Kernel at the grain of its stores: a ready list is *)
(* the pointers of scheduler.c, and a call is the sequence of the steps it *)
(* has left, each a read or a few adjacent stores of the code.  The        *)
(* critical sections are no steps: rtos_types.h defines                    *)
(* RTOS_ENTER_CRITICAL and RTOS_EXIT_CRITICAL as nothing.  context_switch  *)
(* only prints, so a call that switches tasks goes on.  Here nothing       *)
(* interrupts a call; module KernelIsr adds interrupts.                    *)
(*                                                                         *)
(* Wake times and the tick count are left out: delayed_list is always      *)
(* empty (Kernel), so nothing reads them.                                  *)
(***************************************************************************)
EXTENDS Integers, Sequences

CONSTANTS
  MAX_TASKS, NUM_PRIORITY_LEVELS, MaxTaskId   \* as in Kernel

ASSUME StoresAssumption ==
  /\ MAX_TASKS \in Nat \ {0} /\ NUM_PRIORITY_LEVELS \in Nat \ {0}
  /\ MaxTaskId \in Nat

VARIABLES
  state, priority, task_id, next,   \* the fields of each TCB
  ready_lists,                      \* the first TCB of each list
  current_tcb, current_task, scheduler_running, next_task_id,
  code                              \* the steps left of the call

tcbs == <<state, priority, task_id>>
links == <<next, ready_lists>>
current == <<current_tcb, current_task>>
others == <<scheduler_running, next_task_id>>
storesVars == <<tcbs, links, current, others, code>>

Slots == 1..MAX_TASKS
NULL == 0
Priorities == 0..(NUM_PRIORITY_LEVELS - 1)

StoresInit ==
  /\ state = [s \in Slots |-> "READY"]
  /\ priority = [s \in Slots |-> 0] /\ task_id = [s \in Slots |-> 0]
  /\ next = [s \in Slots |-> NULL]
  /\ ready_lists = [p \in Priorities |-> NULL]
  /\ current_tcb = NULL /\ current_task = NULL
  /\ scheduler_running = FALSE /\ next_task_id = 1
  /\ code = <<>>

-----------------------------------------------------------------------------
(* Steps.  A step is an operation and its operands.                         *)

AtRest == code = <<>>
At(op) == code # <<>> /\ code[1][1] = op
Operand(i) == code[1][i + 1]

(* The step is done, and before what is left come the steps `more'.         *)
Proceed(more) == code' = more \o Tail(code)

(* A step that stores nothing and only decides what comes next.             *)
Decide(op, more) ==
  At(op) /\ Proceed(more) /\ UNCHANGED <<tcbs, links, current, others>>

-----------------------------------------------------------------------------
(* Ready lists.                                                             *)

(* The TCBs reached from s along the pointers nx, more than MAX_TASKS in a  *)
(* cycle.                                                                   *)
Chain(nx, s) ==
  LET from[n \in 0..(MAX_TASKS + 1)] ==
        [t \in Slots \cup {NULL} |->
           IF n = 0 \/ t = NULL THEN <<>> ELSE <<t>> \o from[n - 1][nx[t]]]
  IN  from[MAX_TASKS + 1][s]
List(p) == Chain(next, ready_lists[p])

(* State, next and the walk to the tail; linked by the next step.  A walk   *)
(* in a cycle does not end.                                                 *)
scheduler_add_task ==
  LET s    == Operand(1)
      list == List(priority[s])
      tail == IF list = <<>> THEN NULL ELSE list[Len(list)]
  IN  /\ At("add") /\ Len(list) <= MAX_TASKS
      /\ state' = [state EXCEPT ![s] = "READY"]
      /\ next' = [next EXCEPT ![s] = NULL]
      /\ Proceed(<< <<"link", s, tail>> >>)
      /\ UNCHANGED <<priority, task_id, ready_lists, current, others>>

link_tail ==
  LET s == Operand(1)  tail == Operand(2)
  IN  /\ At("link") /\ Proceed(<<>>)
      /\ IF tail = NULL
         THEN ready_lists' = [ready_lists EXCEPT ![priority[s]] = s]
              /\ UNCHANGED next
         ELSE next' = [next EXCEPT ![tail] = s] /\ UNCHANGED ready_lists
      /\ UNCHANGED <<tcbs, current, others>>

(* The walk to s, endless in a cycle without it; a TCB that is not in its   *)
(* list is left alone.                                                      *)
scheduler_remove_task ==
  LET s    == Operand(1)
      list == List(priority[s])
      here == {i \in 1..Len(list) : list[i] = s}
      i    == CHOOSE i \in here : \A j \in here : i <= j
      prev == IF i = 1 THEN NULL ELSE list[i - 1]
  IN  /\ At("remove") /\ (here # {} \/ Len(list) <= MAX_TASKS)
      /\ Decide("remove", IF here = {} THEN <<>>
                          ELSE << <<"unlink", s, prev, next[s]>> >>)

UnlinkDropsRest ==
  LET s == Operand(1)  prev == Operand(2)
  IN  /\ At("unlink") /\ Proceed(<<>>)
      /\ next' = [t \in Slots |-> IF t \in {s, prev} THEN NULL ELSE next[t]]
      /\ ready_lists' = IF prev = NULL
                        THEN [ready_lists EXCEPT ![priority[s]] = Operand(3)]
                        ELSE ready_lists
      /\ UNCHANGED <<tcbs, current, others>>

unlink ==
  LET s == Operand(1)  prev == Operand(2)  succ == Operand(3)
  IN  /\ At("unlink") /\ Proceed(<<>>)
      /\ next' = [t \in Slots |-> IF t = s THEN NULL
                                  ELSE IF t = prev THEN succ ELSE next[t]]
      /\ ready_lists' = IF prev = NULL
                        THEN [ready_lists EXCEPT ![priority[s]] = succ]
                        ELSE ready_lists
      /\ UNCHANGED <<tcbs, current, others>>

(* NULL if all lists are empty.                                             *)
get_highest_priority_task ==
  LET full == {p \in Priorities : ready_lists[p] # NULL}
  IN  IF full = {} THEN NULL
      ELSE ready_lists[CHOOSE p \in full : \A q \in full : p <= q]

-----------------------------------------------------------------------------
(* Scheduling.                                                              *)

mark ==
  LET s == Operand(1)  st == Operand(2)
  IN  /\ At("mark") /\ Proceed(<<>>)
      /\ state' = [state EXCEPT ![s] = st]
      /\ UNCHANGED <<priority, task_id, links, current, others>>

(* Another task n is dispatched: a current task that is still READY goes to *)
(* the end of its list, then n leaves its list and runs.                    *)
DispatchSteps(n) ==
  LET c == current_tcb
  IN  (IF c # NULL /\ state[c] = "READY"
       THEN << <<"remove", c>>, <<"add", c>> >> ELSE <<>>)
        \o << <<"remove", n>>, <<"mark", n, "RUNNING">>,
              <<"switch", n>>, <<"set_current", n>> >>

ScheduleSpins ==
  LET n == get_highest_priority_task
  IN  Decide("schedule", IF n = NULL THEN << <<"schedule">> >>
                         ELSE IF n = current_tcb THEN <<>> ELSE DispatchSteps(n))

schedule ==
  LET n == get_highest_priority_task
  IN  Decide("schedule", IF n \in {NULL, current_tcb} THEN <<>>
                         ELSE DispatchSteps(n))

switch_tcb ==
  /\ At("switch") /\ Proceed(<<>>)
  /\ current_tcb' = Operand(1)
  /\ UNCHANGED <<tcbs, links, current_task, others>>

SetCurrentForgotten ==
  At("set_current") /\ Proceed(<<>>) /\ UNCHANGED <<tcbs, links, current, others>>

task_set_current ==
  /\ At("set_current") /\ Proceed(<<>>)
  /\ current_task' = Operand(1)
  /\ UNCHANGED <<tcbs, links, current_tcb, others>>

scheduler_yield ==
  Decide("yield", IF scheduler_running
                  THEN << <<"requeue">>, <<"schedule">> >> ELSE <<>>)

requeue ==
  LET running == current_tcb # NULL /\ state[current_tcb] = "RUNNING"
  IN  Decide("requeue", IF running
        THEN << <<"mark", current_tcb, "READY">>, <<"add", current_tcb>> >>
        ELSE <<>>)

scheduler_tick ==
  LET h == get_highest_priority_task
      preempts == /\ scheduler_running /\ h # NULL /\ current_tcb # NULL
                  /\ priority[h] < priority[current_tcb]
  IN  Decide("tick", IF preempts THEN << <<"yield">> >> ELSE <<>>)

scheduler_start ==
  /\ At("start") /\ Proceed(<< <<"schedule">> >>)
  /\ scheduler_running' = TRUE
  /\ UNCHANGED <<tcbs, links, current, next_task_id>>

-----------------------------------------------------------------------------
(* The task API.  Kernel has the early returns that change nothing.         *)

K == INSTANCE Kernel WITH
       TICK_MOD <- 1, Ticks <- {}, system_tick_count <- 0,
       wake_time <- [s \in Slots |-> 0], delayed_list <- <<>>,
       ready_lists <- [p \in Priorities |-> List(p)]

Create(s, p, id) ==
  /\ task_id' = [task_id EXCEPT ![s] = id]
  /\ priority' = [priority EXCEPT ![s] = p]
  /\ state' = [state EXCEPT ![s] = "READY"]
  /\ next' = [next EXCEPT ![s] = NULL]
  /\ Proceed(<< <<"add", s>> >>)
  /\ UNCHANGED <<ready_lists, current, scheduler_running>>

create ==
  /\ At("create")
  /\ \/ /\ \A s \in Slots : ~K!FreeTcb(s)          \* RTOS_ERROR_NO_MEMORY
        /\ Proceed(<<>>)
        /\ UNCHANGED <<tcbs, links, current, others>>
     \/ \E s \in Slots :
          /\ K!FreeTcb(s) /\ \A t \in 1..(s - 1) : ~K!FreeTcb(t)
          /\ Create(s, Operand(1), next_task_id)
          /\ next_task_id' = next_task_id + 1

(* task_delete and task_suspend to the end of the call.                     *)
StopSteps(s, st) ==
  (IF st = "DELETED" THEN << <<"remove", s>>, <<"mark", s, st>> >>
                     ELSE << <<"mark", s, st>>, <<"remove", s>> >>)
    \o << <<"resched", s>> >>

stop ==
  LET id == Operand(1)  st == Operand(2)
  IN  \/ At("stop") /\ K!NoTcb(id) /\ Decide("stop", <<>>)
      \/ \E s \in Slots : /\ At("stop") /\ K!task_get_tcb(id, s)
                          /\ Decide("stop", StopSteps(s, st))

ReschedNothing == Decide("resched", <<>>)

(* At the end of the call: yield if the TCB stopped is the current one.     *)
resched ==
  Decide("resched", IF Operand(1) = current_task
                    THEN << <<"yield">> >> ELSE <<>>)

resume ==
  LET found == {s \in Slots : /\ K!task_get_tcb(Operand(1), s)
                              /\ state[s] = "SUSPENDED"}
  IN  \/ At("resume") /\ found = {} /\ Decide("resume", <<>>)
      \/ /\ At("resume")
         /\ \E s \in found :
              Decide("resume", << <<"mark", s, "READY">>, <<"add", s>> >>)

block ==
  Decide("block", << <<"mark", current_task, "BLOCKED">>,
                     <<"remove", current_task>> >>)

(* What each call has to do when it is entered.                             *)
task_create(p) == << <<"create", p>> >>
task_delete(id) == << <<"stop", id, "DELETED">> >>
task_suspend(id) == << <<"stop", id, "SUSPENDED">> >>
task_resume(id) == << <<"resume", id>> >>
task_delay == << <<"block">>, <<"yield">> >>
task_yield == << <<"yield">> >>

-----------------------------------------------------------------------------
(* The application: as in Kernel, it passes ids that task_create has        *)
(* returned or will return, and starts the scheduler once.                  *)

call(steps) ==
  /\ AtRest /\ code' = steps
  /\ UNCHANGED <<tcbs, links, current, others>>

KernelCall ==
  \/ \E p \in Priorities :
       /\ next_task_id > MaxTaskId => \A s \in Slots : ~K!FreeTcb(s)
       /\ call(task_create(p))
  \/ \E id \in 1..MaxTaskId : \/ call(task_delete(id))
                              \/ call(task_suspend(id))
                              \/ call(task_resume(id))
  \/ current_task # NULL /\ call(task_delay)
  \/ call(task_yield)
  \/ call(<< <<"tick">> >>)
  \/ ~scheduler_running /\ call(<< <<"start">> >>)

Step ==
  \/ scheduler_add_task \/ link_tail \/ scheduler_remove_task \/ unlink
  \/ mark \/ schedule \/ switch_tcb \/ task_set_current
  \/ scheduler_yield \/ requeue \/ scheduler_tick \/ scheduler_start
  \/ create \/ stop \/ resched \/ resume \/ block

StoresNext == KernelCall \/ Step

(* A call that has begun goes on.                                           *)
StoresSpec == StoresInit /\ [][StoresNext]_storesVars /\ WF_storesVars(Step)

-----------------------------------------------------------------------------
(* Properties.                                                              *)

(* However the pointers were relinked in the middle of calls, at the end of *)
(* each the chain that starts at ready_lists[p] is a list: it ends, and     *)
(* links exactly the READY tasks of priority p, once each.                  *)
ListsIntact == AtRest => K!ReadyListsExact

(* The stores to state, current_tcb and current_task, made one after        *)
(* another by schedule and its callers, leave one RUNNING task at most and  *)
(* both files with the same current task.                                   *)
OneRunningAtRest == AtRest => K!OneRunning

(* Every call ends: no list is ever closed into a cycle, in which the walks *)
(* of scheduler_add_task and scheduler_remove_task would not.               *)
CallsEnd == []<>AtRest
=============================================================================
