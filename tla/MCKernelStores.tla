--------------------------- MODULE MCKernelStores ---------------------------
(* Three TCBs, so that one is first, one last and one in the middle of a    *)
(* list, at two priorities, and a fourth task to reuse a TCB.               *)
(*                                                                          *)
(* rest is a history variable: what the lists and the TCBs were when the    *)
(* last call ended.  It changes at once when a call ends, which is the step *)
(* that Kernel takes for the whole call.                                    *)
EXTENDS KernelStores

VARIABLE rest

Observed ==
  [state |-> state, priority |-> priority, task_id |-> task_id,
   lists |-> [p \in Priorities |-> List(p)],
   tcb |-> current_tcb, task |-> current_task,
   running |-> scheduler_running, next_id |-> next_task_id]

MCInit == StoresInit /\ rest = Observed

MCNext ==
  /\ StoresNext
  /\ rest' = IF AtRest' THEN Observed' ELSE rest

MCSpec == MCInit /\ [][MCNext]_<<storesVars, rest>> /\ WF_storesVars(Step)

Atomic == INSTANCE Kernel WITH
  TICK_MOD <- 1, Ticks <- {0}, system_tick_count <- 0,
  wake_time <- [s \in Slots |-> 0], delayed_list <- <<>>,
  state <- rest.state, priority <- rest.priority, task_id <- rest.task_id,
  ready_lists <- rest.lists, current_tcb <- rest.tcb,
  current_task <- rest.task, scheduler_running <- rest.running,
  next_task_id <- rest.next_id

(* The calls of Kernel; time is left out, so one delay stands for all.      *)
AtomicCall ==
  \/ \E p \in Priorities : Atomic!task_create(p)
  \/ \E id \in 1..MaxTaskId : \/ Atomic!task_delete(id)
                              \/ Atomic!task_suspend(id)
                              \/ Atomic!task_resume(id)
  \/ Atomic!task_delay(1) \/ Atomic!task_yield
  \/ Atomic!scheduler_tick \/ Atomic!scheduler_start

(* The pointer code implements Kernel: all the stores of a call together do *)
(* to the lists, the states and the current task what the one action of     *)
(* Kernel does, so that what is shown of Kernel's sequences holds of the    *)
(* pointers between calls.                                                  *)
ImplementsKernel == Atomic!Init /\ [][AtomicCall]_(Atomic!vars)
=============================================================================
