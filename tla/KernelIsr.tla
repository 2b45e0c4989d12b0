----------------------------- MODULE KernelIsr ------------------------------
(***************************************************************************)
(* The calls of module KernelStores under interrupts.  On a Cortex-M the   *)
(* SysTick handler calls scheduler_tick, and on Windows a thread does; the *)
(* handler of a driver may resume a task.  Nothing holds them off:         *)
(* RTOS_ENTER_CRITICAL is empty on both targets, so one may come before    *)
(* any step of a call, or of scheduler_start.  Interrupts have one         *)
(* priority and do not nest.                                               *)
(***************************************************************************)
EXTENDS KernelStores

VARIABLE interrupted   \* the steps left of the call that was interrupted

isrVars == <<storesVars, interrupted>>

IsrInit == StoresInit /\ interrupted = <<>>

interrupt(steps) ==
  /\ interrupted = <<>>
  /\ interrupted' = <<code>> /\ code' = steps
  /\ UNCHANGED <<tcbs, links, current, others>>

SysTick == interrupt(<< <<"tick">> >>)
Handler == \E id \in 1..MaxTaskId : interrupt(task_resume(id))

return ==
  /\ interrupted # <<>> /\ AtRest
  /\ code' = interrupted[1] /\ interrupted' = <<>>
  /\ UNCHANGED <<tcbs, links, current, others>>

IsrNext ==
  \/ interrupted = <<>> /\ KernelCall /\ UNCHANGED interrupted
  \/ Step /\ UNCHANGED interrupted
  \/ SysTick \/ Handler \/ return

IsrSpec == IsrInit /\ [][IsrNext]_isrVars

-----------------------------------------------------------------------------
(* Properties.                                                              *)

(* uart_driver.c says of RTOS_ENTER_CRITICAL: "Disable interrupts for       *)
(* thread safety", and rtos_types.h that "real embedded would disable       *)
(* interrupts".  Calls that were safe against interrupts would leave, when  *)
(* they and the interrupts are over, lists of exactly the READY tasks: no   *)
(* task lost that a handler resumed while another was being linked.         *)
ListsSurviveInterrupts ==
  AtRest /\ interrupted = <<>> => K!ReadyListsExact
=============================================================================
