--------------------------- MODULE IrqDispatcher ----------------------------
(***************************************************************************)
(* The interrupt dispatcher of src/hal/interrupt_dispatcher.c on a         *)
(* Cortex-M: thread code registers and unregisters handlers field by       *)
(* field, and an interrupt may arrive between any two stores unless        *)
(* PRIMASK is set: irq_register and irq_unregister mask nothing, and their *)
(* caller may call them with interrupts on or off.  Interrupts nest; an    *)
(* interrupt that is being served is not served again before it returns.   *)
(* handler_count, a number that only irq_get_handler_count reads, is left  *)
(* out.                                                                    *)
(***************************************************************************)
EXTENDS Naturals, Sequences

CONSTANTS
  Irqs,        \* interrupt numbers in use
  Handlers,    \* handler functions; each is registered with a context of
               \* its own, named like the handler
  NULL,
  MaxCrit      \* depth to which critical sections are nested

ASSUME IrqAssumption ==
  /\ NULL \notin Handlers /\ NULL \notin Irqs
  /\ MaxCrit \in Nat \ {0}

VARIABLES
  irq_handlers,    \* the table of handler, context and registered
  in_isr_context,
  primask,         \* the PRIMASK register: interrupts are off
  stack            \* the thread, and above it the dispatches in progress

vars == <<irq_handlers, in_isr_context, primask, stack>>

(* What runs is the top of the stack.                                       *)
Top == stack[Len(stack)]
InThread == Len(stack) = 1
Goto(f) == stack' = [stack EXCEPT ![Len(stack)] = f]
Return == stack' = SubSeq(stack, 1, Len(stack) - 1)

(* flags holds what each irq_disable_global returned whose irq_restore is   *)
(* still to come, and opened counts those of these critical sections that   *)
(* irq_enable_global has ended in effect.                                   *)
NewFrame(i, where) ==
  [irq |-> i, pc |-> where, handler |-> NULL, context |-> NULL,
   was_in_isr |-> FALSE, flags |-> <<>>, opened |-> 0]

(* irq_dispatcher_init has run.                                             *)
Init ==
  /\ irq_handlers = [i \in Irqs |->
       [handler |-> NULL, context |-> NULL, registered |-> FALSE]]
  /\ in_isr_context = FALSE
  /\ primask \in BOOLEAN
  /\ stack = <<NewFrame(NULL, "run")>>

-----------------------------------------------------------------------------
(* Global interrupt control, in thread code and in handlers.                *)

irq_disable_global ==
  /\ Top.pc = "run" /\ Len(Top.flags) < MaxCrit
  /\ Goto([Top EXCEPT !.flags = Append(@, primask)])
  /\ primask' = TRUE
  /\ UNCHANGED <<irq_handlers, in_isr_context>>

LeaveSection ==
  LET depth == Len(Top.flags) - 1
  IN  Goto([Top EXCEPT !.flags = SubSeq(@, 1, depth),
                       !.opened = IF @ > depth THEN depth ELSE @])

RestoreUnmasks ==
  /\ Top.pc = "run" /\ Top.flags # <<>>
  /\ primask' = FALSE
  /\ LeaveSection
  /\ UNCHANGED <<irq_handlers, in_isr_context>>

(* flags is the value the matching irq_disable_global returned.             *)
irq_restore ==
  /\ Top.pc = "run" /\ Top.flags # <<>>
  /\ primask' = Top.flags[Len(Top.flags)]
  /\ LeaveSection
  /\ UNCHANGED <<irq_handlers, in_isr_context>>

irq_enable_global ==
  /\ Top.pc = "run"
  /\ primask' = FALSE
  /\ Goto([Top EXCEPT !.opened = Len(Top.flags)])
  /\ UNCHANGED <<irq_handlers, in_isr_context>>

-----------------------------------------------------------------------------
(* Registration, one action per store.                                      *)

irq_register(i, h) ==
  /\ InThread /\ Top.pc = "run"
  /\ irq_handlers' = [irq_handlers EXCEPT ![i].handler = h]
  /\ Goto([Top EXCEPT !.irq = i, !.context = h, !.pc = "context"])
  /\ UNCHANGED <<in_isr_context, primask>>

register_context ==
  /\ Top.pc = "context"
  /\ irq_handlers' = [irq_handlers EXCEPT ![Top.irq].context = Top.context]
  /\ Goto([Top EXCEPT !.pc = "registered"])
  /\ UNCHANGED <<in_isr_context, primask>>

register_registered ==
  /\ Top.pc = "registered"
  /\ irq_handlers' = [irq_handlers EXCEPT ![Top.irq].registered = TRUE]
  /\ Goto([NewFrame(NULL, "run") EXCEPT !.flags = Top.flags,
                                        !.opened = Top.opened])
  /\ UNCHANGED <<in_isr_context, primask>>

(* An interrupt without a handler is refused, RTOS_ERROR.                   *)
irq_unregister(i) ==
  /\ InThread /\ Top.pc = "run"
  /\ \/ /\ ~irq_handlers[i].registered
        /\ UNCHANGED <<irq_handlers, stack>>
     \/ /\ irq_handlers[i].registered
        /\ irq_handlers' = [irq_handlers EXCEPT ![i].handler = NULL]
        /\ Goto([Top EXCEPT !.irq = i, !.pc = "clear_context"])
  /\ UNCHANGED <<in_isr_context, primask>>

unregister_context ==
  /\ Top.pc = "clear_context"
  /\ irq_handlers' = [irq_handlers EXCEPT ![Top.irq].context = NULL]
  /\ Goto([Top EXCEPT !.pc = "clear_registered"])
  /\ UNCHANGED <<in_isr_context, primask>>

unregister_registered ==
  /\ Top.pc = "clear_registered"
  /\ irq_handlers' = [irq_handlers EXCEPT ![Top.irq].registered = FALSE]
  /\ Goto([NewFrame(NULL, "run") EXCEPT !.flags = Top.flags,
                                        !.opened = Top.opened])
  /\ UNCHANGED <<in_isr_context, primask>>

-----------------------------------------------------------------------------
(* Dispatch.                                                                *)

(* The hardware enters irq_dispatch through the vector table; no interrupt  *)
(* comes in a fault, which outranks them all.                               *)
interrupt(i) ==
  /\ ~primask /\ Top.pc # "fault"
  /\ \A k \in 2..Len(stack) : stack[k].irq # i
  /\ stack' = Append(stack, NewFrame(i, "enter"))
  /\ UNCHANGED <<irq_handlers, in_isr_context, primask>>

dispatch_enter ==
  /\ Top.pc = "enter"
  /\ Goto([Top EXCEPT !.was_in_isr = in_isr_context, !.pc = "mark"])
  /\ UNCHANGED <<irq_handlers, in_isr_context, primask>>

dispatch_mark ==
  /\ Top.pc = "mark"
  /\ in_isr_context' = TRUE
  /\ Goto([Top EXCEPT !.pc = "check"])
  /\ UNCHANGED <<irq_handlers, primask>>

(* Without a handler the flag is restored and RTOS_ERROR returned.          *)
dispatch_check ==
  /\ Top.pc = "check"
  /\ \/ /\ ~irq_handlers[Top.irq].registered
        /\ in_isr_context' = Top.was_in_isr
        /\ Return
     \/ /\ irq_handlers[Top.irq].registered
        /\ Goto([Top EXCEPT !.pc = "load_handler"])
        /\ UNCHANGED in_isr_context
  /\ UNCHANGED <<irq_handlers, primask>>

dispatch_load_handler ==
  /\ Top.pc = "load_handler"
  /\ Goto([Top EXCEPT !.handler = irq_handlers[Top.irq].handler,
                      !.pc = "load_context"])
  /\ UNCHANGED <<irq_handlers, in_isr_context, primask>>

(* The call of a NULL handler faults.                                       *)
dispatch_load_context ==
  /\ Top.pc = "load_context"
  /\ Goto([Top EXCEPT !.context = irq_handlers[Top.irq].context,
                      !.pc = IF Top.handler = NULL THEN "fault" ELSE "run"])
  /\ UNCHANGED <<irq_handlers, in_isr_context, primask>>

(* The fault handler loops for ever.                                        *)
default_fault_handler == Top.pc = "fault" /\ UNCHANGED vars

ReturnClearsFlag ==
  /\ ~InThread /\ Top.pc = "run" /\ Top.flags = <<>>
  /\ in_isr_context' = FALSE
  /\ Return
  /\ UNCHANGED <<irq_handlers, primask>>

(* The handler returns, having restored what it masked.                     *)
dispatch_return ==
  /\ ~InThread /\ Top.pc = "run" /\ Top.flags = <<>>
  /\ in_isr_context' = Top.was_in_isr
  /\ Return
  /\ UNCHANGED <<irq_handlers, primask>>

Next ==
  \/ irq_disable_global
  \/ irq_restore
  \/ irq_enable_global
  \/ \E i \in Irqs, h \in Handlers : irq_register(i, h)
  \/ register_context
  \/ register_registered
  \/ \E i \in Irqs : irq_unregister(i)
  \/ unregister_context
  \/ unregister_registered
  \/ \E i \in Irqs : interrupt(i)
  \/ dispatch_enter
  \/ dispatch_mark
  \/ dispatch_check
  \/ dispatch_load_handler
  \/ dispatch_load_context
  \/ default_fault_handler
  \/ dispatch_return

Spec == Init /\ [][Next]_vars

-----------------------------------------------------------------------------
(* Properties.                                                              *)

(* irq_is_in_isr answers whether a dispatch is under way: it stays true     *)
(* when a nested dispatch, served or refused, returns into an outer one,    *)
(* and false when an interrupt arrives while another is being entered.      *)
IsrFlagExact ==
  in_isr_context =
    (\E k \in 2..Len(stack) : stack[k].pc \notin {"enter", "mark"})

(* Interrupts stay masked to the end of the outermost critical section of   *)
(* whatever runs, whichever sections were nested in it and whatever         *)
(* irq_enable_global did before it: only an irq_enable_global inside the    *)
(* section itself lets interrupts in.                                       *)
MaskedInCritical ==
  \A k \in DOMAIN stack : Len(stack[k].flags) > stack[k].opened => primask

(* interrupt_dispatcher.h: handler is the "Function to call when IRQ fires" *)
(* and context is "passed to handler".  What a dispatch calls is a handler  *)
(* that was registered, with its own context, also when the interrupt comes *)
(* between the stores of an irq_register or irq_unregister.                 *)
DispatchesRegistered ==
  \A k \in 2..Len(stack) :
    stack[k].pc \in {"run", "fault"} =>
      stack[k].handler # NULL /\ stack[k].handler = stack[k].context
=============================================================================
