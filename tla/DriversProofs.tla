--------------------------- MODULE DriversProofs ----------------------------
(***************************************************************************)
(* Proofs about IrqDispatcher and Drivers, for any number of interrupts,   *)
(* handlers, instances and nested critical sections: the ISR flag and the  *)
(* mask are right at every depth of nesting; a driver's instance carries   *)
(* one undisturbed transfer at a time and is not left busy.                *)
(***************************************************************************)
EXTENDS Drivers, TLAPS

-----------------------------------------------------------------------------
(* The stack of the thread and the dispatches above it.                    *)

ThreadPcs == {"run", "context", "registered", "clear_context",
              "clear_registered"}
DispatchPcs == {"enter", "mark", "check", "load_handler", "load_context", "run",
                "fault"}

Frame == [irq : Irqs \cup {NULL}, pc : ThreadPcs \cup DispatchPcs,
          handler : Handlers \cup {NULL}, context : Handlers \cup {NULL},
          was_in_isr : BOOLEAN, flags : Seq(BOOLEAN), opened : Nat]

Entry == [handler : Handlers \cup {NULL}, context : Handlers \cup {NULL},
          registered : BOOLEAN]

(* The thread is at the bottom, and only it registers handlers.            *)
StackOK ==
  /\ irq_handlers \in [Irqs -> Entry]
  /\ in_isr_context \in BOOLEAN /\ primask \in BOOLEAN
  /\ stack \in Seq(Frame) /\ Len(stack) >= 1
  /\ stack[1].pc \in ThreadPcs
  /\ stack[1].pc # "run" => stack[1].irq \in Irqs
  /\ \A k \in 2..Len(stack) :
       stack[k].irq \in Irqs /\ stack[k].pc \in DispatchPcs

(* What was interrupted was in no critical section that still masks, and   *)
(* inside one the mask was already set when a further one was entered.     *)
MaskInv ==
  /\ \A k \in 1..Len(stack) :
       Len(stack[k].flags) > stack[k].opened => k = Len(stack) /\ primask
  /\ \A k \in 1..Len(stack) : \A j \in 1..Len(stack[k].flags) :
       j >= stack[k].opened + 2 => stack[k].flags[j] = TRUE

(* Some dispatch among the n lowest frames has set the ISR flag.           *)
Marked(n) == \E k \in 2..n : stack[k].pc \notin {"enter", "mark"}

(* was_in_isr is the flag as the frames below left it.                     *)
FlagInv ==
  /\ in_isr_context <=> Marked(Len(stack))
  /\ \A k \in 2..Len(stack) :
       stack[k].pc # "enter" => (stack[k].was_in_isr <=> Marked(k - 1))

IrqInv == StackOK /\ MaskInv /\ FlagInv

-----------------------------------------------------------------------------
(* What the three operations on the stack do.                              *)

(* Moving on inside the top frame replaces that frame only. *)
LEMMA GotoFacts ==
  ASSUME StackOK, NEW f \in Frame, Goto(f)
  PROVE  /\ stack' \in Seq(Frame)
         /\ Len(stack') = Len(stack)
         /\ stack'[Len(stack)] = f
         /\ \A k \in 1..(Len(stack) - 1) : stack'[k] = stack[k]
  BY DEF StackOK, Goto

(* All but the last element of a sequence.                                 *)
LEMMA FrontFacts ==
  ASSUME NEW S, NEW q \in Seq(S), q # <<>>
  PROVE  /\ Len(q) \in Nat /\ Len(q) >= 1
         /\ SubSeq(q, 1, Len(q) - 1) \in Seq(S)
         /\ Len(SubSeq(q, 1, Len(q) - 1)) = Len(q) - 1
         /\ \A k \in 1..(Len(q) - 1) : SubSeq(q, 1, Len(q) - 1)[k] = q[k]
<1>1. Len(q) \in Nat /\ Len(q) >= 1
  OBVIOUS
<1>2. ASSUME NEW n \in 1..Len(q)
      PROVE  /\ SubSeq(q, 1, n - 1) \in Seq(S)
             /\ Len(SubSeq(q, 1, n - 1)) = n - 1
             /\ \A k \in 1..(n - 1) : SubSeq(q, 1, n - 1)[k] = q[k]
  OBVIOUS
<1>3. Len(q) \in 1..Len(q)
  BY <1>1
<1> QED
  BY <1>1, <1>2, <1>3, Zenon

(* Returning from an interrupt removes the top frame and leaves the others. *)
LEMMA ReturnFacts ==
  ASSUME StackOK, ~InThread, Return
  PROVE  /\ stack' \in Seq(Frame)
         /\ Len(stack') = Len(stack) - 1
         /\ Len(stack') >= 1
         /\ \A k \in 1..Len(stack') : stack'[k] = stack[k]
<1>0. Len(stack) \in Nat /\ Len(stack) >= 1
  BY DEF StackOK
<1>1. Len(stack) >= 2
  BY <1>0 DEF InThread
<1>2. stack' = SubSeq(stack, 1, Len(stack) - 1)
  BY DEF Return
<1> QED
  BY <1>0, <1>1, <1>2 DEF StackOK

(* A fresh frame is a frame. *)
LEMMA NewFrameType ==
  ASSUME NEW i \in Irqs \cup {NULL}, NEW w \in ThreadPcs \cup DispatchPcs
  PROVE  NewFrame(i, w) \in Frame
  BY DEF NewFrame, Frame

(* An interrupt adds one frame, about to enter its dispatch. *)
LEMMA InterruptFacts ==
  ASSUME StackOK, NEW i \in Irqs, interrupt(i)
  PROVE  /\ stack' \in Seq(Frame)
         /\ Len(stack') = Len(stack) + 1
         /\ stack'[Len(stack) + 1] = NewFrame(i, "enter")
         /\ \A k \in 1..Len(stack) : stack'[k] = stack[k]
  BY NewFrameType DEF StackOK, interrupt, DispatchPcs

(* The thread's frame is the lowest; any frame above it is a dispatch's. *)
LEMMA TopFacts ==
  ASSUME StackOK
  PROVE  /\ Top \in Frame
         /\ Len(stack) \in Nat
         /\ InThread => Top = stack[1] /\ Top.pc \in ThreadPcs
         /\ ~InThread => Len(stack) \in 2..Len(stack)
         /\ ~InThread => Top.irq \in Irqs /\ Top.pc \in DispatchPcs
<1>1. Len(stack) \in Nat /\ Len(stack) >= 1
  BY DEF StackOK
<1>2. Top = stack[Len(stack)] /\ Top \in Frame
  BY <1>1 DEF StackOK, Top
<1>3. ~InThread => Len(stack) \in 2..Len(stack)
  BY <1>1 DEF InThread
<1> QED
  BY <1>1, <1>2, <1>3 DEF StackOK, InThread

-----------------------------------------------------------------------------
(* Steps of what runs that leave the table and the mask alone.             *)

(* A step that keeps flags and mask keeps MaskInv.                         *)
LEMMA GotoMask ==
  ASSUME StackOK, MaskInv, NEW f \in Frame, Goto(f), f.flags = Top.flags,
         f.opened = Top.opened, primask' = primask
  PROVE  MaskInv'
<1> DEFINE n == Len(stack)
<1>1. /\ Len(stack') = n /\ stack'[n] = f /\ n \in Nat /\ n >= 1
      /\ \A k \in 1..(n - 1) : stack'[k] = stack[k]
  BY GotoFacts, TopFacts DEF StackOK
<1>2. \A k \in 1..n : /\ stack'[k].flags = stack[k].flags
                       /\ stack'[k].opened = stack[k].opened
  BY <1>1 DEF Top
<1> QED
  BY <1>1, <1>2 DEF MaskInv

(* Dropping a frame changes no other frame's saved masks. *)
LEMMA ReturnMask ==
  ASSUME StackOK, MaskInv, ~InThread, Return, primask' = primask
  PROVE  MaskInv'
<1>1. /\ Len(stack') = Len(stack) - 1 /\ Len(stack) \in Nat
      /\ \A k \in 1..Len(stack') : stack'[k] = stack[k]
  BY ReturnFacts, TopFacts
<1> QED
  BY <1>1 DEF MaskInv

(* The flag is right again when a dispatch returns.                        *)
LEMMA ReturnFlag ==
  ASSUME StackOK, FlagInv, ~InThread, Return, Top.pc # "enter",
         in_isr_context' = Top.was_in_isr
  PROVE  FlagInv'
<1> DEFINE n == Len(stack)
<1>1. /\ Len(stack') = n - 1 /\ n \in Nat /\ n \in 2..n
      /\ \A k \in 1..(n - 1) : stack'[k] = stack[k]
  BY ReturnFacts, TopFacts
<1>2. \A m \in 1..(n - 1) : Marked(m)' <=> Marked(m)
  BY <1>1 DEF Marked
<1>3. in_isr_context' <=> Marked(n - 1)
  BY <1>1 DEF FlagInv, Top
<1> QED
  BY <1>1, <1>2, <1>3 DEF FlagInv

(* A step of a dispatch between two program points on the same side of the *)
(* store of the flag keeps FlagInv.                                        *)
LEMMA GotoFlag ==
  ASSUME StackOK, FlagInv, NEW f \in Frame, Goto(f),
         in_isr_context' = in_isr_context,
         ~InThread =>
            /\ f.pc \in {"enter", "mark"} <=> Top.pc \in {"enter", "mark"}
            /\ f.pc # "enter"
            /\ \/ Top.pc = "enter" /\ f.was_in_isr = in_isr_context
               \/ Top.pc # "enter" /\ f.was_in_isr = Top.was_in_isr
  PROVE  FlagInv'
<1> DEFINE n == Len(stack)
<1>1. /\ Len(stack') = n /\ stack'[n] = f /\ n \in Nat /\ n >= 1
      /\ \A k \in 1..(n - 1) : stack'[k] = stack[k]
  BY GotoFacts, TopFacts DEF StackOK
<1>2. \A m \in 1..(n - 1) : Marked(m)' <=> Marked(m)
  BY <1>1 DEF Marked
<1>3. Marked(n)' <=> Marked(n)
  BY <1>1 DEF Marked, Top, InThread
<1>4. ASSUME NEW k \in 2..n, stack'[k].pc # "enter"
      PROVE  stack'[k].was_in_isr <=> Marked(k - 1)'
  <2>1. CASE k = n
    <3>1. Top.pc # "enter" => (f.was_in_isr <=> Marked(n - 1))
      BY <1>1, <2>1 DEF FlagInv, Top, InThread
    <3>2. Top.pc = "enter" => (in_isr_context <=> Marked(n - 1))
      BY <1>1, <2>1 DEF FlagInv, Marked, Top
    <3> QED
      BY <1>1, <1>2, <2>1, <3>1, <3>2 DEF InThread
  <2>2. CASE k # n
    BY <1>1, <1>2, <1>4, <2>2 DEF FlagInv
  <2> QED
    BY <2>1, <2>2
<1> QED
  BY <1>1, <1>3, <1>4 DEF FlagInv

(* The stack keeps its shape.                                              *)
LEMMA GotoStack ==
  ASSUME StackOK, NEW f \in Frame, Goto(f),
         irq_handlers' \in [Irqs -> Entry], in_isr_context' \in BOOLEAN,
         primask' \in BOOLEAN,
         InThread => /\ f.pc \in ThreadPcs
                     /\ f.pc # "run" => f.irq \in Irqs,
         ~InThread => f.irq = Top.irq /\ f.pc \in DispatchPcs
  PROVE  StackOK'
<1> DEFINE n == Len(stack)
<1>1. /\ Len(stack') = n /\ stack'[n] = f /\ n \in Nat /\ n >= 1
      /\ \A k \in 1..(n - 1) : stack'[k] = stack[k]
      /\ stack' \in Seq(Frame)
  BY GotoFacts, TopFacts DEF StackOK
<1>2. \A k \in 2..n : stack'[k].irq \in Irqs /\ stack'[k].pc \in DispatchPcs
  BY <1>1, TopFacts DEF StackOK, InThread
<1>3. /\ stack'[1].pc \in ThreadPcs
      /\ stack'[1].pc # "run" => stack'[1].irq \in Irqs
  BY <1>1 DEF StackOK, InThread
<1> QED
  BY <1>1, <1>2, <1>3 DEF StackOK

(* A return leaves a well-formed stack. *)
LEMMA ReturnStack ==
  ASSUME StackOK, ~InThread, Return, irq_handlers' = irq_handlers,
         in_isr_context' \in BOOLEAN, primask' = primask
  PROVE  StackOK'
<1> DEFINE n == Len(stack)
<1>1. /\ Len(stack') = n - 1 /\ n \in Nat /\ n \in 2..n
      /\ stack' \in Seq(Frame)
      /\ \A k \in 1..(n - 1) : stack'[k] = stack[k]
  BY ReturnFacts, TopFacts
<1> QED
  BY <1>1 DEF StackOK

-----------------------------------------------------------------------------
(* The actions.                                                            *)

(* irq_disable_global saves PRIMASK and sets it. *)
LEMMA DisableKeeps ==
  ASSUME IrqInv, irq_disable_global
  PROVE  IrqInv'
<1> USE DEF IrqInv
<1> DEFINE n == Len(stack)
           f == [Top EXCEPT !.flags = Append(@, primask)]
<1>1. /\ f \in Frame /\ f.pc = Top.pc /\ f.irq = Top.irq
      /\ f.was_in_isr = Top.was_in_isr /\ f.opened = Top.opened
      /\ f.flags = Append(Top.flags, primask)
      /\ Top.flags \in Seq(BOOLEAN) /\ Top.opened \in Nat
  <2>1. /\ Top \in Frame /\ Top.flags \in Seq(BOOLEAN) /\ primask \in BOOLEAN
        /\ Top.opened \in Nat
    BY TopFacts DEF Frame, StackOK
  <2>2. Append(Top.flags, primask) \in Seq(BOOLEAN)
    BY <2>1
  <2> QED
    BY <2>1, <2>2 DEF Frame
<1>2. /\ Goto(f) /\ Top.pc = "run" /\ primask' = TRUE
      /\ UNCHANGED <<irq_handlers, in_isr_context>>
  BY DEF irq_disable_global
<1> HIDE DEF f
<1>3. StackOK'
  BY <1>1, <1>2, GotoStack, TopFacts DEF StackOK, ThreadPcs, DispatchPcs
<1>4. MaskInv'
  <2>1. /\ Len(stack') = n /\ stack'[n] = f /\ n \in Nat /\ n >= 1
        /\ \A k \in 1..(n - 1) : stack'[k] = stack[k]
    BY <1>1, <1>2, GotoFacts, TopFacts DEF StackOK
  <2>2. Top = stack[n] /\ n \in 1..n
    BY <2>1 DEF Top
  <2>3. \A j \in 1..Len(f.flags) : j >= f.opened + 2 => f.flags[j] = TRUE
    <3>1. Len(Top.flags) > Top.opened => primask = TRUE
      BY <2>2 DEF MaskInv, StackOK
    <3>2. \A j \in 1..Len(Top.flags) : j >= Top.opened + 2 => Top.flags[j] = TRUE
      BY <2>2 DEF MaskInv
    <3> QED
      BY <1>1, <3>1, <3>2
  <2> QED
    BY <1>2, <2>1, <2>3 DEF MaskInv
<1>5. FlagInv'
  BY <1>1, <1>2, GotoFlag
<1> QED
  BY <1>3, <1>4, <1>5

(* irq_restore brings back the PRIMASK that was saved last. *)
LEMMA RestoreKeeps ==
  ASSUME IrqInv, irq_restore
  PROVE  IrqInv'
<1> USE DEF IrqInv
<1> DEFINE n == Len(stack)
           m == Len(Top.flags)
           o == IF Top.opened > m - 1 THEN m - 1 ELSE Top.opened
           f == [Top EXCEPT !.flags = SubSeq(@, 1, m - 1),
                            !.opened = IF @ > m - 1 THEN m - 1 ELSE @]
<1>0. /\ Top \in Frame /\ Top.flags \in Seq(BOOLEAN) /\ Top.flags # <<>>
      /\ Top.opened \in Nat /\ m \in Nat /\ m >= 1
  BY TopFacts DEF Frame, irq_restore
<1>1. /\ f \in Frame /\ f.pc = Top.pc /\ f.irq = Top.irq
      /\ f.was_in_isr = Top.was_in_isr
      /\ f.flags = SubSeq(Top.flags, 1, m - 1) /\ f.opened = o
      /\ o \in Nat
  <2>1. SubSeq(Top.flags, 1, m - 1) \in Seq(BOOLEAN) /\ o \in Nat
    BY <1>0
  <2> QED
    BY <1>0, <2>1 DEF Frame
<1>2. /\ Top.flags[m] \in BOOLEAN /\ Len(f.flags) = m - 1
      /\ \A j \in 1..(m - 1) : f.flags[j] = Top.flags[j]
  BY <1>0, <1>1
<1>3. /\ Goto(f) /\ Top.pc = "run" /\ primask' = Top.flags[m]
      /\ UNCHANGED <<irq_handlers, in_isr_context>>
  BY DEF irq_restore, LeaveSection
<1> HIDE DEF f
<1>4. StackOK'
  BY <1>1, <1>2, <1>3, GotoStack, TopFacts DEF StackOK, ThreadPcs, DispatchPcs
<1>5. MaskInv'
  <2>1. /\ Len(stack') = n /\ stack'[n] = f /\ n \in Nat /\ n >= 1
        /\ \A k \in 1..(n - 1) : stack'[k] = stack[k]
    BY <1>1, <1>3, GotoFacts, TopFacts DEF StackOK
  <2>2. Top = stack[n] /\ n \in 1..n
    BY <2>1 DEF Top
  <2>3. \A k \in 1..(n - 1) : Len(stack[k].flags) <= stack[k].opened
    <3> SUFFICES ASSUME NEW k \in 1..(n - 1)
                 PROVE  Len(stack[k].flags) <= stack[k].opened
      OBVIOUS
    <3>1. k \in 1..n /\ k # n /\ stack[k] \in Frame
      BY <2>1 DEF StackOK
    <3>2. Len(stack[k].flags) \in Nat /\ stack[k].opened \in Nat
      BY <3>1 DEF Frame
    <3> QED
      BY <3>1, <3>2 DEF MaskInv
  <2>4. \A j \in 1..m : j >= Top.opened + 2 => Top.flags[j] = TRUE
    BY <2>2 DEF MaskInv
  <2>5. Len(f.flags) > f.opened => primask'
    BY <1>0, <1>1, <1>2, <1>3, <2>4
  <2>6. \A j \in 1..Len(f.flags) : j >= f.opened + 2 => f.flags[j] = TRUE
    BY <1>0, <1>1, <1>2, <2>4
  <2>7. \A k \in 1..n :
          Len(stack'[k].flags) > stack'[k].opened => k = n /\ primask'
    <3> SUFFICES ASSUME NEW k \in 1..n, Len(stack'[k].flags) > stack'[k].opened
                 PROVE  k = n /\ primask'
      OBVIOUS
    <3>1. CASE k = n
      BY <2>1, <2>5, <3>1
    <3>2. CASE k \in 1..(n - 1)
      <4>1. /\ Len(stack[k].flags) > stack[k].opened
            /\ Len(stack[k].flags) <= stack[k].opened /\ stack[k] \in Frame
        BY <2>1, <2>3, <3>2 DEF StackOK
      <4>2. Len(stack[k].flags) \in Nat /\ stack[k].opened \in Nat
        BY <4>1 DEF Frame
      <4> QED
        BY <4>1, <4>2
    <3> QED
      BY <2>1, <3>1, <3>2
  <2> QED
    BY <2>1, <2>6, <2>7 DEF MaskInv
<1>6. FlagInv'
  BY <1>1, <1>3, GotoFlag
<1> QED
  BY <1>4, <1>5, <1>6

(* irq_enable_global opens every critical section of what runs. *)
LEMMA EnableKeeps ==
  ASSUME IrqInv, irq_enable_global
  PROVE  IrqInv'
<1> USE DEF IrqInv
<1> DEFINE n == Len(stack)
           f == [Top EXCEPT !.opened = Len(Top.flags)]
<1>0. /\ Top \in Frame /\ Top.flags \in Seq(BOOLEAN)
      /\ Len(Top.flags) \in Nat
  BY TopFacts DEF Frame
<1>1. /\ f \in Frame /\ f.pc = Top.pc /\ f.irq = Top.irq
      /\ f.was_in_isr = Top.was_in_isr
      /\ f.flags = Top.flags /\ f.opened = Len(Top.flags)
  BY <1>0 DEF Frame
<1>2. /\ Goto(f) /\ Top.pc = "run" /\ primask' = FALSE
      /\ UNCHANGED <<irq_handlers, in_isr_context>>
  BY DEF irq_enable_global
<1> HIDE DEF f
<1>3. StackOK'
  BY <1>1, <1>2, GotoStack, TopFacts DEF StackOK, ThreadPcs, DispatchPcs
<1>4. MaskInv'
  <2>1. /\ Len(stack') = n /\ stack'[n] = f /\ n \in Nat /\ n >= 1
        /\ \A k \in 1..(n - 1) : stack'[k] = stack[k]
    BY <1>1, <1>2, GotoFacts, TopFacts DEF StackOK
  <2>2. \A k \in 1..n : ~(Len(stack'[k].flags) > stack'[k].opened)
    <3> SUFFICES ASSUME NEW k \in 1..n,
                        Len(stack'[k].flags) > stack'[k].opened
                 PROVE  FALSE
      OBVIOUS
    <3>1. k = n => Len(f.flags) > f.opened
      BY <2>1
    <3>2. k # n => Len(stack[k].flags) > stack[k].opened
      BY <2>1
    <3> QED
      BY <1>0, <1>1, <3>1, <3>2 DEF MaskInv
  <2>3. \A k \in 1..n : \A j \in 1..Len(stack'[k].flags) :
          j >= stack'[k].opened + 2 => stack'[k].flags[j] = TRUE
    <3> SUFFICES ASSUME NEW k \in 1..n, NEW j \in 1..Len(stack'[k].flags),
                        j >= stack'[k].opened + 2
                 PROVE  stack'[k].flags[j] = TRUE
      OBVIOUS
    <3>1. CASE k = n
      BY <1>0, <1>1, <2>1, <3>1
    <3>2. CASE k # n
      BY <2>1, <3>2 DEF MaskInv
    <3> QED
      BY <3>1, <3>2
  <2> QED
    BY <2>1, <2>2, <2>3 DEF MaskInv
<1>5. FlagInv'
  BY <1>1, <1>2, GotoFlag
<1> QED
  BY <1>3, <1>4, <1>5

(* An interrupt comes when PRIMASK is clear, so in no section that masks. *)
LEMMA InterruptKeeps ==
  ASSUME IrqInv, NEW i \in Irqs, interrupt(i)
  PROVE  IrqInv'
<1> USE DEF IrqInv
<1> DEFINE n == Len(stack)
<1>1. /\ Len(stack') = n + 1 /\ n \in Nat /\ n >= 1 /\ stack' \in Seq(Frame)
      /\ stack'[n + 1] = NewFrame(i, "enter")
      /\ \A k \in 1..n : stack'[k] = stack[k]
  BY InterruptFacts, TopFacts DEF StackOK
<1>2. /\ ~primask
      /\ UNCHANGED <<irq_handlers, in_isr_context, primask>>
  BY DEF interrupt
<1>3. StackOK'
  BY <1>1, <1>2 DEF StackOK, NewFrame, DispatchPcs
<1>4. MaskInv'
  <2>1. /\ stack'[n + 1].flags = <<>> /\ stack'[n + 1].opened = 0
        /\ Len(stack'[n + 1].flags) = 0
    BY <1>1 DEF NewFrame
  <2>2. \A k \in 1..n : ~(Len(stack[k].flags) > stack[k].opened)
    BY <1>2 DEF MaskInv
  <2>3. \A k \in 1..(n + 1) : ~(Len(stack'[k].flags) > stack'[k].opened)
    <3> SUFFICES ASSUME NEW k \in 1..(n + 1)
                 PROVE  ~(Len(stack'[k].flags) > stack'[k].opened)
      OBVIOUS
    <3>1. k = n + 1 \/ k \in 1..n
      BY <1>1
    <3> QED
      BY <1>1, <2>1, <2>2, <3>1
  <2>4. \A k \in 1..(n + 1) : \A j \in 1..Len(stack'[k].flags) :
          j >= stack'[k].opened + 2 => stack'[k].flags[j] = TRUE
    <3> SUFFICES ASSUME NEW k \in 1..(n + 1), NEW j \in 1..Len(stack'[k].flags),
                        j >= stack'[k].opened + 2
                 PROVE  stack'[k].flags[j] = TRUE
      OBVIOUS
    <3>1. k \in 1..n
      BY <1>1, <2>1
    <3> QED
      BY <1>1, <3>1 DEF MaskInv
  <2> QED
    BY <1>1, <2>3, <2>4 DEF MaskInv
<1>5. FlagInv'
  <2>1. \A m \in 1..n : Marked(m)' <=> Marked(m)
    BY <1>1 DEF Marked
  <2>2. \A m \in 1..(n + 1) : m = n + 1 => (Marked(m)' <=> Marked(n))
    <3>1. stack'[n + 1].pc = "enter"
      BY <1>1 DEF NewFrame
    <3> QED
      BY <1>1, <3>1 DEF Marked
  <2>3. \A k \in 2..(n + 1) : stack'[k].pc # "enter" => k \in 2..n
    <3>1. stack'[n + 1].pc = "enter"
      BY <1>1 DEF NewFrame
    <3> QED
      BY <1>1, <3>1
  <2> QED
    BY <1>1, <1>2, <2>1, <2>2, <2>3 DEF FlagInv
<1> QED
  BY <1>3, <1>4, <1>5

(* The stores of irq_register and irq_unregister are the thread's, and     *)
(* leave the mask and the ISR flag alone.                                  *)
LEMMA ThreadStore ==
  ASSUME IrqInv, InThread, NEW f \in Frame, Goto(f),
         f.flags = Top.flags, f.opened = Top.opened, f.pc \in ThreadPcs,
         f.pc # "run" => f.irq \in Irqs,
         irq_handlers' \in [Irqs -> Entry],
         UNCHANGED <<in_isr_context, primask>>
  PROVE  IrqInv'
<1> USE DEF IrqInv
<1>1. StackOK'
  BY GotoStack DEF StackOK
<1>2. MaskInv'
  BY GotoMask
<1>3. FlagInv'
  BY GotoFlag
<1> QED
  BY <1>1, <1>2, <1>3

(* Steps of irq_register and irq_unregister after the first are taken by   *)
(* the thread.                                                             *)
LEMMA InRegistration ==
  ASSUME IrqInv, Top.pc \in ThreadPcs \ {"run"}
  PROVE  InThread /\ Top.irq \in Irqs
<1>1. InThread
  BY TopFacts DEF IrqInv, ThreadPcs, DispatchPcs
<1> QED
  BY <1>1, TopFacts DEF IrqInv, StackOK

(* irq_register's first store, the handler. *)
LEMMA RegisterKeeps ==
  ASSUME IrqInv, NEW i \in Irqs, NEW h \in Handlers, irq_register(i, h)
  PROVE  IrqInv'
<1> DEFINE f == [Top EXCEPT !.irq = i, !.context = h, !.pc = "context"]
<1>1. /\ Top \in Frame /\ irq_handlers \in [Irqs -> Entry]
      /\ Top.context \in Handlers \cup {NULL}
  BY TopFacts DEF IrqInv, StackOK, Frame
<1>2. InThread
  BY DEF irq_register
<1>3. /\ f \in Frame /\ f.flags = Top.flags /\ f.opened = Top.opened
      /\ f.pc = "context" /\ f.irq = i
  BY <1>1 DEF Frame, ThreadPcs
<1>4. /\ Goto(f)
      /\ irq_handlers' = [irq_handlers EXCEPT ![i].handler = h]
      /\ UNCHANGED <<in_isr_context, primask>>
  BY DEF irq_register
<1> HIDE DEF f
<1>5. irq_handlers' \in [Irqs -> Entry]
  BY <1>1, <1>2, <1>4 DEF Entry
<1> QED
  BY <1>2, <1>3, <1>4, <1>5, ThreadStore DEF ThreadPcs

(* irq_register's second store, the context. *)
LEMMA RegisterContextKeeps ==
  ASSUME IrqInv, register_context
  PROVE  IrqInv'
<1> DEFINE f == [Top EXCEPT !.pc = "registered"]
<1>1. /\ Top \in Frame /\ irq_handlers \in [Irqs -> Entry]
      /\ Top.context \in Handlers \cup {NULL}
  BY TopFacts DEF IrqInv, StackOK, Frame
<1>2. InThread /\ Top.irq \in Irqs
  BY InRegistration DEF register_context, ThreadPcs
<1>3. /\ f \in Frame /\ f.flags = Top.flags /\ f.opened = Top.opened
      /\ f.pc = "registered" /\ f.irq = Top.irq
  BY <1>1 DEF Frame, ThreadPcs
<1>4. /\ Goto(f)
      /\ irq_handlers' = [irq_handlers EXCEPT ![Top.irq].context = Top.context]
      /\ UNCHANGED <<in_isr_context, primask>>
  BY DEF register_context
<1> HIDE DEF f
<1>5. irq_handlers' \in [Irqs -> Entry]
  BY <1>1, <1>2, <1>4 DEF Entry
<1> QED
  BY <1>2, <1>3, <1>4, <1>5, ThreadStore DEF ThreadPcs

(* irq_register's last store, the registered flag. *)
LEMMA RegisterRegisteredKeeps ==
  ASSUME IrqInv, register_registered
  PROVE  IrqInv'
<1> DEFINE f == [NewFrame(NULL, "run") EXCEPT !.flags = Top.flags,
                                              !.opened = Top.opened]
<1>1. /\ Top \in Frame /\ irq_handlers \in [Irqs -> Entry]
      /\ Top.context \in Handlers \cup {NULL}
  BY TopFacts DEF IrqInv, StackOK, Frame
<1>2. InThread /\ Top.irq \in Irqs
  BY InRegistration DEF register_registered, ThreadPcs
<1>3. /\ f \in Frame /\ f.flags = Top.flags /\ f.opened = Top.opened
      /\ f.pc = "run"
  BY <1>1 DEF Frame, ThreadPcs, NewFrame
<1>4. /\ Goto(f)
      /\ irq_handlers' = [irq_handlers EXCEPT ![Top.irq].registered = TRUE]
      /\ UNCHANGED <<in_isr_context, primask>>
  BY DEF register_registered
<1> HIDE DEF f
<1>5. irq_handlers' \in [Irqs -> Entry]
  BY <1>1, <1>2, <1>4 DEF Entry
<1> QED
  BY <1>2, <1>3, <1>4, <1>5, ThreadStore DEF ThreadPcs

(* irq_unregister's first store, the NULL handler. *)
LEMMA UnregisterKeeps ==
  ASSUME IrqInv, NEW i \in Irqs, irq_unregister(i)
  PROVE  IrqInv'
<1> DEFINE f == [Top EXCEPT !.irq = i, !.pc = "clear_context"]
<1>1. Top \in Frame /\ irq_handlers \in [Irqs -> Entry]
  BY TopFacts DEF IrqInv, StackOK
<1>2. /\ f \in Frame /\ f.flags = Top.flags /\ f.opened = Top.opened
      /\ f.pc = "clear_context" /\ f.irq = i
  BY <1>1 DEF Frame, ThreadPcs
<1>3. CASE UNCHANGED <<irq_handlers, stack>>
  <2>1. UNCHANGED <<irq_handlers, stack, in_isr_context, primask>>
    BY <1>3 DEF irq_unregister
  <2> QED
    BY <2>1 DEF IrqInv, StackOK, MaskInv, FlagInv, Marked
<1>4. CASE /\ Goto(f)
           /\ irq_handlers' = [irq_handlers EXCEPT ![i].handler = NULL]
  <2>1. InThread /\ UNCHANGED <<in_isr_context, primask>>
    BY DEF irq_unregister
  <2> HIDE DEF f
  <2>2. irq_handlers' \in [Irqs -> Entry]
    BY <1>1, <1>4 DEF Entry
  <2> QED
    BY <1>2, <1>4, <2>1, <2>2, ThreadStore DEF ThreadPcs
<1> QED
  BY <1>3, <1>4 DEF irq_unregister

(* irq_unregister's second store, the NULL context. *)
LEMMA UnregisterContextKeeps ==
  ASSUME IrqInv, unregister_context
  PROVE  IrqInv'
<1> DEFINE f == [Top EXCEPT !.pc = "clear_registered"]
<1>1. /\ Top \in Frame /\ irq_handlers \in [Irqs -> Entry]
      /\ Top.context \in Handlers \cup {NULL}
  BY TopFacts DEF IrqInv, StackOK, Frame
<1>2. InThread /\ Top.irq \in Irqs
  BY InRegistration DEF unregister_context, ThreadPcs
<1>3. /\ f \in Frame /\ f.flags = Top.flags /\ f.opened = Top.opened
      /\ f.pc = "clear_registered" /\ f.irq = Top.irq
  BY <1>1 DEF Frame, ThreadPcs
<1>4. /\ Goto(f)
      /\ irq_handlers' = [irq_handlers EXCEPT ![Top.irq].context = NULL]
      /\ UNCHANGED <<in_isr_context, primask>>
  BY DEF unregister_context
<1> HIDE DEF f
<1>5. irq_handlers' \in [Irqs -> Entry]
  BY <1>1, <1>2, <1>4 DEF Entry
<1> QED
  BY <1>2, <1>3, <1>4, <1>5, ThreadStore DEF ThreadPcs

(* irq_unregister's last store clears the registered flag. *)
LEMMA UnregisterRegisteredKeeps ==
  ASSUME IrqInv, unregister_registered
  PROVE  IrqInv'
<1> DEFINE f == [NewFrame(NULL, "run") EXCEPT !.flags = Top.flags,
                                              !.opened = Top.opened]
<1>1. /\ Top \in Frame /\ irq_handlers \in [Irqs -> Entry]
      /\ Top.context \in Handlers \cup {NULL}
  BY TopFacts DEF IrqInv, StackOK, Frame
<1>2. InThread /\ Top.irq \in Irqs
  BY InRegistration DEF unregister_registered, ThreadPcs
<1>3. /\ f \in Frame /\ f.flags = Top.flags /\ f.opened = Top.opened
      /\ f.pc = "run"
  BY <1>1 DEF Frame, ThreadPcs, NewFrame
<1>4. /\ Goto(f)
      /\ irq_handlers' = [irq_handlers EXCEPT ![Top.irq].registered = FALSE]
      /\ UNCHANGED <<in_isr_context, primask>>
  BY DEF unregister_registered
<1> HIDE DEF f
<1>5. irq_handlers' \in [Irqs -> Entry]
  BY <1>1, <1>2, <1>4 DEF Entry
<1> QED
  BY <1>2, <1>3, <1>4, <1>5, ThreadStore DEF ThreadPcs

(* The steps of a dispatch.                                                *)
LEMMA InDispatch ==
  ASSUME IrqInv, Top.pc \in DispatchPcs \ {"run"}
  PROVE  ~InThread /\ Top \in Frame /\ Top.irq \in Irqs
  BY TopFacts DEF IrqInv, ThreadPcs, DispatchPcs

(* A dispatch's step that keeps table and mask only has to account for the ISR
   flag. *)
LEMMA DispatchStep ==
  ASSUME IrqInv, ~InThread, NEW f \in Frame, Goto(f),
         f.irq = Top.irq, f.flags = Top.flags, f.opened = Top.opened,
         f.pc \in DispatchPcs,
         UNCHANGED <<irq_handlers, primask>>, in_isr_context' \in BOOLEAN,
         FlagInv'
  PROVE  IrqInv'
<1>1. StackOK'
  BY GotoStack DEF IrqInv, StackOK
<1>2. MaskInv'
  BY GotoMask DEF IrqInv
<1> QED
  BY <1>1, <1>2 DEF IrqInv

(* The dispatch saves the ISR flag it finds. *)
LEMMA EnterKeeps ==
  ASSUME IrqInv, dispatch_enter
  PROVE  IrqInv'
<1> DEFINE f == [Top EXCEPT !.was_in_isr = in_isr_context, !.pc = "mark"]
<1>1. /\ ~InThread /\ Top \in Frame /\ Top.irq \in Irqs
      /\ in_isr_context \in BOOLEAN
  BY InDispatch DEF dispatch_enter, DispatchPcs, IrqInv, StackOK
<1>2. /\ f \in Frame /\ f.flags = Top.flags /\ f.opened = Top.opened
      /\ f.pc = "mark"
      /\ f.irq = Top.irq /\ f.was_in_isr = in_isr_context
  BY <1>1 DEF Frame, DispatchPcs
<1>3. /\ Top.pc = "enter" /\ Goto(f)
      /\ UNCHANGED <<irq_handlers, primask, in_isr_context>>
  BY DEF dispatch_enter
<1> HIDE DEF f
<1>4. FlagInv'
  BY <1>1, <1>2, <1>3, GotoFlag DEF IrqInv
<1> QED
  BY <1>1, <1>2, <1>3, <1>4, DispatchStep DEF DispatchPcs

(* The dispatch sets the ISR flag. *)
LEMMA MarkKeeps ==
  ASSUME IrqInv, dispatch_mark
  PROVE  IrqInv'
<1> DEFINE f == [Top EXCEPT !.pc = "check"]
           n == Len(stack)
<1>1. ~InThread /\ Top \in Frame /\ Top.irq \in Irqs /\ Top.pc = "mark"
  BY InDispatch DEF dispatch_mark, DispatchPcs
<1>2. /\ f \in Frame /\ f.flags = Top.flags /\ f.opened = Top.opened
      /\ f.pc = "check"
      /\ f.irq = Top.irq /\ f.was_in_isr = Top.was_in_isr
  BY <1>1 DEF Frame, DispatchPcs
<1>3. /\ Goto(f) /\ in_isr_context' = TRUE
      /\ UNCHANGED <<irq_handlers, primask>>
  BY DEF dispatch_mark
<1> HIDE DEF f
<1>4. FlagInv'
  <2>1. /\ Len(stack') = n /\ stack'[n] = f /\ n \in Nat /\ n >= 2
        /\ \A k \in 1..(n - 1) : stack'[k] = stack[k]
        /\ Top = stack[n]
    BY <1>1, <1>2, <1>3, GotoFacts, TopFacts DEF IrqInv, StackOK, Top
  <2>2. \A m \in 1..(n - 1) : Marked(m)' <=> Marked(m)
    BY <2>1 DEF Marked
  <2>3. \A m \in 1..n : m = n => Marked(m)'
    BY <1>2, <2>1 DEF Marked
  <2>4. ASSUME NEW k \in 2..n, stack'[k].pc # "enter"
        PROVE  stack'[k].was_in_isr <=> Marked(k - 1)'
    <3>1. stack[k].pc # "enter" /\ stack'[k].was_in_isr = stack[k].was_in_isr
      BY <1>1, <1>2, <2>1, <2>4
    <3> QED
      BY <2>1, <2>2, <3>1 DEF IrqInv, FlagInv
  <2> QED
    BY <1>3, <2>1, <2>3, <2>4 DEF FlagInv
<1> QED
  BY <1>1, <1>2, <1>3, <1>4, DispatchStep DEF DispatchPcs

(* The dispatch looks whether its interrupt has a handler. *)
LEMMA CheckKeeps ==
  ASSUME IrqInv, dispatch_check
  PROVE  IrqInv'
<1> DEFINE f == [Top EXCEPT !.pc = "load_handler"]
<1>1. /\ ~InThread /\ Top \in Frame /\ Top.irq \in Irqs /\ Top.pc = "check"
      /\ UNCHANGED <<irq_handlers, primask>>
      /\ in_isr_context \in BOOLEAN /\ Top.was_in_isr \in BOOLEAN
  BY InDispatch DEF dispatch_check, DispatchPcs, IrqInv, StackOK, Frame
<1>2. CASE in_isr_context' = Top.was_in_isr /\ Return
  BY <1>1, <1>2, ReturnStack, ReturnMask, ReturnFlag DEF IrqInv
<1>3. CASE Goto(f) /\ UNCHANGED in_isr_context
  <2>1. /\ f \in Frame /\ f.flags = Top.flags /\ f.opened = Top.opened
      /\ f.pc = "load_handler"
        /\ f.irq = Top.irq /\ f.was_in_isr = Top.was_in_isr
    BY <1>1 DEF Frame, DispatchPcs
  <2> HIDE DEF f
  <2>2. FlagInv'
    BY <1>1, <1>3, <2>1, GotoFlag DEF IrqInv
  <2> QED
    BY <1>1, <1>3, <2>1, <2>2, DispatchStep DEF DispatchPcs
<1> QED
  BY <1>2, <1>3 DEF dispatch_check

(* The dispatch loads the handler. *)
LEMMA LoadHandlerKeeps ==
  ASSUME IrqInv, dispatch_load_handler
  PROVE  IrqInv'
<1> DEFINE f == [Top EXCEPT !.handler = irq_handlers[Top.irq].handler,
                            !.pc = "load_context"]
<1>1. /\ ~InThread /\ Top \in Frame /\ Top.irq \in Irqs
      /\ Top.pc = "load_handler" /\ Goto(f)
      /\ UNCHANGED <<irq_handlers, primask, in_isr_context>>
      /\ in_isr_context \in BOOLEAN
  BY InDispatch DEF dispatch_load_handler, DispatchPcs, IrqInv, StackOK
<1>2. irq_handlers[Top.irq].handler \in Handlers \cup {NULL}
  BY <1>1 DEF IrqInv, StackOK, Entry
<1>3. /\ f \in Frame /\ f.flags = Top.flags /\ f.opened = Top.opened
      /\ f.pc = "load_context"
      /\ f.irq = Top.irq /\ f.was_in_isr = Top.was_in_isr
  BY <1>1, <1>2 DEF Frame, DispatchPcs
<1> HIDE DEF f
<1>5. FlagInv'
  BY <1>1, <1>3, GotoFlag DEF IrqInv
<1> QED
  BY <1>1, <1>3, <1>5, DispatchStep DEF DispatchPcs

(* The dispatch loads the context and calls the handler, or faults. *)
LEMMA LoadContextKeeps ==
  ASSUME IrqInv, dispatch_load_context
  PROVE  IrqInv'
<1> DEFINE w == IF Top.handler = NULL THEN "fault" ELSE "run"
           f == [Top EXCEPT !.context = irq_handlers[Top.irq].context, !.pc = w]
<1>1. /\ ~InThread /\ Top \in Frame /\ Top.irq \in Irqs
      /\ Top.pc = "load_context" /\ Goto(f)
      /\ UNCHANGED <<irq_handlers, primask, in_isr_context>>
      /\ in_isr_context \in BOOLEAN
  BY InDispatch DEF dispatch_load_context, DispatchPcs, IrqInv, StackOK
<1>2. /\ irq_handlers[Top.irq].context \in Handlers \cup {NULL}
      /\ w \in {"fault", "run"}
  BY <1>1 DEF IrqInv, StackOK, Entry
<1> HIDE DEF w
<1>3. /\ f \in Frame /\ f.flags = Top.flags /\ f.opened = Top.opened
      /\ f.pc = w /\ f.irq = Top.irq /\ f.was_in_isr = Top.was_in_isr
  BY <1>1, <1>2 DEF Frame, DispatchPcs
<1> HIDE DEF f
<1>4. FlagInv'
  BY <1>1, <1>2, <1>3, GotoFlag DEF IrqInv
<1> QED
  BY <1>1, <1>2, <1>3, <1>4, DispatchStep DEF DispatchPcs

(* The dispatch restores the ISR flag it saved and returns. *)
LEMMA ReturnKeeps ==
  ASSUME IrqInv, dispatch_return
  PROVE  IrqInv'
<1>1. /\ ~InThread /\ Top.pc = "run" /\ Return
      /\ in_isr_context' = Top.was_in_isr
      /\ UNCHANGED <<irq_handlers, primask>>
  BY DEF dispatch_return
<1>2. Top.was_in_isr \in BOOLEAN
  BY TopFacts DEF IrqInv, Frame
<1> QED
  BY <1>1, <1>2, ReturnStack, ReturnMask, ReturnFlag DEF IrqInv

(* An empty table, no interrupt and a clear mask satisfy the invariant. *)
LEMMA IrqInit == Init => IrqInv
<1> SUFFICES ASSUME Init PROVE IrqInv
  OBVIOUS
<1>1. NewFrame(NULL, "run") \in Frame
  BY NewFrameType DEF ThreadPcs
<1>2. /\ stack \in Seq(Frame) /\ Len(stack) = 1
      /\ stack[1] = NewFrame(NULL, "run")
  BY <1>1 DEF Init
<1>3. stack[1].pc = "run" /\ Len(stack[1].flags) = 0 /\ stack[1].opened = 0
  BY <1>2 DEF NewFrame
<1>4. StackOK
  <2>1. /\ irq_handlers \in [Irqs -> Entry]
        /\ in_isr_context \in BOOLEAN /\ primask \in BOOLEAN
    BY DEF Init, Entry
  <2>2. /\ Len(stack) >= 1 /\ stack[1].pc \in ThreadPcs
        /\ \A k \in 2..Len(stack) : FALSE
    BY <1>2, <1>3 DEF ThreadPcs
  <2> QED
    BY <1>2, <1>3, <2>1, <2>2 DEF StackOK
<1>5. MaskInv
  BY <1>2, <1>3 DEF MaskInv
<1>6. FlagInv
  BY <1>2 DEF FlagInv, Marked, Init
<1> QED
  BY <1>4, <1>5, <1>6 DEF IrqInv

(* Every step of the dispatcher and its callers keeps the invariant.       *)
LEMMA IrqStep == IrqInv /\ [Next]_vars => IrqInv'
<1> SUFFICES ASSUME IrqInv, [Next]_vars PROVE IrqInv'
  OBVIOUS
<1>1. CASE UNCHANGED vars
  BY <1>1 DEF vars, IrqInv, StackOK, MaskInv, FlagInv, Marked
<1> QED
  BY <1>1, DisableKeeps, RestoreKeeps, EnableKeeps, RegisterKeeps,
     RegisterContextKeeps, RegisterRegisteredKeeps, UnregisterKeeps,
     UnregisterContextKeeps, UnregisterRegisteredKeeps, InterruptKeeps,
     EnterKeeps, MarkKeeps, CheckKeeps, LoadHandlerKeeps, LoadContextKeeps,
     ReturnKeeps DEF Next, default_fault_handler

(* What the invariant says of the properties the runs check.               *)
LEMMA IrqConsequences ==
  ASSUME IrqInv
  PROVE  IsrFlagExact /\ MaskedInCritical
<1>1. IsrFlagExact
  BY DEF IrqInv, StackOK, FlagInv, Marked, IsrFlagExact
<1>2. MaskedInCritical
  <2>1. DOMAIN stack = 1..Len(stack)
    BY DEF IrqInv, StackOK
  <2> QED
    BY <2>1 DEF IrqInv, MaskInv, MaskedInCritical
<1> QED
  BY <1>1, <1>2

-----------------------------------------------------------------------------
(* The drivers.                                                            *)

CallPcs == {"memset", "ready", "claim", "transfer", "unclaimed"}
CallRecord == [depth : Nat, bus : Instances, pc : CallPcs, stale : BOOLEAN]

(* A call belongs to one frame of the stack, a later call to a higher one, *)
(* and only transfers become stale.                                        *)
CallsOK ==
  /\ initialized \in [Instances -> BOOLEAN] /\ busy \in [Instances -> BOOLEAN]
  /\ calls \in Seq(CallRecord)
  /\ \A k \in 1..Len(calls) : calls[k].depth <= Len(stack)
  /\ \A j, k \in 1..Len(calls) : j < k => calls[j].depth < calls[k].depth
  /\ \A k \in 1..Len(calls) : calls[k].stale => calls[k].pc = "transfer"

Holds(k, b) == calls[k].bus = b /\ calls[k].pc = "transfer" /\ ~calls[k].stale

(* When a call has found its instance free, or has reset it, no call that  *)
(* it interrupted holds the instance.  OneTransfer and NoneLeftBusy are not *)
(* inductive without it: the claim relies on a test made earlier.          *)
FreeBelow ==
  \A j, k \in 1..Len(calls) :
    j < k /\ calls[k].pc \in {"claim", "transfer", "ready"} =>
      ~Holds(j, calls[k].bus)

BusyInv == \A b \in Instances : busy[b] <=> \E k \in 1..Len(calls) : Holds(k, b)

DriversInv == IrqInv /\ CallsOK /\ FreeBelow /\ BusyInv

(* The holders of an instance, as a set of positions in the stack of calls. *)
LEMMA HoldersFacts ==
  ASSUME CallsOK, NEW b
  PROVE  Holders(b) = {k \in 1..Len(calls) :
                         calls[k].bus = b /\ calls[k].pc = "transfer"}
  BY DEF CallsOK, Holders

(* With no driver called yet the invariant holds. *)
LEMMA DriversInvInit == DriversInit => DriversInv
<1> SUFFICES ASSUME DriversInit PROVE DriversInv
  OBVIOUS
<1>1. IrqInv
  BY IrqInit DEF DriversInit
<1>2. Len(calls) = 0 /\ calls \in Seq(CallRecord)
  BY DEF DriversInit
<1>3. CallsOK
  BY <1>2 DEF DriversInit, CallsOK
<1>4. FreeBelow /\ BusyInv
  BY <1>2 DEF DriversInit, FreeBelow, BusyInv
<1> QED
  BY <1>1, <1>3, <1>4 DEF DriversInv

(* The fields of every call in progress have their types. *)
LEMMA CallFields ==
  ASSUME CallsOK
  PROVE  /\ Len(calls) \in Nat
         /\ \A k \in 1..Len(calls) :
              /\ calls[k] \in CallRecord
              /\ calls[k].depth \in Nat /\ calls[k].bus \in Instances
              /\ calls[k].pc \in CallPcs /\ calls[k].stale \in BOOLEAN
<1>1. Len(calls) \in Nat /\ \A k \in 1..Len(calls) : calls[k] \in CallRecord
  BY DEF CallsOK
<1> QED
  BY <1>1 DEF CallRecord

(* While the running frame is inside a driver call, that call is the last of
   the stack. *)
LEMMA InCallFacts ==
  ASSUME CallsOK, IrqInv, InCall
  PROVE  /\ Len(calls) \in Nat /\ Len(calls) >= 1
         /\ Call = calls[Len(calls)] /\ Call \in CallRecord
         /\ Call.bus \in Instances
<1>1. Len(calls) \in Nat /\ Len(calls) >= 1
  BY DEF CallsOK, InCall
<1> QED
  BY <1>1, CallFields DEF Call

(* A call that begins in a frame that is not in a call.                    *)
LEMMA BeginKeeps ==
  ASSUME DriversInv, ~InCall, NEW b \in Instances,
         NEW w \in {"memset", "claim", "unclaimed"},
         w = "claim" => ~busy[b],
         Begin(b, w), UNCHANGED <<vars, handleFlags>>
  PROVE  DriversInv'
<1> DEFINE n == Len(calls)
           c == [depth |-> Len(stack), bus |-> b, pc |-> w, stale |-> FALSE]
<1>1. Len(stack) \in Nat /\ n \in Nat /\ c \in CallRecord
  BY TopFacts DEF DriversInv, IrqInv, CallsOK, CallRecord, CallPcs
<1>2. /\ calls' \in Seq(CallRecord) /\ Len(calls') = n + 1
      /\ calls'[n + 1] = c /\ \A k \in 1..n : calls'[k] = calls[k]
  BY <1>1 DEF Begin, DriversInv, CallsOK
<1>3. \A k \in 1..n : calls[k].depth < Len(stack)
  <2>1. n >= 1 => calls[n].depth < Len(stack)
    <3>1. ASSUME n >= 1
          PROVE  /\ calls[n].depth \in Nat /\ calls[n].depth <= Len(stack)
                 /\ calls # <<>>
      BY <1>1, <3>1, CallFields DEF DriversInv, CallsOK
    <3> QED
      BY <1>1, <3>1 DEF InCall, Call
  <2>2. \A k \in 1..n : calls[k].depth \in Nat
    BY CallFields DEF DriversInv
  <2> QED
    BY <1>1, <2>1, <2>2 DEF DriversInv, CallsOK
<1>4. UNCHANGED <<stack, initialized, busy>> /\ IrqInv'
  BY IrqStep DEF vars, handleFlags, DriversInv
<1>5. CallsOK'
  <2>1. \A k \in 1..(n + 1) :
          /\ calls'[k].depth <= Len(stack)
          /\ calls'[k].stale => calls'[k].pc = "transfer"
    BY <1>1, <1>2 DEF DriversInv, CallsOK
  <2>2. \A j, k \in 1..(n + 1) : j < k => calls'[j].depth < calls'[k].depth
    BY <1>1, <1>2, <1>3 DEF DriversInv, CallsOK
  <2> QED
    BY <1>2, <1>4, <2>1, <2>2 DEF DriversInv, CallsOK
<1>6. \A k \in 1..(n + 1), a \in Instances : Holds(k, a)' <=> k \in 1..n /\ Holds(k, a)
  BY <1>1, <1>2 DEF Holds
<1>7. FreeBelow'
  <2> SUFFICES ASSUME NEW j \in 1..(n + 1), NEW k \in 1..(n + 1), j < k,
                      calls'[k].pc \in {"claim", "transfer", "ready"}
               PROVE  ~Holds(j, calls[k].bus)'
    BY <1>2 DEF FreeBelow
  <2>1. j \in 1..n
    BY <1>1
  <2>2. CASE k \in 1..n
    BY <1>2, <2>1, <2>2 DEF DriversInv, FreeBelow, Holds
  <2>3. CASE k = n + 1
    BY <1>2, <2>1, <2>3 DEF DriversInv, BusyInv, Holds
  <2> QED
    BY <2>2, <2>3
<1>8. BusyInv'
  BY <1>1, <1>2, <1>4, <1>6 DEF DriversInv, BusyInv
<1> QED
  BY <1>4, <1>5, <1>7, <1>8 DEF DriversInv

(* The call that runs ends; the ones it interrupted are as they were.      *)
LEMMA FinishFacts ==
  ASSUME DriversInv, InCall, Finish, UNCHANGED vars,
         initialized' \in [Instances -> BOOLEAN], busy' \in [Instances -> BOOLEAN]
  PROVE  /\ IrqInv' /\ CallsOK' /\ FreeBelow'
         /\ Len(calls') = Len(calls) - 1
         /\ \A k \in 1..(Len(calls) - 1) : calls'[k] = calls[k]
<1> DEFINE n == Len(calls)
<1>1. n \in Nat /\ n >= 1
  BY InCallFacts DEF DriversInv
<1>2. /\ calls' \in Seq(CallRecord) /\ Len(calls') = n - 1
      /\ \A k \in 1..(n - 1) : calls'[k] = calls[k]
  <2>1. calls \in Seq(CallRecord) /\ calls' = SubSeq(calls, 1, n - 1)
    BY DEF Finish, DriversInv, CallsOK
  <2> QED
    BY <1>1, <2>1, FrontFacts DEF InCall
<1>3. IrqInv' /\ stack' = stack
  BY IrqStep DEF vars, DriversInv
<1>4. CallsOK'
  <2>1. /\ \A k \in 1..(n - 1) : calls[k].depth <= Len(stack)
        /\ \A j, k \in 1..(n - 1) : j < k => calls[j].depth < calls[k].depth
        /\ \A k \in 1..(n - 1) : calls[k].stale => calls[k].pc = "transfer"
    BY <1>1 DEF DriversInv, CallsOK
  <2> QED
    BY <1>2, <1>3, <2>1 DEF CallsOK
<1>5. FreeBelow'
  BY <1>1, <1>2 DEF DriversInv, FreeBelow, Holds
<1> QED
  BY <1>2, <1>3, <1>4, <1>5

(* A call that ends, on an instance that no call it interrupted holds or   *)
(* without touching busy, keeps busy exact.                                *)
LEMMA ClearKeeps ==
  ASSUME DriversInv, InCall, Finish, UNCHANGED vars,
         Call.pc \in {"ready", "transfer"},
         initialized' \in [Instances -> BOOLEAN],
         busy' = [busy EXCEPT ![Call.bus] = FALSE]
  PROVE  DriversInv'
<1> DEFINE n == Len(calls)
           b == Call.bus
<1>1. n \in Nat /\ n >= 1 /\ Call = calls[n] /\ b \in Instances
  BY InCallFacts DEF DriversInv
<1>2. busy \in [Instances -> BOOLEAN] /\ busy' \in [Instances -> BOOLEAN]
  BY <1>1 DEF DriversInv, CallsOK
<1>3. /\ IrqInv' /\ CallsOK' /\ FreeBelow' /\ Len(calls') = n - 1
      /\ \A k \in 1..(n - 1) : calls'[k] = calls[k]
  BY <1>2, FinishFacts
<1>4. \A k \in 1..(n - 1), a \in Instances : Holds(k, a)' <=> Holds(k, a)
  BY <1>3 DEF Holds
<1>5. \A k \in 1..(n - 1) : ~Holds(k, b)
  BY <1>1 DEF DriversInv, FreeBelow
<1>6. \A a \in Instances : a # b => ~Holds(n, a)
  BY <1>1 DEF Holds
<1>7. ASSUME NEW a \in Instances
      PROVE  busy'[a] <=> \E k \in 1..(n - 1) : Holds(k, a)'
  <2>1. CASE a = b
    BY <1>1, <1>2, <1>4, <1>5, <2>1
  <2>2. CASE a # b
    <3>1. busy[a] <=> \E k \in 1..(n - 1) : Holds(k, a)
      BY <1>1, <1>6, <2>2 DEF DriversInv, BusyInv
    <3> QED
      BY <1>1, <1>2, <1>4, <2>2, <3>1
  <2> QED
    BY <2>1, <2>2
<1>8. BusyInv'
  BY <1>3, <1>7 DEF BusyInv
<1> QED
  BY <1>3, <1>8 DEF DriversInv

(* A call that ends without having claimed its instance changes nothing for
   the others. *)
LEMMA EndKeeps ==
  ASSUME DriversInv, InCall, Finish, UNCHANGED vars,
         Call.pc # "transfer", UNCHANGED handleFlags
  PROVE  DriversInv'
<1> DEFINE n == Len(calls)
<1>1. n \in Nat /\ n >= 1 /\ Call = calls[n] /\ busy' = busy
  BY InCallFacts DEF DriversInv, handleFlags
<1>2. /\ IrqInv' /\ CallsOK' /\ FreeBelow' /\ Len(calls') = n - 1
      /\ \A k \in 1..(n - 1) : calls'[k] = calls[k]
  BY FinishFacts DEF handleFlags, DriversInv, CallsOK
<1>3. \A k \in 1..(n - 1), a \in Instances : Holds(k, a)' <=> Holds(k, a)
  BY <1>2 DEF Holds
<1>4. \A a \in Instances : ~Holds(n, a)
  BY <1>1 DEF Holds
<1>5. BusyInv'
  <2>1. \A a \in Instances :
          busy[a] <=> \E k \in 1..(n - 1) : Holds(k, a)
    BY <1>1, <1>4 DEF DriversInv, BusyInv
  <2> QED
    BY <1>1, <1>2, <1>3, <2>1 DEF BusyInv
<1> QED
  BY <1>2, <1>5 DEF DriversInv

(* A claim: the instance is still as free as the test found it, since every
   call that came in between has ended. *)
LEMMA ClaimKeeps ==
  ASSUME DriversInv, claim, UNCHANGED vars
  PROVE  DriversInv'
<1> DEFINE n == Len(calls)
           b == Call.bus
<1>1. /\ InCall /\ Call.pc = "claim" /\ Continue("transfer")
      /\ busy' = [busy EXCEPT ![b] = TRUE] /\ UNCHANGED initialized
  BY DEF claim, At
<1>2. /\ n \in Nat /\ n >= 1 /\ Call = calls[n] /\ b \in Instances
      /\ Call \in CallRecord
  BY <1>1, InCallFacts DEF DriversInv
<1>3. [Call EXCEPT !.pc = "transfer"] \in CallRecord
  BY <1>2 DEF CallRecord, CallPcs
<1>4. calls' = [calls EXCEPT ![n] = [Call EXCEPT !.pc = "transfer"]]
  BY <1>1, <1>2 DEF Continue
<1>5. /\ calls' \in Seq(CallRecord) /\ Len(calls') = n
      /\ calls'[n] = [Call EXCEPT !.pc = "transfer"]
      /\ \A k \in 1..(n - 1) : calls'[k] = calls[k]
  BY <1>2, <1>3, <1>4 DEF DriversInv, CallsOK
<1>6. /\ calls'[n].depth = calls[n].depth /\ calls'[n].bus = b
      /\ calls'[n].pc = "transfer" /\ calls'[n].stale = calls[n].stale
  BY <1>2, <1>5 DEF CallRecord
<1>7. IrqInv' /\ stack' = stack
  BY IrqStep DEF vars, DriversInv
<1>8. ~calls[n].stale
  BY <1>1, <1>2 DEF DriversInv, CallsOK
<1>9. CallsOK'
  <2>1. busy' \in [Instances -> BOOLEAN]
    BY <1>1, <1>2 DEF DriversInv, CallsOK
  <2>2. ASSUME NEW k \in 1..n
        PROVE  /\ calls'[k].depth = calls[k].depth
               /\ calls'[k].stale => calls'[k].pc = "transfer"
    <3>1. CASE k = n
      BY <1>2, <1>6, <3>1
    <3>2. CASE k # n
      BY <1>2, <1>5, <3>2 DEF DriversInv, CallsOK
    <3> QED
      BY <3>1, <3>2
  <2> QED
    BY <1>1, <1>2, <1>5, <1>7, <2>1, <2>2 DEF DriversInv, CallsOK
<1>10. /\ \A k \in 1..(n - 1), a \in Instances : Holds(k, a)' <=> Holds(k, a)
       /\ \A k \in 1..n : k = n => \A a \in Instances : Holds(k, a)' <=> a = b
       /\ \A a \in Instances : ~Holds(n, a)
       /\ \A k \in 1..(n - 1) : ~Holds(k, b)
  <2>1. \A k \in 1..(n - 1), a \in Instances : Holds(k, a)' <=> Holds(k, a)
    BY <1>5 DEF Holds
  <2>2. /\ \A k \in 1..n : k = n => \A a \in Instances : Holds(k, a)' <=> a = b
        /\ \A a \in Instances : ~Holds(n, a)
    BY <1>1, <1>2, <1>6, <1>8 DEF Holds
  <2>3. \A k \in 1..(n - 1) : ~Holds(k, b)
    BY <1>1, <1>2 DEF DriversInv, FreeBelow
  <2> QED
    BY <2>1, <2>2, <2>3
<1>11. FreeBelow'
  <2> SUFFICES ASSUME NEW j \in 1..n, NEW k \in 1..n, j < k,
                      calls'[k].pc \in {"claim", "transfer", "ready"}
               PROVE  ~Holds(j, calls[k].bus)'
    BY <1>5 DEF FreeBelow
  <2>1. CASE k = n
    BY <1>2, <1>5, <1>6, <1>10, <2>1 DEF Holds
  <2>2. CASE k # n
    BY <1>2, <1>5, <2>2 DEF DriversInv, FreeBelow, Holds
  <2> QED
    BY <2>1, <2>2
<1>12. BusyInv'
  <2> SUFFICES ASSUME NEW a \in Instances
               PROVE  busy'[a] <=> \E k \in 1..n : Holds(k, a)'
    BY <1>5 DEF BusyInv
  <2>1. CASE a = b
    BY <1>1, <1>2, <1>10, <2>1 DEF DriversInv, CallsOK
  <2>2. CASE a # b
    <3>1. busy'[a] = busy[a]
      BY <1>1, <2>2 DEF DriversInv, CallsOK
    <3>2. busy[a] <=> \E k \in 1..(n - 1) : Holds(k, a)
      BY <1>2, <1>10 DEF DriversInv, BusyInv
    <3> QED
      BY <1>2, <1>10, <2>2, <3>1, <3>2
  <2> QED
    BY <2>1, <2>2
<1> QED
  BY <1>7, <1>9, <1>11, <1>12 DEF DriversInv

(* The memset of an initialisation clears busy: the transfers below it become
   stale. *)
LEMMA MemsetKeeps ==
  ASSUME DriversInv, init_memset, UNCHANGED vars
  PROVE  DriversInv'
<1> DEFINE n == Len(calls)
           b == Call.bus
<1>0. Call.pc = "memset"
  BY DEF init_memset, At
<1>1. /\ InCall
      /\ busy' = [busy EXCEPT ![b] = FALSE]
      /\ initialized' = [initialized EXCEPT ![b] = FALSE]
      /\ calls' = [k \in DOMAIN calls |->
                    IF k = n THEN [calls[k] EXCEPT !.pc = "ready"]
                    ELSE [calls[k] EXCEPT !.stale = @ \/ k \in Holders(b)]]
  BY DEF init_memset, At
<1>2. /\ n \in Nat /\ n >= 1 /\ Call = calls[n] /\ b \in Instances
      /\ DOMAIN calls = 1..n
      /\ \A k \in 1..n : calls[k] \in CallRecord
  BY <1>1, InCallFacts, CallFields DEF DriversInv, CallsOK
<1>3. \A k \in 1..n : k \in Holders(b) <=>
                         calls[k].bus = b /\ calls[k].pc = "transfer"
  BY HoldersFacts DEF DriversInv
<1>4. ASSUME NEW k \in 1..n
      PROVE  /\ calls'[k] \in CallRecord
             /\ calls'[k].depth = calls[k].depth
             /\ calls'[k].bus = calls[k].bus
             /\ calls'[k].pc = IF k = n THEN "ready" ELSE calls[k].pc
             /\ k # n => (calls'[k].stale <=> calls[k].stale \/ Holds(k, b))
             /\ k = n => calls'[k].stale = calls[k].stale
  <2>0. calls[k].stale \in BOOLEAN
    BY <1>2 DEF CallRecord
  <2>1. CASE k = n
    BY <1>1, <1>2, <2>1 DEF CallRecord, CallPcs
  <2>2. CASE k # n
    <3>1. calls'[k] = [calls[k] EXCEPT !.stale = @ \/ k \in Holders(b)]
      BY <1>1, <1>2, <2>2
    <3>2. (calls[k].stale \/ k \in Holders(b)) \in BOOLEAN
      OBVIOUS
    <3> QED
      BY <1>2, <1>3, <2>0, <2>2, <3>1, <3>2 DEF CallRecord, Holds
  <2> QED
    BY <2>1, <2>2
<1>5. calls' \in Seq(CallRecord) /\ Len(calls') = n
  <2>1. calls' \in [1..n -> CallRecord]
    BY <1>1, <1>2, <1>4
  <2> QED
    BY <1>2, <2>1
<1>6. IrqInv' /\ stack' = stack
  BY IrqStep DEF vars, DriversInv
<1>7. CallsOK'
  <2>1. busy' \in [Instances -> BOOLEAN] /\ initialized' \in [Instances -> BOOLEAN]
    BY <1>1 DEF DriversInv, CallsOK
  <2>2. ASSUME NEW k \in 1..n
        PROVE  /\ calls'[k].depth = calls[k].depth
               /\ calls'[k].stale => calls'[k].pc = "transfer"
    <3>1. calls[k].stale => calls[k].pc = "transfer"
      BY DEF DriversInv, CallsOK
    <3>2. k = n => ~calls[k].stale
      BY <1>0, <1>2, <3>1
    <3> QED
      BY <1>4, <3>1, <3>2 DEF Holds
  <2> QED
    BY <1>2, <1>5, <1>6, <2>1, <2>2 DEF DriversInv, CallsOK
<1>8. ASSUME NEW k \in 1..n, NEW a \in Instances
      PROVE  Holds(k, a)' <=> Holds(k, a) /\ a # b
  <2>1. CASE k = n
    BY <1>0, <1>2, <1>4, <2>1 DEF Holds
  <2>2. CASE k # n
    BY <1>4, <2>2 DEF Holds
  <2> QED
    BY <2>1, <2>2
<1>9. FreeBelow'
  <2> SUFFICES ASSUME NEW j \in 1..n, NEW k \in 1..n, j < k,
                      calls'[k].pc \in {"claim", "transfer", "ready"}
               PROVE  ~Holds(j, calls[k].bus)'
    BY <1>5 DEF FreeBelow
  <2>1. calls'[k].bus = calls[k].bus /\ calls[k].bus \in Instances
    BY <1>2, <1>4 DEF CallRecord
  <2>2. CASE k = n
    BY <1>2, <1>8, <2>1, <2>2 DEF Holds
  <2>3. CASE k # n
    <3>1. ~Holds(j, calls[k].bus)
      BY <1>4, <2>3 DEF DriversInv, FreeBelow
    <3> QED
      BY <1>8, <2>1, <3>1 DEF Holds
  <2> QED
    BY <2>2, <2>3
<1>10. BusyInv'
  <2> SUFFICES ASSUME NEW a \in Instances
               PROVE  busy'[a] <=> \E k \in 1..n : Holds(k, a)'
    BY <1>5 DEF BusyInv
  <2>1. busy'[a] <=> busy[a] /\ a # b
    BY <1>1 DEF DriversInv, CallsOK
  <2> QED
    BY <1>8, <2>1 DEF DriversInv, BusyInv
<1> QED
  BY <1>6, <1>7, <1>9, <1>10 DEF DriversInv

(* Steps of the dispatcher while no call is in progress in the frame that  *)
(* runs, and interrupts of a call: no frame with a call is left.           *)
LEMMA StackLength ==
  ASSUME IrqInv, [Next]_vars
  PROVE  /\ Len(stack) \in Nat /\ Len(stack') \in Nat
         /\ Len(stack') >= Len(stack) - 1
<1>1. Len(stack) \in Nat /\ Len(stack') \in Nat
  BY IrqStep DEF IrqInv, StackOK
<1>2. ASSUME NEW f, Goto(f) PROVE Len(stack') = Len(stack)
  BY <1>2 DEF Goto, IrqInv, StackOK
<1>3. ASSUME NEW i \in Irqs, interrupt(i) PROVE Len(stack') = Len(stack) + 1
  BY <1>3, InterruptFacts DEF IrqInv
<1>4. ASSUME Return, ~InThread PROVE Len(stack') = Len(stack) - 1
  BY <1>4, ReturnFacts DEF IrqInv
<1>5. ASSUME stack' = stack PROVE Len(stack') = Len(stack)
  BY <1>5
<1>6. Top.pc = "check" => ~InThread
  BY TopFacts DEF IrqInv, ThreadPcs
<1>7. \/ Len(stack') = Len(stack) \/ Len(stack') = Len(stack) + 1
      \/ Len(stack') = Len(stack) - 1
  BY <1>2, <1>3, <1>4, <1>5, <1>6 DEF Next, vars, irq_disable_global,
     irq_restore, irq_enable_global, irq_register, register_context,
     register_registered, irq_unregister, unregister_context,
     unregister_registered, dispatch_enter, dispatch_mark, dispatch_check,
     dispatch_load_handler, dispatch_load_context, default_fault_handler,
     dispatch_return, LeaveSection
<1> QED
  BY <1>1, <1>7

(* A step of the dispatcher, or of code outside the drivers, keeps their
   invariant. *)
LEMMA DispatcherStepKeeps ==
  ASSUME DriversInv, [Next]_vars, UNCHANGED driverVars,
         \/ ~InCall
         \/ \E i \in Irqs : interrupt(i)
         \/ UNCHANGED vars
  PROVE  DriversInv'
<1>1. IrqInv'
  BY IrqStep DEF DriversInv
<1>2. /\ Len(stack) \in Nat /\ Len(stack') \in Nat
      /\ Len(stack') >= Len(stack) - 1
  BY StackLength DEF DriversInv
<1>3. UNCHANGED <<initialized, busy, calls>>
  BY DEF driverVars, handleFlags
<1>4. \A k \in 1..Len(calls) : calls[k].depth <= Len(stack')
  <2>1. \A k \in 1..Len(calls) :
          calls[k].depth \in Nat /\ calls[k].depth <= Len(stack)
    BY CallFields DEF DriversInv, CallsOK
  <2>2. CASE ~InCall
    <3> DEFINE n == Len(calls)
    <3>1. n \in Nat /\ (n # 0 => calls # <<>>)
      BY CallFields DEF DriversInv
    <3>2. n # 0 => calls[n].depth # Len(stack)
      BY <2>2, <3>1 DEF InCall, Call
    <3>3. \A k \in 1..n : k < n => calls[k].depth < calls[n].depth
      BY <3>1 DEF DriversInv, CallsOK
    <3>4. ASSUME NEW k \in 1..n PROVE calls[k].depth <= Len(stack) - 1
      <4>1. calls[k].depth \in Nat /\ calls[n].depth \in Nat
            /\ calls[n].depth <= Len(stack) /\ calls[n].depth # Len(stack)
            /\ (k = n \/ calls[k].depth < calls[n].depth)
        BY <2>1, <3>1, <3>2, <3>3
      <4> QED
        BY <1>2, <4>1
    <3> QED
      BY <1>2, <2>1, <3>4
  <2>3. CASE \E i \in Irqs : interrupt(i)
    <3>1. Len(stack') = Len(stack) + 1
      BY <2>3, InterruptFacts DEF DriversInv, IrqInv
    <3> QED
      BY <1>2, <2>1, <3>1
  <2>4. CASE UNCHANGED vars
    BY <2>1, <2>4 DEF vars
  <2> QED
    BY <2>2, <2>3, <2>4
<1>5. CallsOK'
  BY <1>3, <1>4 DEF DriversInv, CallsOK
<1>6. FreeBelow' /\ BusyInv'
  BY <1>3 DEF DriversInv, FreeBelow, BusyInv, Holds
<1> QED
  BY <1>1, <1>5, <1>6 DEF DriversInv

(* A deinitialisation clears the flags whatever transfer is in progress. *)
LEMMA DeinitKeeps ==
  ASSUME DriversInv, NEW b \in Instances, deinit(b), UNCHANGED vars
  PROVE  DriversInv'
<1>1. IrqInv' /\ stack' = stack
  BY IrqStep DEF DriversInv, vars
<1>2. /\ UNCHANGED <<busy, calls>>
      /\ initialized' = [initialized EXCEPT ![b] = FALSE]
  BY DEF deinit
<1>3. CallsOK'
  BY <1>1, <1>2 DEF DriversInv, CallsOK
<1>4. FreeBelow' /\ BusyInv'
  BY <1>2 DEF DriversInv, FreeBelow, BusyInv, Holds
<1> QED
  BY <1>1, <1>3, <1>4 DEF DriversInv

(* The first step of every call of a driver.                               *)
LEMMA CallKeeps ==
  ASSUME DriversInv, MayCall, NEW b \in Instances, DriverCall(b), UNCHANGED vars
  PROVE  DriversInv'
<1>1. ~InCall
  BY DEF MayCall
<1>2. CASE UNCHANGED driverVars
  BY <1>2, DispatcherStepKeeps
<1>3. CASE deinit(b)
  BY <1>3, DeinitKeeps
<1>4. ASSUME NEW w \in {"memset", "claim", "unclaimed"}, w = "claim" => ~busy[b],
             Begin(b, w), UNCHANGED handleFlags
      PROVE  DriversInv'
  BY <1>1, <1>4, BeginKeeps
<1>5. CASE init(b)
  BY <1>2, <1>4, <1>5 DEF init
<1>6. CASE claiming_transfer(b)
  BY <1>2, <1>4, <1>6 DEF claiming_transfer
<1>7. CASE unclaimed_transfer(b)
  BY <1>4, <1>7 DEF unclaimed_transfer
<1> QED
  BY <1>2, <1>3, <1>5, <1>6, <1>7 DEF DriverCall, driver_i2c_init, i2c_init,
     driver_spi_init, spi_init, driver_uart_init, uart_init, WithoutConfig,
     i2c_deinit, spi_deinit, uart_deinit, i2c_master_read, i2c_write_register,
     i2c_master_write, i2c_read_register, i2c_read_registers,
     i2c_master_write_read, i2c_scan_bus, spi_write, spi_read, spi_transfer,
     uart_write_dma

(* Every step keeps the invariant: one case per action. *)
LEMMA DriversInvStep == DriversInv /\ [DriversNext]_driversVars => DriversInv'
<1> SUFFICES ASSUME DriversInv, [DriversNext]_driversVars PROVE DriversInv'
  OBVIOUS
<1>1. CASE UNCHANGED driversVars
  BY <1>1, DispatcherStepKeeps DEF driversVars
<1>2. CASE ~InCall /\ Next /\ UNCHANGED driverVars
  BY <1>2, DispatcherStepKeeps
<1>3. CASE InCall /\ (\E i \in Irqs : interrupt(i)) /\ UNCHANGED driverVars
  BY <1>3, DispatcherStepKeeps DEF Next
<1>4. CASE MayCall /\ (\E b \in Instances : DriverCall(b)) /\ UNCHANGED vars
  BY <1>4, CallKeeps
<1>5. CASE init_memset /\ UNCHANGED vars
  BY <1>5, MemsetKeeps
<1>6. CASE init_ready /\ UNCHANGED vars
  <2>1. InCall /\ Call.pc = "ready" /\ Finish
    BY <1>6 DEF init_ready, At
  <2>2. CASE UNCHANGED handleFlags
    BY <1>6, <2>1, <2>2, EndKeeps
  <2>3. CASE /\ initialized' = [initialized EXCEPT ![Call.bus] = TRUE]
             /\ busy' = [busy EXCEPT ![Call.bus] = FALSE]
    <3>1. initialized' \in [Instances -> BOOLEAN]
      BY <2>3 DEF DriversInv, CallsOK
    <3> QED
      BY <1>6, <2>1, <2>3, <3>1, ClearKeeps
  <2> QED
    BY <1>6, <2>2, <2>3 DEF init_ready
<1>7. CASE claim /\ UNCHANGED vars
  BY <1>7, ClaimKeeps
<1>8. CASE release /\ UNCHANGED vars
  BY <1>8, ClearKeeps DEF release, At, DriversInv, CallsOK
<1>9. CASE end_unclaimed /\ UNCHANGED vars
  BY <1>9, EndKeeps DEF end_unclaimed, At
<1> QED
  BY <1>1, <1>2, <1>3, <1>4, <1>5, <1>6, <1>7, <1>8, <1>9 DEF DriversNext

(* The inductive invariant holds in every reachable state. *)
LEMMA DriversSpecInv == DriversSpec => []DriversInv
  BY DriversInvInit, DriversInvStep, PTL DEF DriversSpec

-----------------------------------------------------------------------------
(* irq_is_in_isr is right at every depth of nested dispatches.             *)
THEOREM IsrFlagCorrect == DriversSpec => []IsrFlagExact
<1>1. DriversInv => IsrFlagExact
  BY IrqConsequences DEF DriversInv
<1> QED
  BY <1>1, DriversSpecInv, PTL

(* Interrupts are masked in every critical section, however nested.        *)
THEOREM CriticalSectionsMasked == DriversSpec => []MaskedInCritical
<1>1. DriversInv => MaskedInCritical
  BY IrqConsequences DEF DriversInv
<1> QED
  BY <1>1, DriversSpecInv, PTL

(* No instance of a driver carries two claimed transfers that were not     *)
(* reset under way.                                                        *)
THEOREM TransfersExclusive == DriversSpec => []OneTransfer
<1>1. DriversInv => OneTransfer
  <2> SUFFICES ASSUME DriversInv, NEW b \in Instances, NEW j \in Holders(b),
                      NEW k \in Holders(b), ~calls[j].stale, ~calls[k].stale
               PROVE  j = k
    BY DEF OneTransfer
  <2>1. /\ Len(calls) \in Nat /\ j \in 1..Len(calls) /\ k \in 1..Len(calls)
        /\ Holds(j, b) /\ Holds(k, b)
    BY HoldersFacts, CallFields DEF DriversInv, Holds
  <2>2. ~(j < k) /\ ~(k < j)
    BY <2>1 DEF DriversInv, FreeBelow, Holds
  <2> QED
    BY <2>1, <2>2
<1> QED
  BY <1>1, DriversSpecInv, PTL

(* An instance is busy only while a claimed transfer is in progress on it. *)
THEOREM NotLeftBusy == DriversSpec => []NoneLeftBusy
<1>1. DriversInv => NoneLeftBusy
  <2> SUFFICES ASSUME DriversInv, NEW b \in Instances, busy[b]
               PROVE  Holders(b) # {}
    BY DEF NoneLeftBusy
  <2>1. PICK k \in 1..Len(calls) : Holds(k, b)
    BY DEF DriversInv, BusyInv
  <2> QED
    BY <2>1, HoldersFacts DEF DriversInv, Holds
<1> QED
  BY <1>1, DriversSpecInv, PTL
=============================================================================
