------------------------------- MODULE MCIrq --------------------------------
(* Three interrupts that nest in each other, two handlers to swap, and      *)
(* critical sections inside critical sections.                              *)
EXTENDS IrqDispatcher, TLC

CONSTANTS i1, i2, i3, h1, h2
MCIrqs == {i1, i2, i3}
MCHandlers == {h1, h2}
Symmetry == Permutations(MCIrqs) \cup Permutations(MCHandlers)
=============================================================================
