------------------------------ MODULE MCKernel ------------------------------
(* Instances of Kernel for TLC: three slots, so a current task can have two *)
(* rivals; two priorities, so there is a preemption and a tie.              *)
EXTENDS Kernel

MCTicks == {0, 1}
=============================================================================
