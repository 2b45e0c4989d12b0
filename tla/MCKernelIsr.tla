---------------------------- MODULE MCKernelIsr -----------------------------
(* Two tasks of one priority or two suffice to lose one of them.            *)
EXTENDS KernelIsr
=============================================================================
