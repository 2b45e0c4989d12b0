----------------------------- MODULE MCDrivers ------------------------------
(* A thread and two interrupts that nest in it and in each other, and one   *)
(* instance of each driver, so that each of the three can meet a transfer,  *)
(* a reset and a claim of the others.  One handler is enough: no property   *)
(* checked here depends on which handler runs.                              *)
EXTENDS Drivers, TLC

CONSTANTS i1, i2, h1, i2c0, spi0, uart0
MCIrqs == {i1, i2}
MCHandlers == {h1}
MCI2cs == {i2c0}
MCSpis == {spi0}
MCUarts == {uart0}
Symmetry == Permutations(MCIrqs)
=============================================================================
