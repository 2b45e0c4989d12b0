------------------------------- MODULE MCIpc --------------------------------
(* A heap in which a queue and one more object just fit, so that            *)
(* every creation can also fail, in its first and in its second allocation. *)
EXTENDS Ipc

CONSTANTS m1, m2
MCMsgs == {m1, m2}
MCSizes == {8}
MCCapacities == {0, 1, 2}
MCCounts == {0, 1, 2}
MCTaskIds == {0, 1, 2}
=============================================================================
