------------------------------- MODULE MCUart -------------------------------
(* Two instances and an application on a heap with room for four buffers,   *)
(* so that either allocation of uart_init can fail.  Rings of one and two   *)
(* bytes are filled by writes of one and two; a size of zero is refused.    *)
EXTENDS Uart

MCSizes == {8}
MCConfigs == {[rx |-> 2, tx |-> 2], [rx |-> 8, tx |-> 1], [rx |-> 4, tx |-> 0]}
=============================================================================
