-------------------------------- MODULE Uart --------------------------------
(***************************************************************************)
(* The UART driver of src/drivers/uart_driver.c: its table of instances,   *)
(* each with a receive and a transmit ring buffer on the heap, beside an   *)
(* application that also allocates memory.  The driver is a simulation:    *)
(* its interrupt handler only prints, so nothing enters a receive ring and *)
(* nothing leaves a transmit ring except through uart_flush.  The DMA path *)
(* is in module Drivers; the receive callback is stored and never called.  *)
(***************************************************************************)
EXTENDS Heap

CONSTANTS
  Uarts,       \* ids below MAX_UART_INSTANCES
  Configs,     \* the rx_buffer_size and tx_buffer_size of configurations
  Lengths      \* how many bytes callers pass to uart_write

(* The sizes are uint16_t, so that rounding them up does not wrap size_t.   *)
ASSUME UartAssumption ==
  /\ IsFiniteSet(Uarts)
  /\ Configs \subseteq [rx : 0..(SIZE_MOD - 4), tx : 0..(SIZE_MOD - 4)]
  /\ Lengths \subseteq Nat \ {0}

VARIABLE uart_instances

allVars == <<heapVars, uart_instances>>

NoBuffer == -1

(* A circular_buffer_t; its bytes, in the heap block at buffer, are data    *)
(* that no property depends on.                                             *)
NewRing(b, n) ==
  [buffer |-> b, size |-> n, head |-> 0, tail |-> 0, count |-> 0]

ZeroHandle ==
  [initialized |-> FALSE,
   rx |-> NewRing(NoBuffer, 0), tx |-> NewRing(NoBuffer, 0)]

UartInit ==
  /\ HeapInit
  /\ uart_instances = [u \in Uarts |-> ZeroHandle]

UartBlocks ==
  (UNION {{uart_instances[u].rx.buffer, uart_instances[u].tx.buffer} :
            u \in Uarts}) \ {NoBuffer}

-----------------------------------------------------------------------------
(* Ring buffers.                                                            *)

(* circ_buf_put of n bytes, one after another, until the ring is full.      *)
PutAll(r, n) ==
  LET m == Min({n, r.size - r.count})
  IN  [r EXCEPT !.head = (@ + m) % r.size, !.count = @ + m]

(* circ_buf_get up to n times.                                              *)
GetUpTo(r, n) ==
  LET m == Min({n, r.count})
  IN  IF m = 0 THEN r
      ELSE [r EXCEPT !.tail = (@ + m) % r.size, !.count = @ - m]

circ_buf_flush(r) == [r EXCEPT !.head = 0, !.tail = 0, !.count = 0]

-----------------------------------------------------------------------------
(* Initialization: two allocations, of which either may fail.  A buffer of  *)
(* zero bytes is not allocated.                                             *)

Allocates(h, n) == n > 0 /\ Fits(h, align_size(n)) # {}
AfterMalloc(h, n) == IF Allocates(h, n) THEN Allocate(h, align_size(n)) ELSE h
Obtained(h, n) ==
  IF Allocates(h, n) THEN find_best_fit(h, align_size(n)) ELSE NoBuffer
AfterFree(h, b) == IF b = NoBuffer THEN h ELSE Release(h, b)

InitKeepsFirstBuffer(u, cfg) ==
  /\ ~uart_instances[u].initialized
  /\ Allocates(heap, cfg.rx)
  /\ ~Allocates(AfterMalloc(heap, cfg.rx), cfg.tx)
  /\ heap' = AfterMalloc(heap, cfg.rx)
  /\ freed' = {}
  /\ UNCHANGED <<asked, uart_instances>>

(* driver_uart_init calls it for a device, and reports its failure.         *)
uart_init(u, cfg) ==
  LET rx    == Obtained(heap, cfg.rx)
      one   == AfterMalloc(heap, cfg.rx)
      tx    == Obtained(one, cfg.tx)
      two   == AfterMalloc(one, cfg.tx)
      fails == rx = NoBuffer \/ tx = NoBuffer
  IN  \/ /\ uart_instances[u].initialized             \* the existing handle
         /\ UNCHANGED allVars
      \/ /\ ~uart_instances[u].initialized /\ fails   \* NULL
         /\ heap' = AfterFree(AfterFree(two, rx), tx)
         /\ freed' = IF two = heap THEN freed ELSE {}
         /\ uart_instances' = [uart_instances EXCEPT ![u] =
              [ZeroHandle EXCEPT !.rx = NewRing(NoBuffer, cfg.rx),
                                 !.tx = NewRing(NoBuffer, cfg.tx)]]
         /\ UNCHANGED asked
      \/ /\ ~uart_instances[u].initialized /\ ~fails
         /\ heap' = two
         /\ asked' = [asked EXCEPT ![rx] = cfg.rx, ![tx] = cfg.tx]
         /\ freed' = {}
         /\ uart_instances' = [uart_instances EXCEPT ![u] =
              [initialized |-> TRUE,
               rx |-> NewRing(rx, cfg.rx), tx |-> NewRing(tx, cfg.tx)]]

uart_deinit(u) ==
  LET h == uart_instances[u]
  IN  \/ /\ ~h.initialized                            \* INVALID_PARAM
         /\ UNCHANGED allVars
      \/ /\ h.initialized
         /\ heap' = Release(Release(heap, h.rx.buffer), h.tx.buffer)
         /\ asked' = [asked EXCEPT ![h.rx.buffer] = 0, ![h.tx.buffer] = 0]
         /\ freed' = freed \cup {h.rx.buffer, h.tx.buffer}
         /\ uart_instances' = [uart_instances EXCEPT
              ![u].initialized = FALSE, ![u].rx.buffer = NoBuffer,
              ![u].tx.buffer = NoBuffer]

-----------------------------------------------------------------------------
(* Transfers.  An uninitialized instance refuses them, INVALID_PARAM.       *)

(* RTOS_ERROR_BUSY when len bytes do not fit: those that do stay in the     *)
(* ring.                                                                    *)
uart_write(u, len) ==
  /\ uart_instances[u].initialized
  /\ uart_instances' = [uart_instances EXCEPT ![u].tx = PutAll(@, len)]
  /\ UNCHANGED heapVars

uart_read(u, len) ==
  /\ uart_instances[u].initialized
  /\ uart_instances' = [uart_instances EXCEPT ![u].rx = GetUpTo(@, len)]
  /\ UNCHANGED heapVars

uart_flush(u) ==
  /\ uart_instances[u].initialized
  /\ uart_instances' = [uart_instances EXCEPT ![u].rx = circ_buf_flush(@),
                                              ![u].tx = circ_buf_flush(@)]
  /\ UNCHANGED heapVars

UartNext ==
  \/ HeapStep(Held \ UartBlocks) /\ UNCHANGED uart_instances
  \/ \E u \in Uarts, cfg \in Configs : uart_init(u, cfg)
  \/ \E u \in Uarts : uart_deinit(u)
  \/ \E u \in Uarts, len \in Lengths : uart_write(u, len)
  \/ \E u \in Uarts : uart_read(u, 1)
  \/ \E u \in Uarts : uart_flush(u)

UartSpec == UartInit /\ [][UartNext]_allVars

-----------------------------------------------------------------------------
(* Properties.                                                              *)

(* Each initialized instance owns two blocks of its own, large enough for   *)
(* their rings, an instance that is not initialized owns none, and no other *)
(* block is allocated than these and the application's: whichever           *)
(* allocation of uart_init fails, and however often it is tried again,      *)
(* nothing leaks.                                                           *)
UartOwnsBuffers ==
  LET Ready == {u \in Uarts : uart_instances[u].initialized}
      Rings(u) == {uart_instances[u].rx, uart_instances[u].tx}
  IN  /\ Allocated = Held
      /\ Cardinality(UartBlocks) = 2 * Cardinality(Ready)
      /\ \A u \in Ready : \A r \in Rings(u) :
           r.buffer \in Allocated /\ r.size <= heap.size[r.buffer]
=============================================================================
