------------------------------ MODULE Drivers -------------------------------
(***************************************************************************)
(* The I2C and SPI drivers and the DMA path of the UART driver             *)
(* (src/drivers), called by thread code and by the handlers that module    *)
(* IrqDispatcher runs: a call in progress is interrupted by a handler, and *)
(* goes on when the handler has returned.  Each driver keeps a table of    *)
(* instances with an initialized and a busy flag, and sets busy without    *)
(* masking interrupts.  Addresses and data are left out; a bad pointer or  *)
(* length is refused like a handle that is not initialized.                *)
(***************************************************************************)
EXTENDS IrqDispatcher

CONSTANTS I2cs, Spis, Uarts     \* instances of each driver

ASSUME DriversAssumption ==
  I2cs \cap Spis = {} /\ I2cs \cap Uarts = {} /\ Spis \cap Uarts = {}

Instances == I2cs \cup Spis \cup Uarts

VARIABLES
  initialized, busy,  \* the flags of each instance; tx_busy of a UART
  calls               \* the driver calls in progress, an interrupted one
                      \* below the calls of the handler that interrupted it

handleFlags == <<initialized, busy>>
driverVars == <<handleFlags, calls>>
driversVars == <<vars, driverVars>>

DriversInit ==
  /\ Init
  /\ initialized = [b \in Instances |-> FALSE]
  /\ busy = [b \in Instances |-> FALSE]
  /\ calls = <<>>

-----------------------------------------------------------------------------
(* Calls.  A transfer that has claimed its instance is stale once the       *)
(* instance has been reset under it.                                        *)

Call == calls[Len(calls)]
InCall == calls # <<>> /\ Call.depth = Len(stack)
At(where) == InCall /\ Call.pc = where

MayCall == ~InCall /\ Top.pc = "run"
Begin(b, where) ==
  calls' = Append(calls, [depth |-> Len(stack), bus |-> b, pc |-> where,
                          stale |-> FALSE])
Continue(where) == calls' = [calls EXCEPT ![Len(calls)].pc = where]
Finish == calls' = SubSeq(calls, 1, Len(calls) - 1)

(* The claimed transfers of b in progress.                                  *)
Holders(b) ==
  {k \in DOMAIN calls : calls[k].bus = b /\ calls[k].pc = "transfer"}

-----------------------------------------------------------------------------
(* Initialization.                                                          *)

init(b) ==
  \/ initialized[b] /\ UNCHANGED driverVars        \* the existing handle
  \/ ~initialized[b] /\ Begin(b, "memset") /\ UNCHANGED handleFlags

i2c_init(b) == b \in I2cs /\ init(b)
spi_init(b) == b \in Spis /\ init(b)
uart_init(b) == b \in Uarts /\ init(b)

init_memset ==
  LET b == Call.bus
  IN  /\ At("memset")
      /\ initialized' = [initialized EXCEPT ![b] = FALSE]
      /\ busy' = [busy EXCEPT ![b] = FALSE]
      /\ calls' = [k \in DOMAIN calls |->
                    IF k = Len(calls) THEN [calls[k] EXCEPT !.pc = "ready"]
                    ELSE [calls[k] EXCEPT
                            !.stale = @ \/ k \in Holders(b)]]

(* uart_init may instead fail for want of memory (module Uart).             *)
init_ready ==
  /\ At("ready") /\ Finish
  /\ \/ /\ initialized' = [initialized EXCEPT ![Call.bus] = TRUE]
        /\ busy' = [busy EXCEPT ![Call.bus] = FALSE]
     \/ /\ Call.bus \in Uarts
        /\ UNCHANGED handleFlags

(* The callbacks of device_init_all.  A device without platform_data is     *)
(* refused, INVALID_PARAM; driver_data is the handle, named by b.           *)
WithoutConfig == UNCHANGED driverVars
driver_i2c_init(b) == WithoutConfig \/ i2c_init(b)
driver_spi_init(b) == WithoutConfig \/ spi_init(b)
driver_uart_init(b) == WithoutConfig \/ uart_init(b)

(* No deinit asks whether the instance is busy.                             *)
deinit(b) ==
  /\ initialized[b]
  /\ initialized' = [initialized EXCEPT ![b] = FALSE]
  /\ UNCHANGED <<busy, calls>>

i2c_deinit(b) == b \in I2cs /\ deinit(b)
spi_deinit(b) == b \in Spis /\ deinit(b)
uart_deinit(b) == b \in Uarts /\ deinit(b)

-----------------------------------------------------------------------------
(* Transfers.                                                               *)

TransferUnasked(b) ==
  /\ initialized[b]
  /\ Begin(b, "claim")
  /\ UNCHANGED handleFlags

(* initialized and busy are read, then busy is set.                         *)
claiming_transfer(b) ==
  \/ ~initialized[b] /\ UNCHANGED driverVars       \* INVALID_PARAM
  \/ initialized[b] /\ busy[b] /\ UNCHANGED driverVars         \* BUSY
  \/ initialized[b] /\ ~busy[b] /\ Begin(b, "claim") /\ UNCHANGED handleFlags

i2c_master_write(b) == b \in I2cs /\ claiming_transfer(b)
i2c_master_read(b) == b \in I2cs /\ claiming_transfer(b)
i2c_master_write_read(b) == b \in I2cs /\ claiming_transfer(b)
i2c_write_register(b) == i2c_master_write(b)
i2c_read_register(b) == i2c_master_write_read(b)
i2c_read_registers(b) == i2c_master_write_read(b)
uart_write_dma(b) ==
  \/ b \in Uarts /\ claiming_transfer(b)
  \/ b \in Uarts /\ UNCHANGED driverVars           \* DMA is not enabled

claim ==
  /\ At("claim") /\ Continue("transfer")
  /\ busy' = [busy EXCEPT ![Call.bus] = TRUE]
  /\ UNCHANGED initialized

ReleaseNothing ==
  /\ At("transfer") /\ Finish
  /\ UNCHANGED handleFlags

release ==
  /\ At("transfer") /\ Finish
  /\ busy' = [busy EXCEPT ![Call.bus] = FALSE]
  /\ UNCHANGED initialized

(* Transfers that neither read nor set busy.                                *)
unclaimed_transfer(b) ==
  /\ initialized[b]
  /\ Begin(b, "unclaimed")
  /\ UNCHANGED handleFlags

i2c_scan_bus(b) == b \in I2cs /\ unclaimed_transfer(b)
spi_transfer(b) == b \in Spis /\ unclaimed_transfer(b)
spi_write(b) == spi_transfer(b)
spi_read(b) == spi_transfer(b)

end_unclaimed ==
  /\ At("unclaimed") /\ Finish
  /\ UNCHANGED handleFlags

DriverCall(b) ==
  \/ driver_i2c_init(b) \/ i2c_deinit(b)
  \/ driver_spi_init(b) \/ spi_deinit(b)
  \/ driver_uart_init(b) \/ uart_deinit(b)
  \/ i2c_master_read(b) \/ i2c_write_register(b) \/ i2c_read_register(b)
  \/ i2c_read_registers(b) \/ i2c_scan_bus(b)
  \/ spi_write(b) \/ spi_read(b)
  \/ uart_write_dma(b)

(* Interrupts come during calls; all else the dispatcher and its callers do *)
(* comes between calls.                                                     *)
DriversNext ==
  \/ ~InCall /\ Next /\ UNCHANGED driverVars
  \/ InCall /\ (\E i \in Irqs : interrupt(i)) /\ UNCHANGED driverVars
  \/ MayCall /\ (\E b \in Instances : DriverCall(b)) /\ UNCHANGED vars
  \/ /\ init_memset \/ init_ready \/ claim \/ release \/ end_unclaimed
     /\ UNCHANGED vars

DriversSpec == DriversInit /\ [][DriversNext]_driversVars

-----------------------------------------------------------------------------
(* Properties.                                                              *)

(* Although busy is tested and set in two steps, no instance carries two    *)
(* claimed transfers: a handler that comes between the steps has finished   *)
(* its own transfer when the interrupted call goes on.  This is claimed of  *)
(* transfers whose instance was not reset under them: a reset clears busy,  *)
(* and the transfer that is still under way may then meet another.          *)
OneTransfer ==
  \A b \in Instances : \A j, k \in Holders(b) :
    ~calls[j].stale /\ ~calls[k].stale => j = k

(* No instance is left busy: whatever handlers initialized, reset or used   *)
(* it in the middle of a call, when the last claimed transfer has ended     *)
(* nothing refuses the next one for ever.                                   *)
NoneLeftBusy == \A b \in Instances : busy[b] => Holders(b) # {}
=============================================================================
