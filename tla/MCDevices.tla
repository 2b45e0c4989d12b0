----------------------------- MODULE MCDevices ------------------------------
(* Three built-in drivers and one of the application in a table of three,   *)
(* so that the table fills up and a device may name a driver that is not,   *)
(* or could not be, registered; four device names for a table of three.     *)
EXTENDS DeviceFramework, TLC

CONSTANTS uart, i2c, spi, ext, d1, d2, d3, d4
MCDriverNames == {uart, i2c, spi, ext}
MCDeviceNames == {d1, d2, d3, d4}
MCPriorities == {0, 1, 255}
MCAppDrivers == {[name |-> uart, init |-> TRUE], [name |-> ext, init |-> FALSE]}
MCWanted == {uart, ext}
MCOrdinary == {0, 1}
Symmetry == Permutations(MCDeviceNames)
=============================================================================
