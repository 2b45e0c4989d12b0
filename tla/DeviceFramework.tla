-------------------------- MODULE DeviceFramework ---------------------------
(***************************************************************************)
(* The driver and device registries of src/driver_framework.c and          *)
(* device_init_all, one action per iteration of its loop: a driver's init  *)
(* callback may succeed or fail each time it is called.                    *)
(***************************************************************************)
EXTENDS Naturals, Sequences, FiniteSets

CONSTANTS
  MAX_DRIVERS, MAX_DEVICES,
  DriverNames, DeviceNames,
  AppDrivers,               \* drivers the application registers
  Wanted,                   \* driver names its devices ask for
  UART, I2C, SPI,           \* names of the built-in drivers
  InitPriorities,           \* init_priority of the devices registered
  LOWEST                    \* 255, where the search for a minimum starts

Driver == [name : DriverNames, init : BOOLEAN]

ASSUME DeviceAssumption ==
  /\ MAX_DRIVERS \in Nat \ {0} /\ MAX_DEVICES \in Nat \ {0}
  /\ {UART, I2C, SPI} \subseteq DriverNames
  /\ AppDrivers \subseteq Driver /\ Wanted \subseteq DriverNames
  /\ LOWEST \in Nat /\ InitPriorities \subseteq 0..LOWEST

VARIABLES
  drivers,   \* driver_registry: name, and whether init is non-NULL
  devices,   \* device_registry
  pc,        \* "idle", inside "init_all", or just "returned" from it
  iter, status,  \* locals of device_init_all
  attempts,  \* the devices this call of device_init_all picked, in order
  called     \* those whose driver it found

vars == <<drivers, devices, pc, iter, status, attempts, called>>
passVars == <<iter, status, attempts, called>>

Device == [name : DeviceNames, driver_name : DriverNames,
           init_priority : InitPriorities, initialized : BOOLEAN]

(* device_framework_init has run.                                           *)
Init ==
  /\ drivers = <<>> /\ devices = <<>>
  /\ pc = "idle" /\ iter = 0 /\ status = "OK"
  /\ attempts = <<>> /\ called = {}

-----------------------------------------------------------------------------
(* Registration and lookup.                                                 *)

Named(registry, n) == {i \in DOMAIN registry : registry[i].name = n}

(* The registry after driver_register: unchanged when the name is taken     *)
(* (ALREADY_INITIALIZED) or the table is full (ERROR).                      *)
WithDriver(registry, d) ==
  IF Named(registry, d.name) # {} \/ Len(registry) >= MAX_DRIVERS
  THEN registry
  ELSE Append(registry, d)

(* The program is between two calls of the framework; what the last call    *)
(* of device_init_all did is forgotten.                                     *)
Outside ==
  /\ pc # "init_all" /\ pc' = "idle"
  /\ iter' = 0 /\ status' = "OK" /\ attempts' = <<>> /\ called' = {}

driver_register(d) ==
  /\ Outside
  /\ drivers' = WithDriver(drivers, d)
  /\ UNCHANGED devices

BuiltIn(n) == [name |-> n, init |-> TRUE]

device_register_builtin_drivers ==
  /\ Outside
  /\ drivers' = WithDriver(WithDriver(WithDriver(drivers,
                  BuiltIn(UART)), BuiltIn(I2C)), BuiltIn(SPI))
  /\ UNCHANGED devices

driver_lookup(n) == Named(drivers, n)

RegisterBeyondTable(n, d, p, f) ==
  /\ Outside
  /\ Named(devices, n) = {} /\ Len(devices) <= MAX_DEVICES
  /\ devices' = Append(devices, [name |-> n, driver_name |-> d,
                            init_priority |-> p, initialized |-> f])
  /\ UNCHANGED drivers

RegisterTwice(n, d, p, f) ==
  /\ Outside
  /\ Len(devices) < MAX_DEVICES
  /\ devices' = Append(devices, [name |-> n, driver_name |-> d,
                            init_priority |-> p, initialized |-> f])
  /\ UNCHANGED drivers

(* The entry is a copy of the caller's structure, its initialized flag f     *)
(* included.                                                                *)
device_register(n, d, p, f) ==
  /\ Outside
  /\ UNCHANGED drivers
  /\ \/ /\ Named(devices, n) # {}                 \* ALREADY_INITIALIZED
        /\ UNCHANGED devices
     \/ /\ Named(devices, n) = {} /\ Len(devices) >= MAX_DEVICES  \* ERROR
        /\ UNCHANGED devices
     \/ /\ Named(devices, n) = {} /\ Len(devices) < MAX_DEVICES
        /\ devices' = Append(devices, [name |-> n, driver_name |-> d,
                            init_priority |-> p, initialized |-> f])

(* The entry device_get_by_name finds, 0 for NULL.                          *)
device_get_by_name(n) ==
  LET hits == Named(devices, n)
  IN  IF hits = {} THEN 0 ELSE CHOOSE i \in hits : \A j \in hits : i <= j

device_framework_init ==
  /\ Outside
  /\ drivers' = <<>> /\ devices' = <<>>

-----------------------------------------------------------------------------
(* device_init_all.                                                         *)

Pending ==
  {i \in DOMAIN devices : /\ ~devices[i].initialized
                          /\ devices[i].init_priority < LOWEST}

LastOfEquals(i, j) ==
  \/ devices[i].init_priority < devices[j].init_priority
  \/ devices[i].init_priority = devices[j].init_priority /\ i >= j

(* i comes before j in the search for the next device: strictly smaller     *)
(* priorities replace the candidate, so the first of equals is kept.        *)
Earlier(i, j) ==
  \/ devices[i].init_priority < devices[j].init_priority
  \/ devices[i].init_priority = devices[j].init_priority /\ i <= j

NextDevice == CHOOSE i \in Pending : \A j \in Pending : Earlier(i, j)

(* The number of iterations of the loop.                                    *)
OneShort == Len(devices) - 1
Iterations == Len(devices)

device_init_all ==
  /\ pc # "init_all" /\ pc' = "init_all"
  /\ iter' = 0 /\ status' = "OK" /\ attempts' = <<>> /\ called' = {}
  /\ UNCHANGED <<drivers, devices>>

(* The driver's callback, or no callback, accepts the device.               *)
Succeed(i) ==
  /\ devices' = [devices EXCEPT ![i].initialized = TRUE]
  /\ called' = called \cup {i}
  /\ UNCHANGED status

init_device ==
  LET i == NextDevice
      d == driver_lookup(devices[i].driver_name)
  IN  /\ pc = "init_all" /\ iter < Iterations /\ Pending # {}
      /\ iter' = iter + 1 /\ attempts' = Append(attempts, i)
      /\ UNCHANGED <<pc, drivers>>
      /\ \/ /\ d = {}
            /\ status' = "NOT_FOUND"
            /\ UNCHANGED <<devices, called>>
         \/ /\ \E k \in d : drivers[k].init       \* the callback fails
            /\ status' = "ERROR"
            /\ called' = called \cup {i}
            /\ UNCHANGED devices
         \/ /\ d # {}
            /\ Succeed(i)

init_all_return ==
  /\ pc = "init_all" /\ (iter = Iterations \/ Pending = {})
  /\ pc' = "returned"
  /\ UNCHANGED <<drivers, devices, passVars>>

Next ==
  \/ \E d \in AppDrivers : driver_register(d)
  \/ device_register_builtin_drivers
  \/ \E n \in DeviceNames, d \in Wanted, p \in InitPriorities, f \in BOOLEAN :
        device_register(n, d, p, f)
  \/ device_framework_init
  \/ device_init_all
  \/ init_device
  \/ init_all_return

Spec == Init /\ [][Next]_vars

-----------------------------------------------------------------------------
(* Properties.                                                              *)

(* The registries stay within their tables and the loop within its bound.   *)
TypeOK ==
  /\ drivers \in Seq(Driver) /\ Len(drivers) <= MAX_DRIVERS
  /\ devices \in Seq(Device) /\ Len(devices) <= MAX_DEVICES
  /\ pc \in {"idle", "init_all", "returned"}
  /\ iter \in 0..MAX_DEVICES /\ Len(attempts) = iter
  /\ status \in {"OK", "NOT_FOUND", "ERROR"}

(* A lookup by name returns the very entry that was registered under it: no *)
(* registration, repeated, refused or after a full table, hides another.    *)
LookupFindsDevice ==
  \A i \in DOMAIN devices : device_get_by_name(devices[i].name) = i

(* One call of device_init_all tries devices in order of init_priority, and *)
(* devices of equal priority in the order of their registration, also when  *)
(* some of them fail and are tried again.                                   *)
TriedInOrder ==
  pc # "idle" =>
    \A a, b \in DOMAIN attempts : a < b =>
      LET i == attempts[a]  j == attempts[b]
      IN  \/ devices[i].init_priority < devices[j].init_priority
          \/ devices[i].init_priority = devices[j].init_priority /\ i <= j

(* DEVICE_STATUS_OK means what a caller takes it to mean, for every device  *)
(* of a priority above the lowest: it is initialized.  Each iteration that  *)
(* fails leaves an error, each other one initializes one device, and there  *)
(* are as many iterations as devices.                                       *)
OkMeansInitialised ==
  pc = "returned" /\ status = "OK" =>
    \A i \in DOMAIN devices :
      devices[i].init_priority < LOWEST => devices[i].initialized

(* driver_framework.h: device_init_all "calls driver->init() for each       *)
(* device".  A device whose driver is missing or fails stays the first      *)
(* candidate and uses up the iterations the others would need.              *)
EveryDeviceIsTried ==
  pc = "returned" =>
    \A i \in DOMAIN devices :
      Named(drivers, devices[i].driver_name) # {} =>
        devices[i].initialized \/ i \in called
=============================================================================
