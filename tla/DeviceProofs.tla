---------------------------- MODULE DeviceProofs ----------------------------
(***************************************************************************)
(* Proofs about DeviceFramework for every size of the two registries:      *)
(* lookups find what was registered, device_init_all tries devices in      *)
(* order, and its DEVICE_STATUS_OK means that every device is initialized. *)
(***************************************************************************)
EXTENDS DeviceFramework, FiniteSetTheorems, WellFoundedInduction, TLAPS

(* The devices that are initialized.                                       *)
Done == {i \in DOMAIN devices : devices[i].initialized}

(* Names are unique, which is what makes a lookup find its entry.          *)
NamesDistinct ==
  \A i, j \in DOMAIN devices : devices[i].name = devices[j].name => i = j

(* What a pass has tried comes before whatever is still pending: this is   *)
(* why the next candidate never has to go in front of an earlier one.      *)
TriedFirst ==
  /\ attempts \in Seq(DOMAIN devices)
  /\ \A a, b \in DOMAIN attempts : a < b => Earlier(attempts[a], attempts[b])
  /\ \A a \in DOMAIN attempts, j \in Pending : Earlier(attempts[a], j)

(* As long as nothing has failed, each iteration initialized one device.   *)
Progress == status = "OK" => iter <= Cardinality(Done)

DInv ==
  /\ TypeOK
  /\ NamesDistinct
  /\ TriedFirst
  /\ Progress
  /\ OkMeansInitialised

-----------------------------------------------------------------------------
(* The two loops that search a registry.                                   *)

(* A device that is pending exists, and its priority is a number.          *)
LEMMA DeviceFacts ==
  ASSUME TypeOK
  PROVE  /\ DOMAIN devices = 1..Len(devices) /\ Len(devices) \in Nat
         /\ \A i \in DOMAIN devices :
              /\ devices[i] \in Device
              /\ devices[i].init_priority \in Nat
              /\ devices[i].initialized \in BOOLEAN
<1>1. DOMAIN devices = 1..Len(devices) /\ Len(devices) \in Nat
  BY DEF TypeOK
<1>2. \A i \in DOMAIN devices : devices[i] \in Device
  BY DEF TypeOK
<1>3. InitPriorities \subseteq Nat
  BY DeviceAssumption
<1>4. \A d \in Device : d.init_priority \in InitPriorities
  BY DEF Device
<1>5. \A d \in Device : d.initialized \in BOOLEAN
  BY DEF Device
<1> QED
  BY <1>1, <1>2, <1>3, <1>4, <1>5

(* A set of numbers that is not empty has a least one.                     *)
LEMMA LeastNat ==
  ASSUME NEW S, S \subseteq Nat, S # {}
  PROVE  \E n \in S : \A m \in S : n <= m
<1>1. PICK n \in S : \A m \in S : <<m, n>> \notin OpToRel(<, Nat)
  BY NatLessThanWellFounded, WFMin
<1>2. \A m \in S : ~(m < n)
  BY <1>1 DEF OpToRel
<1> QED
  BY <1>2

(* An initial segment of the naturals has as many members as its end says. *)
LEMMA IntervalFacts ==
  ASSUME NEW n \in Nat
  PROVE  IsFiniteSet(1..n) /\ Cardinality(1..n) = n
<1>1. /\ IsFiniteSet(1..n)
      /\ Cardinality(1..n) = IF 1 > n THEN 0 ELSE n - 1 + 1
  BY FS_Interval
<1> QED
  BY <1>1

(* The search of device_init_all finds a device when one is pending.       *)
LEMMA NextDeviceFacts ==
  ASSUME TypeOK, Pending # {}
  PROVE  /\ NextDevice \in Pending
         /\ \A j \in Pending : Earlier(NextDevice, j)
<1>1. Pending \subseteq DOMAIN devices
  BY DEF Pending
<1> DEFINE prios == {devices[i].init_priority : i \in Pending}
<1>2. prios \subseteq Nat /\ prios # {}
  BY <1>1, DeviceFacts
<1>3. PICK m \in prios : \A k \in prios : m <= k
  BY <1>2, LeastNat
<1> DEFINE best == {i \in Pending : devices[i].init_priority = m}
<1>4. best \subseteq Nat /\ best # {}
  BY <1>1, <1>3, DeviceFacts
<1>5. PICK i \in best : \A j \in best : i <= j
  BY <1>4, LeastNat
<1>6. \A j \in Pending : Earlier(i, j)
  <2> SUFFICES ASSUME NEW j \in Pending PROVE Earlier(i, j)
    OBVIOUS
  <2>1. devices[i].init_priority = m /\ devices[j].init_priority \in prios
    OBVIOUS
  <2>2. m <= devices[j].init_priority /\ devices[j].init_priority \in Nat /\ m \in Nat
    BY <1>2, <1>3, <2>1
  <2>3. CASE devices[j].init_priority = m
    BY <1>5, <2>1, <2>3 DEF Earlier
  <2> QED
    BY <2>1, <2>2, <2>3 DEF Earlier
<1>7. i \in Pending
  OBVIOUS
<1> QED
  BY <1>6, <1>7 DEF NextDevice

(* A registry only grows at its end.                                       *)
LEMMA WithDriverFacts ==
  ASSUME NEW r \in Seq(Driver), Len(r) <= MAX_DRIVERS, NEW d \in Driver
  PROVE  /\ WithDriver(r, d) \in Seq(Driver)
         /\ Len(WithDriver(r, d)) <= MAX_DRIVERS
<1>1. MAX_DRIVERS \in Nat
  BY DeviceAssumption
<1>2. CASE WithDriver(r, d) = r
  BY <1>2
<1>3. CASE Len(r) < MAX_DRIVERS /\ WithDriver(r, d) = Append(r, d)
  <2> DEFINE w == Append(r, d)
  <2>1. w \in Seq(Driver) /\ Len(w) = Len(r) + 1
    OBVIOUS
  <2> HIDE DEF w
  <2> QED
    BY <1>1, <1>3, <2>1 DEF w
<1> QED
  BY <1>1, <1>2, <1>3 DEF WithDriver

-----------------------------------------------------------------------------

(* Empty registries satisfy the invariant. *)
LEMMA DInit == Init => DInv
<1> SUFFICES ASSUME Init PROVE DInv
  OBVIOUS
<1> USE DeviceAssumption
<1>1. TypeOK
  BY DEF Init, TypeOK
<1>2. NamesDistinct /\ OkMeansInitialised
  BY DEF Init, NamesDistinct, OkMeansInitialised
<1>3. TriedFirst
  BY DEF Init, TriedFirst
<1>4. Progress
  <2>1. Done = {}
    BY DEF Init, Done
  <2> QED
    BY <2>1, FS_EmptySet DEF Init, Progress
<1> QED
  BY <1>1, <1>2, <1>3, <1>4 DEF DInv

(* The devices the loop has settled are finitely many, all of them registered.
   *)
LEMMA DoneFinite ==
  ASSUME TypeOK
  PROVE  IsFiniteSet(Done) /\ Cardinality(Done) \in Nat /\ Done \subseteq 1..Len(devices)
<1>1. Done \subseteq 1..Len(devices) /\ Len(devices) \in Nat
  BY DeviceFacts DEF Done
<1>2. IsFiniteSet(1..Len(devices))
  BY <1>1, IntervalFacts
<1>3. IsFiniteSet(Done)
  BY <1>1, <1>2, FS_Subset
<1> QED
  BY <1>1, <1>3, FS_CardinalityType

(* A step that starts or forgets a pass only has to keep the registries.   *)
LEMMA FreshPass ==
  ASSUME TypeOK', NamesDistinct', pc' # "returned",
         iter' = 0, attempts' = <<>>
  PROVE  DInv'
<1>1. TriedFirst'
  BY DEF TriedFirst
<1>2. (Cardinality(Done) \in Nat)'
  BY DoneFinite, PTL
<1>3. Progress' /\ OkMeansInitialised'
  BY <1>2 DEF Progress, OkMeansInitialised
<1> QED
  BY <1>1, <1>3 DEF DInv

(* One iteration of device_init_all.                                       *)
LEMMA InitDeviceKeeps ==
  ASSUME DInv, init_device
  PROVE  DInv'
<1> DEFINE i == NextDevice
           ok == devices' = [devices EXCEPT ![i].initialized = TRUE]
<1>0. TypeOK /\ MAX_DEVICES \in Nat
  BY DeviceAssumption DEF DInv
<1>1. /\ pc = "init_all" /\ iter < Len(devices) /\ Pending # {}
      /\ iter' = iter + 1 /\ attempts' = Append(attempts, i)
      /\ pc' = pc /\ drivers' = drivers
  BY DEF init_device, Iterations
<1>2. /\ i \in Pending
      /\ \A j \in Pending : Earlier(i, j)
  BY <1>0, <1>1, NextDeviceFacts
<1>3. i \in DOMAIN devices /\ ~devices[i].initialized
  BY <1>2 DEF Pending
<1>4. \/ devices' = devices /\ status' \in {"NOT_FOUND", "ERROR"}
      \/ ok /\ status' = status
  BY DEF init_device, Succeed
<1> HIDE DEF i
<1>5. /\ DOMAIN devices' = DOMAIN devices
      /\ \A k \in DOMAIN devices :
           /\ devices'[k].name = devices[k].name
           /\ devices'[k].driver_name = devices[k].driver_name
           /\ devices'[k].init_priority = devices[k].init_priority
           /\ devices'[k].initialized <=>
                devices[k].initialized \/ (ok /\ k = i)
      /\ devices' \in Seq(Device) /\ Len(devices') = Len(devices)
  <2>1. CASE devices' = devices /\ ~ok
    BY <1>0, <2>1 DEF TypeOK
  <2>2. CASE ok
    <3>1. /\ DOMAIN devices' = DOMAIN devices
          /\ \A k \in DOMAIN devices :
               devices'[k] = IF k = i THEN [devices[i] EXCEPT !.initialized = TRUE]
                             ELSE devices[k]
      BY <1>3, <2>2
    <3>2. devices[i] \in Device
      BY <1>0, <1>3, DeviceFacts
    <3> DEFINE e == [devices[i] EXCEPT !.initialized = TRUE]
    <3>3. /\ e \in Device /\ e.initialized
          /\ e.name = devices[i].name
          /\ e.driver_name = devices[i].driver_name
          /\ e.init_priority = devices[i].init_priority
      BY <3>2 DEF Device
    <3> HIDE DEF e
    <3>4. devices' \in Seq(Device) /\ Len(devices') = Len(devices)
      <4>1. devices' = [devices EXCEPT ![i] = e]
        BY <2>2 DEF e
      <4> QED
        BY <1>0, <1>3, <3>3, <4>1 DEF TypeOK
    <3>5. \A k \in DOMAIN devices : devices'[k] = IF k = i THEN e ELSE devices[k]
      BY <3>1 DEF e
    <3> QED
      BY <2>2, <3>1, <3>3, <3>4, <3>5
  <2>3. CASE devices' = devices /\ ok
    BY <2>2, <2>3
  <2> QED
    BY <1>4, <2>1, <2>2
<1>6. TypeOK'
  <2>1. Len(attempts) = iter /\ attempts \in Seq(DOMAIN devices)
    BY DEF DInv, TypeOK, TriedFirst
  <2>2. Len(attempts') = iter'
    BY <1>1, <1>3, <2>1
  <2>3. iter' \in 0..MAX_DEVICES
    BY <1>0, <1>1 DEF TypeOK
  <2>4. status' \in {"OK", "NOT_FOUND", "ERROR"}
    BY <1>0, <1>4 DEF TypeOK
  <2> QED
    BY <1>0, <1>1, <1>5, <2>2, <2>3, <2>4 DEF TypeOK
<1>7. NamesDistinct'
  BY <1>5 DEF DInv, NamesDistinct
<1>9. TriedFirst'
  <2>1. ASSUME NEW x \in DOMAIN devices, NEW y \in DOMAIN devices, Earlier(x, y)
        PROVE  \/ devices'[x].init_priority < devices'[y].init_priority
               \/ devices'[x].init_priority = devices'[y].init_priority /\ x <= y
    BY <1>5, <2>1 DEF Earlier
  <2>2. Pending' \subseteq Pending /\ Pending \subseteq DOMAIN devices
    BY <1>5 DEF Pending
  <2>3. attempts \in Seq(DOMAIN devices) /\ attempts' = Append(attempts, i)
    BY <1>1 DEF DInv, TriedFirst
  <2>4. /\ attempts' \in Seq(DOMAIN devices)
        /\ DOMAIN attempts' = DOMAIN attempts \cup {Len(attempts) + 1}
        /\ DOMAIN attempts = 1..Len(attempts) /\ Len(attempts) \in Nat
        /\ attempts'[Len(attempts) + 1] = i
        /\ \A a \in DOMAIN attempts : attempts'[a] = attempts[a]
    BY <1>3, <2>3
  <2>5. \A a \in DOMAIN attempts' : attempts'[a] \in DOMAIN devices
    <3>1. \A a \in DOMAIN attempts : attempts[a] \in DOMAIN devices
      BY <2>3
    <3> QED
      BY <1>3, <2>4, <3>1
  <2>6. \A a \in DOMAIN attempts', j \in Pending : Earlier(attempts'[a], j)
    BY <1>2, <2>4 DEF DInv, TriedFirst
  <2>7. \A a, b \in DOMAIN attempts' : a < b => Earlier(attempts'[a], attempts'[b])
    <3> SUFFICES ASSUME NEW a \in DOMAIN attempts', NEW b \in DOMAIN attempts', a < b
                 PROVE  Earlier(attempts'[a], attempts'[b])
      OBVIOUS
    <3>1. a \in DOMAIN attempts
      BY <2>4
    <3>2. CASE b \in DOMAIN attempts
      BY <2>4, <3>1, <3>2 DEF DInv, TriedFirst
    <3>3. CASE b = Len(attempts) + 1
      BY <1>2, <2>4, <2>6, <3>1, <3>3
    <3> QED
      BY <2>4, <3>2, <3>3
  <2>8. \A a, b \in DOMAIN attempts' :
          a < b => Earlier(attempts[a], attempts[b])'
    BY <2>1, <2>5, <2>7 DEF Earlier
  <2>9. \A a \in DOMAIN attempts', j \in Pending' : Earlier(attempts[a], j)'
    BY <2>1, <2>2, <2>5, <2>6 DEF Earlier
  <2> QED
    BY <1>5, <2>4, <2>8, <2>9 DEF TriedFirst
<1>10. Progress'
  <2> SUFFICES ASSUME status' = "OK" PROVE iter + 1 <= Cardinality(Done')
    BY <1>1 DEF Progress
  <2>1. ok /\ status = "OK"
    BY <1>4
  <2>2. i \notin Done /\ Done' = Done \cup {i}
    BY <1>3, <1>5, <2>1 DEF Done
  <2>3. IsFiniteSet(Done) /\ Cardinality(Done) \in Nat
    BY <1>0, DoneFinite
  <2>4. Cardinality(Done') = Cardinality(Done) + 1
    BY <2>2, <2>3, FS_AddElement
  <2>5. iter <= Cardinality(Done) /\ iter \in Nat
    BY <2>1 DEF DInv, Progress, TypeOK
  <2> QED
    BY <2>3, <2>4, <2>5
<1>11. OkMeansInitialised'
  BY <1>1 DEF OkMeansInitialised
<1> QED
  BY <1>6, <1>7, <1>9, <1>10, <1>11 DEF DInv

(* A pass that ends without an error has initialized every device: it      *)
(* stops with nothing pending, or after as many iterations as devices,     *)
(* each of which initialized another one.                                  *)
LEMMA ReturnKeeps ==
  ASSUME DInv, init_all_return
  PROVE  DInv'
<1>1. /\ UNCHANGED <<drivers, devices, iter, status, attempts>>
      /\ pc' = "returned"
      /\ iter = Len(devices) \/ Pending = {}
  BY DEF init_all_return, passVars, Iterations
<1>2. TypeOK' /\ NamesDistinct'
  BY <1>1 DEF DInv, TypeOK, NamesDistinct, Named
<1>3. TriedFirst' /\ Progress'
  BY <1>1 DEF DInv, TriedFirst, Progress, Earlier, Pending, Done
<1>4. OkMeansInitialised'
  <2> SUFFICES ASSUME status = "OK", NEW i \in DOMAIN devices,
                      devices[i].init_priority < LOWEST
               PROVE  devices[i].initialized
    BY <1>1 DEF OkMeansInitialised
  <2>1. CASE Pending = {}
    BY <2>1 DEF Pending
  <2>2. CASE iter = Len(devices)
    <3>1. Len(devices) <= Cardinality(Done)
      BY <2>2 DEF DInv, Progress
    <3>2. Len(devices) \in Nat /\ DOMAIN devices = 1..Len(devices)
      BY DeviceFacts DEF DInv
    <3>3. /\ IsFiniteSet(1..Len(devices))
          /\ Cardinality(1..Len(devices)) = Len(devices)
      BY <3>2, IntervalFacts
    <3>4. Done \subseteq 1..Len(devices) /\ Cardinality(Done) \in Nat
      BY DoneFinite DEF DInv
    <3>5. /\ Cardinality(Done) <= Cardinality(1..Len(devices))
          /\ Cardinality(1..Len(devices)) = Cardinality(Done) => 1..Len(devices) = Done
      BY <3>3, <3>4, FS_Subset
    <3>6. 1..Len(devices) = Done
      BY <3>1, <3>2, <3>3, <3>4, <3>5
    <3> QED
      BY <3>2, <3>6 DEF Done
  <2> QED
    BY <1>1, <2>1, <2>2
<1> QED
  BY <1>2, <1>3, <1>4 DEF DInv

(* device_register appends a device under a name nobody has.               *)
LEMMA RegisterKeeps ==
  ASSUME DInv, NEW n \in DeviceNames, NEW d \in Wanted,
         NEW p \in InitPriorities, NEW f \in BOOLEAN, device_register(n, d, p, f)
  PROVE  DInv'
<1>0. TypeOK /\ MAX_DEVICES \in Nat /\ d \in DriverNames
  BY DeviceAssumption DEF DInv
<1>1. /\ pc' = "idle" /\ iter' = 0 /\ status' = "OK" /\ attempts' = <<>>
      /\ drivers' = drivers
  BY DEF device_register, Outside
<1>2. CASE devices' = devices
  <2>1. TypeOK' /\ NamesDistinct'
    BY <1>0, <1>1, <1>2 DEF DInv, TypeOK, NamesDistinct, Named
  <2> QED
    BY <1>1, <2>1, FreshPass
<1>3. CASE /\ Named(devices, n) = {} /\ Len(devices) < MAX_DEVICES
           /\ devices' = Append(devices, [name |-> n, driver_name |-> d,
                            init_priority |-> p, initialized |-> f])
  <2> DEFINE e == [name |-> n, driver_name |-> d,
                   init_priority |-> p, initialized |-> f]
             m == Len(devices) + 1
  <2>1. e \in Device /\ e.name = n
    BY <1>0 DEF Device
  <2>2. devices \in Seq(Device) /\ devices' = Append(devices, e)
    BY <1>0, <1>3 DEF TypeOK
  <2> HIDE DEF e
  <2>3. /\ devices' \in Seq(Device) /\ Len(devices') = m
        /\ DOMAIN devices' = DOMAIN devices \cup {m}
        /\ devices'[m] = e
        /\ \A k \in DOMAIN devices : devices'[k] = devices[k]
    BY <2>1, <2>2
  <2>4. TypeOK'
    BY <1>0, <1>1, <1>3, <2>3 DEF TypeOK
  <2> HIDE DEF m
  <2>5. \A k \in DOMAIN devices : devices[k].name # n
    BY <1>3 DEF Named
  <2>6. NamesDistinct'
    BY <2>1, <2>3, <2>5 DEF DInv, NamesDistinct
  <2> QED
    BY <1>1, <2>4, <2>6, FreshPass
<1> QED
  BY <1>2, <1>3 DEF device_register

(* A step that only changes the drivers, between two passes.               *)
LEMMA DriversKeep ==
  ASSUME DInv, Outside, devices' = devices,
         drivers' \in Seq(Driver), Len(drivers') <= MAX_DRIVERS
  PROVE  DInv'
<1>1. /\ pc' = "idle" /\ iter' = 0 /\ status' = "OK" /\ attempts' = <<>>
  BY DEF Outside
<1>2. TypeOK' /\ NamesDistinct'
  BY <1>1, DeviceAssumption DEF DInv, TypeOK, NamesDistinct
<1> QED
  BY <1>1, <1>2, FreshPass

(* Every step keeps the invariant: one case per action. *)
LEMMA DNext == DInv /\ [Next]_vars => DInv'
<1> SUFFICES ASSUME DInv, [Next]_vars PROVE DInv'
  OBVIOUS
<1>0. CASE UNCHANGED vars
  BY <1>0 DEF vars, DInv, TypeOK, NamesDistinct, Named,
              TriedFirst, Earlier, Pending, Progress, Done, OkMeansInitialised
<1>a. drivers \in Seq(Driver) /\ Len(drivers) <= MAX_DRIVERS
  BY DEF DInv, TypeOK
<1>1. ASSUME NEW d \in AppDrivers, driver_register(d)
      PROVE  DInv'
  <2>1. d \in Driver
    BY DeviceAssumption
  <2> QED
    BY <1>1, <1>a, <2>1, WithDriverFacts, DriversKeep DEF driver_register
<1>2. CASE device_register_builtin_drivers
  <2>1. /\ BuiltIn(UART) \in Driver /\ BuiltIn(I2C) \in Driver
        /\ BuiltIn(SPI) \in Driver
    BY DeviceAssumption DEF BuiltIn, Driver
  <2> DEFINE r1 == WithDriver(drivers, BuiltIn(UART))
             r2 == WithDriver(r1, BuiltIn(I2C))
             r3 == WithDriver(r2, BuiltIn(SPI))
  <2>2. /\ r1 \in Seq(Driver) /\ Len(r1) <= MAX_DRIVERS
    BY <1>a, <2>1, WithDriverFacts
  <2> HIDE DEF r1
  <2>3. /\ r2 \in Seq(Driver) /\ Len(r2) <= MAX_DRIVERS
    BY <2>1, <2>2, WithDriverFacts
  <2> HIDE DEF r2
  <2>4. /\ r3 \in Seq(Driver) /\ Len(r3) <= MAX_DRIVERS
    BY <2>1, <2>3, WithDriverFacts
  <2>5. Outside /\ drivers' = r3 /\ devices' = devices
    BY <1>2 DEF device_register_builtin_drivers, r1, r2
  <2> HIDE DEF r3
  <2> QED
    BY <2>2, <2>3, <2>4, <2>5, DriversKeep
<1>3. ASSUME NEW n \in DeviceNames, NEW d \in Wanted, NEW p \in InitPriorities,
             NEW f \in BOOLEAN, device_register(n, d, p, f)
      PROVE  DInv'
  BY <1>3, RegisterKeeps
<1>4. CASE device_framework_init
  <2>1. /\ pc' = "idle" /\ iter' = 0 /\ status' = "OK" /\ attempts' = <<>>
        /\ drivers' = <<>> /\ devices' = <<>>
    BY <1>4 DEF device_framework_init, Outside
  <2>2. TypeOK' /\ NamesDistinct'
    BY <2>1, DeviceAssumption DEF TypeOK, NamesDistinct
  <2> QED
    BY <2>1, <2>2, FreshPass
<1>5. CASE device_init_all
  <2>1. /\ pc' = "init_all" /\ iter' = 0 /\ status' = "OK" /\ attempts' = <<>>
        /\ drivers' = drivers /\ devices' = devices
    BY <1>5 DEF device_init_all
  <2>2. TypeOK' /\ NamesDistinct'
    BY <2>1, DeviceAssumption DEF DInv, TypeOK, NamesDistinct
  <2> QED
    BY <2>1, <2>2, FreshPass
<1>6. CASE init_device
  BY <1>6, InitDeviceKeeps
<1>7. CASE init_all_return
  BY <1>7, ReturnKeeps
<1> QED
  BY <1>0, <1>1, <1>2, <1>3, <1>4, <1>5, <1>6, <1>7 DEF Next

(* The inductive invariant holds in every reachable state. *)
LEMMA SpecDInv == Spec => []DInv
  BY DInit, DNext, PTL DEF Spec

-----------------------------------------------------------------------------
(* Every variable keeps its type, and neither registry outgrows its table. *)
THEOREM TypeCorrect == Spec => []TypeOK
<1>1. DInv => TypeOK
  BY DEF DInv
<1> QED
  BY <1>1, SpecDInv, PTL

(* device_get_by_name returns the entry registered under that name, for    *)
(* any number of devices.                                                  *)
THEOREM LookupsCorrect == Spec => []LookupFindsDevice
<1>1. ASSUME DInv PROVE LookupFindsDevice
  <2> SUFFICES ASSUME NEW i \in DOMAIN devices
               PROVE  device_get_by_name(devices[i].name) = i
    BY DEF LookupFindsDevice
  <2>1. Named(devices, devices[i].name) = {i}
    BY <1>1 DEF DInv, NamesDistinct, Named
  <2>2. i \in Nat
    BY <1>1, DeviceFacts DEF DInv
  <2> QED
    BY <2>1, <2>2 DEF device_get_by_name
<1> QED
  BY <1>1, SpecDInv, PTL

(* The search for the least init_priority, repeated with failures in       *)
(* between, tries devices in order of priority and of registration.        *)
THEOREM DevicesTriedInOrder == Spec => []TriedInOrder
<1>1. DInv => TriedInOrder
  BY DEF DInv, TriedFirst, TriedInOrder, Earlier
<1> QED
  BY <1>1, SpecDInv, PTL

(* DEVICE_STATUS_OK from device_init_all means that every device above the *)
(* lowest priority is initialized, for any number of devices.              *)
THEOREM OkIsTruthful == Spec => []OkMeansInitialised
<1>1. DInv => OkMeansInitialised
  BY DEF DInv
<1> QED
  BY <1>1, SpecDInv, PTL
=============================================================================
