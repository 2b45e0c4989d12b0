-------------------------------- MODULE Ipc ---------------------------------
(***************************************************************************)
(* The IPC objects of src/ipc on the heap of src/kernel/memory.c: one      *)
(* message queue, one mutex and one semaphore, each created, used and      *)
(* destroyed, beside an application that also allocates memory.  No call   *)
(* waits: the timeout arguments are ignored.  A caller is the id of the    *)
(* current task, 0 before the scheduler runs.                              *)
(***************************************************************************)
EXTENDS Heap, MessageQueue, Mutex

CONSTANTS
  SIZEOF_MQ, SIZEOF_MUTEX, SIZEOF_SEM,  \* bytes of the three structs
  MsgSize,                              \* msg_size passed to mq_create
  Counts,                               \* counts passed to sem_create
  TaskIds                               \* results of task_get_current_id

ASSUME IpcAssumption ==
  /\ {SIZEOF_MQ, SIZEOF_MUTEX, SIZEOF_SEM} \subseteq 1..(SIZE_MOD - 1)
  /\ MsgSize \in Nat \ {0}
  /\ Counts \subseteq Nat
  /\ TaskIds \subseteq Nat

VARIABLES
  at,       \* where each object's memory is
  sem,      \* the struct semaphore
  taken,    \* permits taken less permits given
  permits   \* the initial_count the semaphore was created with

semVars == <<sem, taken, permits>>
ipcVars == <<heapVars, mqVars, at, mutexVars, semVars>>

Nowhere == -1
Placed(o) == at[o] # Nowhere
ObjectBlocks == {at[o] : o \in DOMAIN at} \ {Nowhere}

NoSemaphore == [count |-> 0, max_count |-> 0]

IpcInit ==
  /\ HeapInit /\ QueueInit
  /\ at = [o \in {"mq", "buffer", "mutex", "sem"} |-> Nowhere]
  /\ MutexInit
  /\ sem = NoSemaphore /\ taken = 0 /\ permits = 0

-----------------------------------------------------------------------------
(* Creation and destruction.                                                *)

(* rtos_malloc of n bytes for object o, and its failure.                    *)
NoRoom(n) ==
  /\ Fits(heap, align_size(n)) = {}
  /\ UNCHANGED <<heapVars, at>>

Place(o, n) ==
  LET b == find_best_fit(heap, align_size(n))
  IN  /\ Fits(heap, align_size(n)) # {}
      /\ heap' = Allocate(heap, align_size(n))
      /\ asked' = [asked EXCEPT ![b] = n]
      /\ freed' = {}
      /\ at' = [at EXCEPT ![o] = b]

(* rtos_free of object o.                                                   *)
Unplace(o) ==
  /\ rtos_free(at[o])
  /\ at' = [at EXCEPT ![o] = Nowhere]

CreateLeaksStruct(n) ==
  LET need  == align_size(SIZEOF_MQ)
      grown == Allocate(heap, need)
  IN  /\ Fits(heap, need) # {} /\ Fits(grown, align_size(MsgSize * n)) = {}
      /\ heap' = grown
      /\ UNCHANGED <<asked, freed, mqVars, at>>

mq_create(n) ==
  LET need   == align_size(SIZEOF_MQ)
      bytes  == (MsgSize * n) % SIZE_MOD
      struct == find_best_fit(heap, need)
      grown  == Allocate(heap, need)
      buf    == find_best_fit(grown, align_size(bytes))
      short  == bytes = 0 \/ Fits(grown, align_size(bytes)) = {}
  IN  \/ /\ Fits(heap, need) = {}                  \* NULL
         /\ UNCHANGED <<heapVars, mqVars, at>>
      \/ /\ Fits(heap, need) # {} /\ short         \* NULL
         /\ heap' = Release(grown, struct)
         /\ freed' = {}
         /\ UNCHANGED <<asked, mqVars, at>>
      \/ /\ Fits(heap, need) # {} /\ ~short
         /\ heap' = Allocate(grown, align_size(bytes))
         /\ asked' = [asked EXCEPT ![struct] = SIZEOF_MQ, ![buf] = bytes]
         /\ freed' = {}
         /\ at' = [at EXCEPT !["mq"] = struct, !["buffer"] = buf]
         /\ mq_created(n)

mq_destroy ==
  /\ heap' = Release(Release(heap, at["buffer"]), at["mq"])
  /\ asked' = [asked EXCEPT ![at["buffer"]] = 0, ![at["mq"]] = 0]
  /\ freed' = freed \cup {at["buffer"], at["mq"]}
  /\ at' = [at EXCEPT !["mq"] = Nowhere, !["buffer"] = Nowhere]
  /\ mq_destroyed

mutex_create ==
  \/ NoRoom(SIZEOF_MUTEX) /\ UNCHANGED mutexVars   \* NULL
  \/ /\ Place("mutex", SIZEOF_MUTEX)
     /\ mutex' = Unlocked /\ lockers' = {}

mutex_destroy ==
  /\ Unplace("mutex")
  /\ mutex' = Unlocked /\ lockers' = {}

sem_create(initial, max) ==
  \/ NoRoom(SIZEOF_SEM) /\ UNCHANGED semVars       \* NULL
  \/ /\ Place("sem", SIZEOF_SEM)
     /\ sem' = [count |-> initial, max_count |-> max]
     /\ taken' = 0 /\ permits' = initial

sem_destroy ==
  /\ Unplace("sem")
  /\ sem' = NoSemaphore /\ taken' = 0 /\ permits' = 0

-----------------------------------------------------------------------------
(* Use.                                                                     *)

sem_take ==
  \/ /\ sem.count = 0                              \* RTOS_ERROR_TIMEOUT
     /\ UNCHANGED semVars
  \/ /\ sem.count # 0
     /\ sem' = [sem EXCEPT !.count = @ - 1]
     /\ taken' = taken + 1
     /\ UNCHANGED permits

GiveCountsFirst ==
  /\ sem' = [sem EXCEPT !.count = @ + 1]
  /\ taken' = IF sem.count < sem.max_count THEN taken - 1 ELSE taken
  /\ UNCHANGED permits

sem_give ==
  \/ /\ sem.count >= sem.max_count                 \* RTOS_ERROR
     /\ UNCHANGED semVars
  \/ /\ sem.count < sem.max_count
     /\ sem' = [sem EXCEPT !.count = @ + 1]
     /\ taken' = taken - 1
     /\ UNCHANGED permits

(* Objects are used while they exist.  Any caller may give a permit, also   *)
(* one that took none (a handler that signals a task).                      *)
IpcNext ==
  \/ /\ HeapStep(Held \ ObjectBlocks)
     /\ UNCHANGED <<mqVars, at, mutexVars, semVars>>
  \/ /\ \/ ~Placed("mq") /\ \E n \in Capacities : mq_create(n)
        \/ Placed("mq") /\ mq_destroy
     /\ UNCHANGED <<mutexVars, semVars>>
  \/ /\ \/ ~Placed("mutex") /\ mutex_create
        \/ Placed("mutex") /\ mutex_destroy
     /\ UNCHANGED <<mqVars, semVars>>
  \/ /\ \/ ~Placed("sem") /\ \E i, max \in Counts : sem_create(i, max)
        \/ Placed("sem") /\ sem_destroy
     /\ UNCHANGED <<mqVars, mutexVars>>
  \/ /\ Placed("mq")
     /\ (\E m \in Msgs : mq_send(m)) \/ mq_receive
     /\ UNCHANGED <<heapVars, at, mutexVars, semVars>>
  \/ /\ Placed("mutex")
     /\ \E id \in TaskIds : mutex_lock(id) \/ mutex_unlock(id)
     /\ UNCHANGED <<heapVars, mqVars, at, semVars>>
  \/ /\ Placed("sem")
     /\ sem_take \/ sem_give
     /\ UNCHANGED <<heapVars, mqVars, at, mutexVars>>

IpcSpec == IpcInit /\ [][IpcNext]_ipcVars

-----------------------------------------------------------------------------
(* Properties.                                                              *)

(* Permits are neither made nor lost: the count is the initial one less     *)
(* the permits taken on balance, and gives never take it beyond max_count;  *)
(* an initial count above max_count, which sem_create accepts, only drains. *)
PermitsConserved ==
  /\ sem.count + taken = permits
  /\ sem.count > sem.max_count => taken >= 0

(* Every IPC object lives in heap blocks of its own, and once none exists   *)
(* and the application holds nothing, no block stays allocated: a queue     *)
(* whose buffer did not fit gives its struct back.                          *)
ObjectsOwnBlocks ==
  /\ ObjectBlocks \subseteq Allocated
  /\ \A o, q \in DOMAIN at : o # q /\ at[o] = at[q] => at[o] = Nowhere
  /\ Allocated = Held
=============================================================================
