------------------------------- MODULE Mutex --------------------------------
(* The mutex of src/ipc/mutex.c.  A caller is the id of the current task, 0 *)
(* before the scheduler runs.  No call waits: the timeout is ignored.       *)
EXTENDS Naturals

VARIABLES
  mutex,    \* the struct mutex
  lockers   \* tasks that mutex_lock told RTOS_OK and that have not unlocked

mutexVars == <<mutex, lockers>>

Unlocked == [locked |-> FALSE, owner_task_id |-> 0]
MutexInit == mutex = Unlocked /\ lockers = {}

mutex_lock(id) ==
  \/ /\ mutex.locked                               \* RTOS_ERROR_TIMEOUT
     /\ UNCHANGED mutexVars
  \/ /\ ~mutex.locked
     /\ mutex' = [locked |-> TRUE, owner_task_id |-> id]
     /\ lockers' = lockers \cup {id}

UnlockByAnyone(id) ==
  /\ mutex.locked
  /\ mutex' = Unlocked
  /\ lockers' = lockers \ {id}

mutex_unlock(id) ==
  \/ /\ ~mutex.locked \/ mutex.owner_task_id # id  \* RTOS_ERROR
     /\ UNCHANGED mutexVars
  \/ /\ mutex.locked /\ mutex.owner_task_id = id
     /\ mutex' = Unlocked
     /\ lockers' = lockers \ {id}

(* At most one task believes it holds the mutex, and it is the owner the    *)
(* mutex records: a failed unlock by another task releases nothing.         *)
MutexExclusive ==
  lockers = IF mutex.locked THEN {mutex.owner_task_id} ELSE {}
=============================================================================
