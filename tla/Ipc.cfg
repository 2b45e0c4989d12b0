SPECIFICATION IpcSpec
CONSTANTS
  HEAP_SIZE = 28
  HDR = 4
  SPLIT_MIN = 4
  SIZE_MOD = 256
  COUNT_MOD = 1
  Sizes <- MCSizes
  m1 = m1
  m2 = m2
  Msgs <- MCMsgs
  NoMsg = NoMsg
  Capacities <- MCCapacities
  SIZEOF_MQ = 6
  SIZEOF_MUTEX = 4
  SIZEOF_SEM = 4
  MsgSize = 2
  Counts <- MCCounts
  TaskIds <- MCTaskIds
INVARIANTS QueueTypeOK MutexExclusive PermitsConserved ObjectsOwnBlocks
PROPERTIES ImplementsFifo
