SPECIFICATION MCSpec
CONSTANTS
  MAX_TASKS = 3
  NUM_PRIORITY_LEVELS = 2
  MaxTaskId = 4
INVARIANTS ListsIntact OneRunningAtRest
PROPERTIES ImplementsKernel CallsEnd
