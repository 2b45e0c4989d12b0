SPECIFICATION IsrSpec
CONSTANTS
  MAX_TASKS = 2
  NUM_PRIORITY_LEVELS = 2
  MaxTaskId = 2
INVARIANTS ListsSurviveInterrupts
