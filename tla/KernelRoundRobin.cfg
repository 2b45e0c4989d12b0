SPECIFICATION YieldingSpec
CONSTANTS
  MAX_TASKS = 2
  NUM_PRIORITY_LEVELS = 2
  TICK_MOD = 2
  MaxTaskId = 2
  Ticks <- MCTicks
PROPERTIES RoundRobin
