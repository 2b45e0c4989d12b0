SPECIFICATION Spec
CONSTANTS
  MAX_TASKS = 3
  NUM_PRIORITY_LEVELS = 2
  TICK_MOD = 2
  MaxTaskId = 4
  Ticks <- MCTicks
INVARIANTS TypeOK ReadyListsExact OneRunning UniqueIds
PROPERTIES DispatchIsHighest TickPreempts NoOvertaking
