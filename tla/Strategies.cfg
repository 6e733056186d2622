SPECIFICATION InitSpec
CONSTANTS
  MaxTasks = 5
  WAIT_ALL_CHILDREN <- MCWaitAll
  NOT_BLOCKED <- MCNotBlocked
  Schedulers = {}
  Priorities = {}
  Programs = {}
  Reports = {}
  InitProgram <- MCEntry
  CounterModulus = 6
  InitExits = FALSE
  Builds <- MCStrategies
  TimerInWindow = FALSE
INVARIANTS ChildrenRunTheirPrograms ChildrenFinishFirst
PROPERTIES StrategyFinishes
