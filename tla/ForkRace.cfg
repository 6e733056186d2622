SPECIFICATION InitSpec
CONSTANTS
  MaxTasks = 5
  WAIT_ALL_CHILDREN <- MCWaitAll
  NOT_BLOCKED <- MCNotBlocked
  Schedulers = {}
  Priorities = {}
  Programs = {}
  Reports = {}
  InitProgram <- MCEntry
  CounterModulus = 1
  InitExits = FALSE
  Builds <- MCOneRound
  TimerInWindow = TRUE
INVARIANTS ChildrenRunTheirPrograms
