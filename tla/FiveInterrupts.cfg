SPECIFICATION TickedSpec
CONSTANTS
  MaxTasks = 5
  WAIT_ALL_CHILDREN <- MCWaitAll
  NOT_BLOCKED <- MCNotBlocked
  Schedulers = {}
  Priorities = {}
  Programs = {}
  Reports = {}
  InitProgram <- MCEntry
  CounterModulus = 11
  InitExits = FALSE
  Builds <- MCDynamic
  TimerInWindow = FALSE
INVARIANTS RaisedAfterFiveInterrupts
