SPECIFICATION Spec
CONSTANTS
  MaxTasks = 3
  WAIT_ALL_CHILDREN <- MCWaitAll
  NOT_BLOCKED <- MCNotBlocked
  Schedulers = {"PREEMPTIVE_DYNAMIC_PRIORITY"}
  Priorities = {0, 1}
  Programs = {}
  Reports = {}
  InitProgram = init
  CounterModulus = 6
  InitExits = FALSE
PROPERTIES WaitEndsWithTheChildren
