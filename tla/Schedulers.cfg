SPECIFICATION FairSpec
CONSTANTS
  MaxTasks = 3
  WAIT_ALL_CHILDREN <- MCWaitAll
  NOT_BLOCKED <- MCNotBlocked
  Schedulers = {"ROUNDROBIN", "PREEMPTIVE", "PREEMPTIVE_DYNAMIC_PRIORITY"}
  Priorities = {0, 1}
  Programs = {}
  Reports = {}
  InitProgram = init
  CounterModulus = 6
  InitExits = FALSE
INVARIANTS OutrankedByAtMostOne
PROPERTIES ReadyTaskRuns MostUrgentTaskRuns DynamicTaskRuns
