SPECIFICATION Spec
CONSTANTS
  MaxTasks = 4
  WAIT_ALL_CHILDREN <- MCWaitAll
  NOT_BLOCKED <- MCNotBlocked
  Schedulers = {"ROUNDROBIN", "PREEMPTIVE"}
  Priorities = {1}
  Programs = {}
  Reports = {}
  InitProgram = init
  CounterModulus = 1
  InitExits = FALSE
INVARIANTS TypeOK NoLostWakeup CpuOwnerCanRun CpuOwnership PidsAreSound
PROPERTIES ExitIsFinal WaitEndsWithTheChildren ImplementsProcessTree
