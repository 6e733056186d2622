SPECIFICATION Spec
CONSTANTS
  MaxTasks = 3
  WAIT_ALL_CHILDREN <- MCWaitAll
  NOT_BLOCKED <- MCNotBlocked
  Schedulers = {"ROUNDROBIN", "PREEMPTIVE"}
  Priorities = {}
  Programs = {prog}
  Reports = {"getpid", "getppid", "get_interrupt_count"}
  InitProgram = init
  CounterModulus = 3
  InitExits = FALSE
PROPERTIES FramesArePrivate
