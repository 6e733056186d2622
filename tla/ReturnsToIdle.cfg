SPECIFICATION InputSpec
CONSTANTS
  MaxTasks = 5
  WAIT_ALL_CHILDREN <- MCWaitAll
  NOT_BLOCKED <- MCNotBlocked
  Schedulers = {}
  Priorities = {}
  Programs = {}
  Reports = {}
  InitProgram <- MCEntry
  CounterModulus = 1
  InitExits = FALSE
  Builds <- MCSpawn
  TimerInWindow = FALSE
  Typing <- MCTyping
  Backspace = "BS"
  Enter = "NL"
  ProgramOf <- MCProgramOf
  Junk <- MCJunk
  MaxClicks = 1
PROPERTIES ReturnsToIdle
