----------------------------- MODULE TaskManager -----------------------------
(***************************************************************************)
(* The kernel's process table (class TaskManager, src/src/multitasking.cpp *)
(* and src/include/multitasking.h), the system calls that change it        *)
(* (SyscallHandler, src/src/syscalls.cpp) and the timer interrupt that     *)
(* schedules (InterruptManager::DoHandleInterrupt).                        *)
(*                                                                         *)
(* Every IDT entry is an interrupt gate, so a handler runs with interrupts *)
(* off from its first instruction to iret: one action is one whole handler *)
(* and the interleaving is over handlers.  The caller of a system call is  *)
(* the most general program: at each step the task on the CPU may issue    *)
(* any call with any argument, or be interrupted by the timer.             *)
(*                                                                         *)
(* tasks[i].f is written f[i].  The register frame on task i's stack is    *)
(* regs[i], cut down to the two registers the kernel's results depend on;  *)
(* a CPUState pointer is the index of the stack it points into; esp is the *)
(* stack the CPU is on, -1 being the boot stack of kernelMain.             *)
(***************************************************************************)
EXTENDS Integers, FiniteSets

CONSTANTS
  MaxTasks,           \* slots of tasks[] (256 in the code)
  WAIT_ALL_CHILDREN,  \* 257 in the code
  NOT_BLOCKED,        \* 258 in the code
  Schedulers,         \* what kernelMain may pass to SetSchedulerType
  Priorities,         \* priorities a program asks of forkWithPriority
  Programs,           \* entry points a program execs
  Reports,            \* values a program asks for, of ReportCalls
  InitProgram,        \* entry point of the task kernelMain adds
  CounterModulus,     \* timerInterruptCounter is a uint32_t: 2^32 in the code
  InitExits           \* may the first task call exit()?

SchedulerTypes == {"ROUNDROBIN", "PREEMPTIVE", "PREEMPTIVE_DYNAMIC_PRIORITY"}

ReportCalls == {"getpid", "getppid", "get_interrupt_count"}

ASSUME MaxTasksAssumption == MaxTasks \in Nat \ {0}

(* The two reserved values lie above every pid the table can hand out.     *)
ASSUME SentinelAssumption ==
  /\ WAIT_ALL_CHILDREN \in Nat /\ NOT_BLOCKED \in Nat
  /\ MaxTasks < WAIT_ALL_CHILDREN /\ WAIT_ALL_CHILDREN < NOT_BLOCKED

ASSUME SchedulerAssumption == Schedulers \subseteq SchedulerTypes
ASSUME PriorityAssumption == Priorities \subseteq Nat
ASSUME CounterAssumption == CounterModulus \in Nat \ {0}
ASSUME ReportsAssumption == Reports \subseteq ReportCalls
ASSUME ExitAssumption == InitExits \in BOOLEAN

VARIABLES
  active,                   \* InterruptManager::Activate has run
  schedulerType,
  numTasks, currentTask, taskWithDynamicPriority, timerInterruptCounter,
  pidCounter,               \* Task::pidCounter
  state, pid, ppid, blocking_pid, priority, cpustate,  \* fields of tasks[]
  regs,                     \* register frame on each task's stack
  esp                       \* whose stack the CPU is on

tableVars == <<state, pid, ppid, blocking_pid, priority, cpustate>>
vars == <<active, schedulerType, numTasks, currentTask, taskWithDynamicPriority,
          timerInterruptCounter, pidCounter, tableVars, regs, esp>>

Slots == 0 .. MaxTasks - 1
Live  == 0 .. numTasks - 1

TaskState == {"EMPTY", "RUNNING", "READY", "BLOCKED", "ZOMBIE"}

Failed  == -1   \* (uint32_t)-1, what a refused call returns
Inherit == -1   \* ForkTask's default for "same priority as the parent"

(* Zeroed storage and the empty-task constructor.                          *)
Init ==
  /\ active = FALSE
  /\ schedulerType = "ROUNDROBIN"
  /\ numTasks = 0 /\ currentTask = -1 /\ esp = -1
  /\ taskWithDynamicPriority = -1
  /\ timerInterruptCounter = 0
  /\ pidCounter = 1
  /\ state        = [i \in Slots |-> "EMPTY"]
  /\ pid          = [i \in Slots |-> 0]
  /\ ppid         = [i \in Slots |-> 0]
  /\ blocking_pid = [i \in Slots |-> NOT_BLOCKED]
  /\ priority     = [i \in Slots |-> 0]
  /\ cpustate     = [i \in Slots |-> i]
  /\ regs         = [i \in Slots |-> [eip |-> InitProgram, ecx |-> 0]]

(* pid = pidCounter++                                                      *)
TakePidTwice == pidCounter' = pidCounter + 2   \* mutant: counted twice
TakePid      == pidCounter' = pidCounter + 1

-----------------------------------------------------------------------------
(* Boot: the build flag tells kernelMain to add one task and to choose a   *)
(* scheduler; without a flag it does neither.  Then it turns interrupts on.*)

(* Task::operator= copies the stack and the pid and marks the slot READY;  *)
(* it copies neither ppid nor priority nor blocking_pid.                   *)
AddTask ==
  /\ numTasks < MaxTasks
  /\ TakePid
  /\ pid'      = [pid EXCEPT ![numTasks] = pidCounter]
  /\ state'    = [state EXCEPT ![numTasks] = "READY"]
  /\ cpustate' = [cpustate EXCEPT ![numTasks] = numTasks]
  /\ regs'     = [regs EXCEPT ![numTasks] = [eip |-> InitProgram, ecx |-> 0]]
  /\ numTasks' = numTasks + 1
  /\ UNCHANGED <<active, currentTask, taskWithDynamicPriority, esp, ppid,
                 timerInterruptCounter, blocking_pid, priority>>

SetSchedulerType(type) == schedulerType' = type

AddInit ==
  /\ ~active /\ numTasks = 0
  /\ AddTask
  /\ \E type \in Schedulers : SetSchedulerType(type)

Activate ==
  /\ ~active
  /\ active' = TRUE
  /\ UNCHANGED <<schedulerType, numTasks, currentTask, taskWithDynamicPriority, tableVars,
                 timerInterruptCounter, pidCounter, regs, esp>>

-----------------------------------------------------------------------------
(* The schedulers.  A handler calls Schedule last, on the table as it has  *)
(* left it: n tasks, states st, priorities pr, saved contexts cs.          *)

(* How many slots the scan passes before it looks at i: it starts one      *)
(* after the current task and wraps around the n slots.                    *)
DistanceFromSlot0(n, i) == i                   \* mutant: restarts at slot 0
CyclicDistance(n, i)    == (i - currentTask - 1) % n

(* What the scans select among: the READY tasks.                           *)
NotBlocked(n, st) ==                           \* mutant: takes the exited too
  {i \in 0 .. n-1 : st[i] \in {"READY", "ZOMBIE"}}
Ready(n, st) == {i \in 0 .. n-1 : st[i] = "READY"}

(* The first READY task of the scan; the round-robin loop gives up when it *)
(* is back at the current task, without looking at it (unless it is alone) *)
RoundRobinChoice(n, st) ==
  LET candidates == {i \in Ready(n, st) : i # currentTask \/ n = 1}
  IN  {i \in candidates :
         \A j \in candidates : CyclicDistance(n, i) <= CyclicDistance(n, j)}

(* The scan keeps i rather than j: it has the smaller priority number, or  *)
(* the same one and comes first.                                           *)
IgnoresPriority(n, pr, i, j) ==                \* mutant: first come
  CyclicDistance(n, i) <= CyclicDistance(n, j)
LowestSlotWins(n, pr, i, j) ==                 \* mutant: scan starts at slot 0
  pr[i] < pr[j] \/ (pr[i] = pr[j] /\ i <= j)
Outranks(n, pr, i, j) ==
  \/ pr[i] < pr[j]
  \/ pr[i] = pr[j] /\ CyclicDistance(n, i) <= CyclicDistance(n, j)

(* What the preemptive scan selects; the interrupted task when no task is  *)
(* READY.                                                                  *)
PreemptiveChoice(n, st, pr) ==
  LET ready == Ready(n, st)
  IN  IF ready = {}
      THEN {currentTask} \ {-1}
      ELSE {i \in ready : \A j \in ready : Outranks(n, pr, i, j)}

(* The interrupted task keeps its frame and, if it was running, its turn.  *)
Save(cs)    == IF currentTask >= 0 THEN [cs EXCEPT ![currentTask] = esp] ELSE cs
Requeue(st) == IF currentTask >= 0 /\ st[currentTask] = "RUNNING"
               THEN [st EXCEPT ![currentTask] = "READY"]
               ELSE st

(* Make next the current task and put the CPU on the stack it saved.       *)
SavedTooLate(next, cs) ==                      \* mutant: currentTask set first
  /\ currentTask' = next
  /\ cpustate' = [cs EXCEPT ![next] = esp]
  /\ esp' = cpustate'[next]
SwitchForgotten(next, cs) ==                   \* mutant: same stack goes on
  /\ currentTask' = next
  /\ cpustate' = Save(cs)
  /\ esp' = IF esp >= 0 THEN esp ELSE next
Resume(next, cs) ==
  /\ currentTask' = next
  /\ cpustate' = Save(cs)
  /\ esp' = Save(cs)[next]

(* With nothing to switch to the interrupted task simply goes on.          *)
RoundRobinScheduler(n, st, pr, cs) ==
  /\ priority' = pr
  /\ \/ /\ RoundRobinChoice(n, st) = {} /\ currentTask >= 0
        /\ state' = st /\ cpustate' = cs
        /\ UNCHANGED <<currentTask, esp>>
     \/ \E next \in RoundRobinChoice(n, st) :
          /\ state' = [Requeue(st) EXCEPT ![next] = "RUNNING"]
          /\ Resume(next, cs)

PreemptiveScheduler(n, st, pr, cs) ==
  /\ priority' = pr
  /\ \E next \in PreemptiveChoice(n, st, pr) :
       /\ state' = Requeue([st EXCEPT ![next] = "RUNNING"])
       /\ Resume(next, cs)

(* Every fifth call of Schedule, the task that asked for it is raised to   *)
(* priority 0 and selected, in whatever state short of ZOMBIE it is.       *)
BoostPeriod == 5

NeverBoosted(st, pr) == {}                   \* mutant: never raised
Boosted(st, pr) ==
  {i \in {taskWithDynamicPriority} \ {-1} :
     /\ timerInterruptCounter' % BoostPeriod = 0
     /\ st[i] # "ZOMBIE"
     /\ pr[i] > 0}

PreemptiveSchedulerWithDynamicPriority(n, st, pr, cs) ==
  \E selected \in PreemptiveChoice(n, st, pr) :
    \E next \in IF Boosted(st, pr) = {} THEN {selected} ELSE Boosted(st, pr) :
      /\ priority' = IF Boosted(st, pr) = {} THEN pr
                                             ELSE [pr EXCEPT ![next] = 0]
      /\ state' = Requeue([st EXCEPT ![next] = "RUNNING"])
      /\ Resume(next, cs)

(* TaskManager::Schedule                                                   *)
Schedule(n, st, pr, cs) ==
  /\ UNCHANGED schedulerType
  /\ \/ /\ n <= 0
        /\ state' = st /\ priority' = pr /\ cpustate' = cs
        /\ UNCHANGED <<currentTask, esp, timerInterruptCounter>>
     \/ /\ n > 0
        /\ timerInterruptCounter' = (timerInterruptCounter + 1) % CounterModulus
        /\ CASE schedulerType = "ROUNDROBIN" -> RoundRobinScheduler(n, st, pr, cs)
             [] schedulerType = "PREEMPTIVE" -> PreemptiveScheduler(n, st, pr, cs)
             [] OTHER -> PreemptiveSchedulerWithDynamicPriority(n, st, pr, cs)

-----------------------------------------------------------------------------
(* The system calls.  ret is the address the int instruction pushed: where *)
(* the caller goes on.                                                     *)

UserMode == active /\ currentTask >= 0

(* The value a call returns, stored into the caller's frame.               *)
Return(ret, value) == [regs EXCEPT ![esp] = [eip |-> ret, ecx |-> value]]

(* The slots the linear searches of the table stop at: the first with pid  *)
(* p, none if there is none.                                               *)
FindTask(p) == {i \in Live : pid[i] = p /\ \A j \in 0 .. i-1 : pid[j] # p}

(* TaskManager::isThereAliveChild                                          *)
IsThereAliveChild(p, st) == \E i \in Live : ppid[i] = p /\ st[i] # "ZOMBIE"

(* TaskManager::ForkTask: the child is a copy of the caller that returns 0.*)
(* Its frame is put as far into the child's stack as cpustate is into the  *)
(* stack of the current task.                                              *)
ForkTask(prio, ret) ==
  \/ /\ numTasks >= MaxTasks
     /\ regs' = Return(ret, Failed)
     /\ Schedule(numTasks, state, priority, cpustate)
     /\ UNCHANGED <<numTasks, pidCounter, pid, ppid>>
  \/ /\ numTasks < MaxTasks
     /\ LET child == numTasks
            inherited == IF prio = Inherit THEN priority[currentTask] ELSE prio
        IN  /\ pid'  = [pid EXCEPT ![child] = pidCounter]
            /\ ppid' = [ppid EXCEPT ![child] = pid[currentTask]]
            /\ regs' = [Return(ret, pidCounter) EXCEPT
                          ![child] = [eip |-> ret, ecx |-> 0]]
            /\ Schedule(numTasks + 1, [state EXCEPT ![child] = "READY"],
                        [priority EXCEPT ![child] = inherited],
                        [cpustate EXCEPT ![child] = child + (esp - currentTask)])
     /\ TakePid
     /\ numTasks' = numTasks + 1

(* SYSCALL_FORK and SYSCALL_FORK2                                          *)
Fork(prio, ret) ==
  /\ UserMode
  /\ ForkTask(prio, ret)
  /\ UNCHANGED <<active, taskWithDynamicPriority, blocking_pid>>

(* The parent, if it waits for the exiting task or for all its children    *)
(* and none is left.                                                       *)
WokenByItsChildOnly(st) ==                     \* mutant: forgets wait-for-all
  {i \in FindTask(ppid[currentTask]) :
     st[i] = "BLOCKED" /\ blocking_pid[i] = pid[currentTask]}
WokenByAnyChild(st) ==                         \* mutant: one child is enough
  {i \in FindTask(ppid[currentTask]) :
     /\ st[i] = "BLOCKED"
     /\ blocking_pid[i] \in {pid[currentTask], WAIT_ALL_CHILDREN}}
Woken(st) ==
  {i \in FindTask(ppid[currentTask]) :
     /\ st[i] = "BLOCKED"
     /\ \/ blocking_pid[i] = pid[currentTask]
        \/ blocking_pid[i] = WAIT_ALL_CHILDREN /\ ~IsThereAliveChild(pid[i], st)}

(* SYSCALL_EXIT: TaskManager::ExitTask, then Schedule.                     *)
Exit(ret) ==
  /\ UserMode
  /\ LET st == [state EXCEPT ![currentTask] = "ZOMBIE"]
     IN  /\ blocking_pid' = [i \in Slots |-> IF i \in Woken(st) THEN NOT_BLOCKED
                                             ELSE blocking_pid[i]]
         /\ Schedule(numTasks,
                     [i \in Slots |-> IF i \in Woken(st) THEN "READY" ELSE st[i]],
                     priority, cpustate)
  /\ regs' = [regs EXCEPT ![esp].eip = ret]
  /\ UNCHANGED <<active, numTasks, taskWithDynamicPriority, pidCounter, pid, ppid>>

(* Is target something the caller must wait for?  Then TaskManager::WaitTask *)
(* blocks it; otherwise it refuses, or finds the child already finished.   *)
AwaitsExited(target) ==                        \* mutant: no ZOMBIE check
  IF target = WAIT_ALL_CHILDREN
  THEN \E i \in Live : ppid[i] = pid[currentTask]
  ELSE \E i \in FindTask(target) : ppid[i] = pid[currentTask]
AwaitsStrangers(target) ==                     \* mutant: no parent check
  IF target = WAIT_ALL_CHILDREN
  THEN IsThereAliveChild(pid[currentTask], state)
  ELSE \E i \in FindTask(target) : state[i] # "ZOMBIE"
AwaitsAnyPid(target) ==                        \* mutant: no search for the pid
  target = WAIT_ALL_CHILDREN => IsThereAliveChild(pid[currentTask], state)
Awaitable(target) ==
  IF target = WAIT_ALL_CHILDREN
  THEN IsThereAliveChild(pid[currentTask], state)
  ELSE \E i \in FindTask(target) :
         ppid[i] = pid[currentTask] /\ state[i] # "ZOMBIE"

AlreadyFinished(target) ==
  /\ target # WAIT_ALL_CHILDREN
  /\ \E i \in FindTask(target) :
       ppid[i] = pid[currentTask] /\ state[i] = "ZOMBIE"

(* SYSCALL_WAIT: TaskManager::WaitTask, then Schedule.                     *)
Wait(target, ret) ==
  /\ UserMode
  /\ \/ /\ Awaitable(target)
        /\ blocking_pid' = [blocking_pid EXCEPT ![currentTask] = target]
        /\ regs' = Return(ret, 0)
        /\ Schedule(numTasks, [state EXCEPT ![currentTask] = "BLOCKED"],
                    priority, cpustate)
     \/ /\ ~Awaitable(target)
        /\ UNCHANGED blocking_pid
        /\ regs' = Return(ret, IF AlreadyFinished(target) THEN 0 ELSE Failed)
        /\ Schedule(numTasks, state, priority, cpustate)
  /\ UNCHANGED <<active, numTasks, taskWithDynamicPriority, pidCounter, pid, ppid>>

(* The calls that return without scheduling leave the table alone.         *)
NoSchedule ==
  UNCHANGED <<active, schedulerType, numTasks, currentTask,
              timerInterruptCounter, pidCounter, tableVars, esp>>

(* SYSCALL_EXECVE: ExecveTask rewrites the caller's frame in place.        *)
Exec(entrypoint) ==
  /\ UserMode
  /\ regs' = Return(entrypoint, 0)
  /\ NoSchedule /\ UNCHANGED taskWithDynamicPriority

(* SYSCALL_GETPID, SYSCALL_GETPPID, SYSCALL_GETTICKS                      *)
Reported(call) ==
  CASE call = "getpid"  -> pid[currentTask]
    [] call = "getppid" -> ppid[currentTask]
    [] OTHER            -> timerInterruptCounter

Report(call, ret) ==
  /\ UserMode
  /\ regs' = Return(ret, Reported(call))
  /\ NoSchedule /\ UNCHANGED taskWithDynamicPriority

(* SYSCALL_USE_DYNAMIC_PRIORITY                                            *)
UseDynamicPriority(ret) ==
  /\ UserMode
  /\ taskWithDynamicPriority' \in FindTask(pid[currentTask])
  /\ regs' = [regs EXCEPT ![esp].eip = ret]
  /\ NoSchedule

(* IRQ 0: DoHandleInterrupt calls Schedule on the interrupted frame.       *)
TimerInterrupt ==
  /\ active
  /\ Schedule(numTasks, state, priority, cpustate)
  /\ UNCHANGED <<active, numTasks, taskWithDynamicPriority, pidCounter,
                 pid, ppid, blocking_pid, regs>>

-----------------------------------------------------------------------------
(* The most general program.  A call returns to the program that made it.  *)

Here == regs[esp].eip
MayExit == currentTask # 0 \/ InitExits
WaitTargets == 0 .. MaxTasks \cup {WAIT_ALL_CHILDREN}

Next ==
  \/ AddInit
  \/ Activate
  \/ TimerInterrupt
  \/ UserMode /\ \E prio \in Priorities \cup {Inherit} : Fork(prio, Here)
  \/ UserMode /\ MayExit /\ Exit(Here)
  \/ UserMode /\ \E target \in WaitTargets : Wait(target, Here)
  \/ UserMode /\ \E program \in Programs : Exec(program)
  \/ UserMode /\ \E call \in Reports : Report(call, Here)
  \/ UserMode /\ UseDynamicPriority(Here)

Spec == Init /\ [][Next]_vars

(* The programmable interval timer never stops.                            *)
FairSpec == Spec /\ WF_vars(TimerInterrupt) /\ WF_vars(Activate)

-----------------------------------------------------------------------------
(* Properties                                                              *)

Frame == [eip : Programs \cup {InitProgram}, ecx : Int]

(* Every variable has the type of the field it stands for; slots beyond    *)
(* numTasks are untouched.                                                 *)
TypeOK ==
  /\ active \in BOOLEAN
  /\ schedulerType \in Schedulers \cup {"ROUNDROBIN"}
  /\ numTasks \in 0 .. MaxTasks
  /\ currentTask \in -1 .. numTasks - 1
  /\ esp \in -1 .. numTasks - 1
  /\ taskWithDynamicPriority \in -1 .. numTasks - 1
  /\ timerInterruptCounter \in 0 .. CounterModulus - 1
  /\ pidCounter \in Nat
  /\ state \in [Slots -> TaskState]
  /\ \A i \in Slots : state[i] = "EMPTY" <=> i \notin Live
  /\ pid \in [Slots -> Nat]
  /\ ppid \in [Slots -> Nat]
  /\ blocking_pid \in [Slots -> 1 .. MaxTasks \cup {WAIT_ALL_CHILDREN, NOT_BLOCKED}]
  /\ priority \in [Slots -> Nat]
  /\ cpustate \in [Slots -> Slots]
  /\ regs \in [Slots -> Frame]

(* The children task i is blocked on, finished ones left out.              *)
Awaited(i) ==
  {j \in Live :
     /\ state[i] = "BLOCKED" /\ ppid[j] = pid[i] /\ state[j] # "ZOMBIE"
     /\ blocking_pid[i] \in {pid[j], WAIT_ALL_CHILDREN}}

(* No lost wakeup: a task stays BLOCKED (WaitTask) only while a child it   *)
(* waits for has not exited, whatever the order of wait and exit.          *)
NoLostWakeup == \A i \in Live : state[i] = "BLOCKED" => Awaited(i) # {}

(* Schedule never lets the CPU go on in a task that has exited or is       *)
(* blocked: in every state some task is left to switch to.                 *)
CpuOwnerCanRun == currentTask >= 0 => state[currentTask] \in {"RUNNING", "READY"}

OnlyCurrentRuns == \A i \in Live : state[i] = "RUNNING" => i = currentTask
OwnStack == esp = currentTask /\ \A i \in Live : cpustate[i] = i

(* Context switches mix up neither tasks nor stacks: the CPU is on the     *)
(* stack of the current task, every saved context points into the stack of *)
(* its own task (so fork copies the right frame to the right place), and   *)
(* no task but the current one counts as running.                          *)
CpuOwnership == OwnStack /\ OnlyCurrentRuns

(* pids are never 0, never shared and never one of the two reserved values,*)
(* so wait(WAIT_ALL_CHILDREN) is never mistaken for a wait for one child,  *)
(* and a parent is older than its children, so waits cannot form a cycle.  *)
PidsAreSound ==
  /\ \A i \in Live : pid[i] \in 1 .. WAIT_ALL_CHILDREN - 1
  /\ \A i, j \in Live : pid[i] = pid[j] => i = j
  /\ \A i, j \in Live : ppid[i] = pid[j] => j < i

(* The two preemptive schedulers choose among READY tasks only, so the     *)
(* task they interrupt gives way even to a lower priority; but no more     *)
(* than that one task ever waits behind a lower priority.                  *)
OutrankedByAtMostOne ==
  currentTask >= 0 /\ schedulerType # "ROUNDROBIN" =>
    Cardinality({i \in Live : state[i] = "READY"
                              /\ priority[i] < priority[currentTask]}) <= 1

(* exit() is final: its handler leaves the caller a ZOMBIE, Schedule       *)
(* included, and no handler ever takes a task out of ZOMBIE again.         *)
ExitTakesEffect ==
  UserMode /\ MayExit /\ Exit(Here) => state'[currentTask] = "ZOMBIE"

ZombieStaysZombie == \A i \in Slots : state[i] = "ZOMBIE" => state'[i] = "ZOMBIE"

ExitIsFinal == [][ExitTakesEffect /\ ZombieStaysZombie]_vars

(* wait() blocks: a caller that has something to wait for is BLOCKED when  *)
(* the handler returns, Schedule included, and not back on the CPU.        *)
WaitTakesEffect ==
  \A target \in WaitTargets :
    UserMode /\ Awaitable(target) /\ Wait(target, Here)
      => state'[currentTask] = "BLOCKED"

WaitBlocks == [][WaitTakesEffect]_vars

(* What a call or a switch leaves in registers reaches the right task: the *)
(* frame of a task changes only by a call of its own or when it is added.  *)
FramesArePrivate ==
  [][\A i \in Live : regs'[i] # regs[i] => i = currentTask]_vars

(* wait() returns only once what it waited for is over.                    *)
WaitEndsWithTheChildren ==
  [][\A i \in Slots : state[i] = "BLOCKED" /\ state'[i] # "BLOCKED" =>
       \A j \in Awaited(i) : state'[j] = "ZOMBIE"]_vars

(* Round robin is fair: whatever the others call, a READY task gets on.    *)
ReadyTaskRuns ==
  \A i \in Slots :
    schedulerType = "ROUNDROBIN" /\ state[i] = "READY" ~> currentTask = i

(* The priority schedulers are fair to the most urgent tasks only.         *)
MostUrgentTaskRuns ==
  \A i \in Slots : state[i] = "READY" /\ priority[i] = 0 ~> currentTask = i

(* The task that asked for a dynamic priority is not starved, whatever     *)
(* priority it had, unless another task takes the place over.              *)
DynamicTaskRuns ==
  \A i \in Slots :
    (/\ schedulerType = "PREEMPTIVE_DYNAMIC_PRIORITY"
     /\ taskWithDynamicPriority = i /\ state[i] = "READY")
      ~> currentTask = i \/ taskWithDynamicPriority # i

(* The table implements the abstract tree of processes.                    *)
Tree == INSTANCE ProcessTree WITH
  Proc     <- Slots,
  None     <- -1,
  created  <- Live,
  parent   <- [i \in Slots |-> ppid[i] - 1],
  finished <- {i \in Live : state[i] = "ZOMBIE"},
  awaiting <- [i \in Slots |-> Awaited(i)],
  owner    <- currentTask

ImplementsProcessTree == Tree!Spec
=============================================================================
