---------------------------- MODULE InitPrograms -----------------------------
(***************************************************************************)
(* The init programs of src/src/microkernel.cpp and the programs they      *)
(* start (src/src/program.cpp), running on the kernel of TaskManager.      *)
(*                                                                         *)
(* An init program forks one child per entry of a script, waits for all of *)
(* them and ends.  Caller and child come out of fork at the same address,  *)
(* so all of them run the same text: a label [at, k] in eip is a point of  *)
(* it, k the entry of the script it belongs to.  What a program computes   *)
(* is left out, but not that it takes any time and then calls exit().        *)
(*                                                                         *)
(* fork copies the stack and the registers but does not rebase ebp, and    *)
(* the kernel is built without optimisation, so that locals are addressed  *)
(* through ebp: until it execs, a child shares the locals of init's frame. *)
(* A fork's result is stored there and then tested (frame).                *)
(* Only the path of init changes the loop counters, which k stands for.    *)
(***************************************************************************)
EXTENDS TaskManager, Sequences

CONSTANTS
  Builds,        \* the build flags, each a script and a scheduler
  TimerInWindow  \* may the timer strike between that store and that test?

(* priority: what the fork asks for; local: the variable its result goes   *)
(* to; branch: the label where the child's branch starts, "exec" or        *)
(* something the child does before it execs; program: what it execs;       *)
(* pause: init lets five interrupts pass before this fork.                 *)
Child == [priority : Nat \cup {Inherit}, local : {"pid", "pid2"},
          branch : STRING, program : STRING, pause : BOOLEAN]

(* The programs of program.cpp that end.                                   *)
ProgramNames == {"collatz", "long_running_task", "binary_search", "linear_search"}

(* ending: what init does after wait(WAIT_ALL_CHILDREN).                   *)
Build == [script : Seq(Child), scheduler : SchedulerTypes,
          ending : {"spin", "exit", "return"}]

ASSUME BuildAssumption ==
  /\ Builds \subseteq Build
  /\ \A b \in Builds : Len(b.script) \in 1 .. MaxTasks - 1
ASSUME WindowAssumption == TimerInWindow \in BOOLEAN

-----------------------------------------------------------------------------
(* The init programs of microkernel.cpp, one per build flag.               *)

Start == [priority |-> Inherit, local |-> "pid", branch |-> "exec",
          program |-> "collatz", pause |-> FALSE]

(* rounds of two children each, whose pids go to two variables.            *)
Pairs(rounds, program1, program2) ==
  LET Pair == <<[Start EXCEPT !.program = program1],
                [Start EXCEPT !.program = program2, !.local = "pid2"]>>
  IN  [script |-> [k \in 1 .. 2 * rounds |-> Pair[1 + ((k - 1) % 2)]],
       scheduler |-> "ROUNDROBIN", ending |-> "spin"]

(* BUILD_PART_A: collatz and long_running_task, three rounds of them.      *)
PartA(rounds) == Pairs(rounds, "collatz", "long_running_task")

(* BUILD_PART_B_FIRST_STRATEGY: ten times the program that rand() picks.   *)
FirstStrategy(children, programs) ==
  {[script |-> [k \in 1 .. children |-> [Start EXCEPT !.program = program]],
    scheduler |-> "ROUNDROBIN", ending |-> "spin"] : program \in programs}

(* BUILD_PART_B_SECOND_STRATEGY: three rounds of two programs; rand() is   *)
(* called until they differ.                                               *)
SecondStrategy(rounds, programs) ==
  {Pairs(rounds, pair[1], pair[2]) :
     pair \in {p \in programs \X programs : p[1] # p[2]}}

(* BUILD_PART_B_THIRD_STRATEGY                                             *)
Third ==
  [script |->
     <<[Start EXCEPT !.priority = 1],
       [Start EXCEPT !.program = "long_running_task", !.pause = TRUE],
       [Start EXCEPT !.program = "binary_search"],
       [Start EXCEPT !.program = "linear_search"]>>,
   scheduler |-> "PREEMPTIVE", ending |-> "return"]

(* BUILD_PART_B_DYNAMIC_PRIORITY                                           *)
DynamicPriority ==
  [script |->
     <<[Start EXCEPT !.priority = 2, !.branch = "dynamic"],
       [Start EXCEPT !.priority = 1, !.program = "long_running_task"],
       [Start EXCEPT !.priority = 1, !.program = "binary_search"],
       [Start EXCEPT !.priority = 1, !.program = "linear_search"]>>,
   scheduler |-> "PREEMPTIVE_DYNAMIC_PRIORITY", ending |-> "exit"]

-----------------------------------------------------------------------------
VARIABLES
  build,   \* the build flag
  frame    \* the locals of the init program

allVars == <<vars, build, frame>>

Script == build.script

Label(at, k) == [at |-> at, k |-> k]
At(i, at) == regs[i].eip.at = at
ProgramLabel(k) == Label(Script[k].program, 0)

(* Where init starts on entry k of the script; past the last entry it      *)
(* waits.                                                                  *)
Entry(k) ==
  IF k > Len(Script)
  THEN Label("wait", 0)
  ELSE Label(IF Script[k].pause THEN "count" ELSE "fork", k)

(* No script starts with a pause.                                          *)
ASSUME EntryAssumption == InitProgram = Label("fork", 1)

InitInit ==
  /\ Init
  /\ build \in Builds
  /\ frame = [pid |-> 0, pid2 |-> 0, initial_count |-> 0]

-----------------------------------------------------------------------------
(* One step of the task on the CPU: from its label to its next one.        *)

here == regs[esp].eip
k_   == here.k

(* A step that is no system call: a branch on the value in ecx.            *)
Goto(label) ==
  /\ regs' = [regs EXCEPT ![esp].eip = label]
  /\ NoSchedule /\ UNCHANGED taskWithDynamicPriority

ForkStep ==
  /\ here.at = "fork"
  /\ Fork(Script[k_].priority, Label("forked", k_))
  /\ UNCHANGED frame

(* uint32_t pid = fork();                                                  *)
StoreStep ==
  /\ here.at = "forked"
  /\ frame' = [frame EXCEPT ![Script[k_].local] = regs[esp].ecx]
  /\ Goto(Label("test", k_))

(* if(pid == 0) { ... }                                                    *)
ChildBranch(k) == Label(Script[k].branch, k)

BranchesSwapped(k, result) ==                  \* mutant: if(pid != 0)
  IF result # 0 THEN ChildBranch(k) ELSE Entry(k + 1)
Branch(k, result) ==
  IF result = 0 THEN ChildBranch(k) ELSE Entry(k + 1)

TestStep ==
  /\ here.at = "test"
  /\ Goto(Branch(k_, frame[Script[k_].local]))
  /\ UNCHANGED frame

DynamicStep ==
  /\ here.at = "dynamic"
  /\ UseDynamicPriority(Label("exec", k_))
  /\ UNCHANGED frame

ExecStep ==
  /\ here.at = "exec"
  /\ Exec(ProgramLabel(k_))
  /\ UNCHANGED frame

(* These programs compute for any length of time and end with exit().      *)
ProgramStep ==
  /\ here.at \in ProgramNames
  /\ Exit(Label("exited", 0))
  /\ UNCHANGED frame

(* initial_count = get_interrupt_count();                                  *)
CountStep ==
  \/ /\ here.at = "count"
     /\ Report("get_interrupt_count", Label("counted", k_))
     /\ UNCHANGED frame
  \/ /\ here.at = "counted"
     /\ frame' = [frame EXCEPT !.initial_count = regs[esp].ecx]
     /\ Goto(Label("poll", k_))

(* while(get_interrupt_count() - initial_count < 5);                       *)
Interrupts == 5

PollStep ==
  /\ \/ /\ here.at = "poll"
        /\ Report("get_interrupt_count", Label("polled", k_))
     \/ /\ here.at = "polled"
        /\ Goto(IF (regs[esp].ecx - frame.initial_count) % CounterModulus < Interrupts
                THEN Label("poll", k_)
                ELSE Label("fork", k_))
  /\ UNCHANGED frame

WaitStep ==
  /\ here.at = "wait"
  /\ Wait(WAIT_ALL_CHILDREN, Label("waited", 0))
  /\ UNCHANGED frame

(* while(1) and the return from the entry point, which goes nowhere known, *)
(* have no step of their own.                                              *)
EndStep ==
  /\ here.at = "waited" /\ build.ending = "exit"
  /\ Exit(Label("exited", 0))
  /\ UNCHANGED frame

Step(i) ==
  /\ UserMode /\ currentTask = i
  /\ UNCHANGED build
  /\ \/ ForkStep \/ StoreStep \/ TestStep \/ DynamicStep \/ ExecStep \/ ProgramStep
     \/ CountStep \/ PollStep \/ WaitStep \/ EndStep

(* kernelMain adds init before it turns the interrupts on.                 *)
Boot ==
  /\ \/ /\ ~active /\ numTasks = 0
        /\ AddTask /\ SetSchedulerType(build.scheduler)
     \/ numTasks > 0 /\ Activate
  /\ UNCHANGED <<build, frame>>
Timer ==
  /\ UserMode /\ here.at = "test" => TimerInWindow
  /\ TimerInterrupt
  /\ UNCHANGED <<build, frame>>

InitNext == Boot \/ Timer \/ \E i \in Slots : Step(i)

(* Boot goes on, the timer never stops, and a task that is on the CPU again *)
(* and again executes an instruction now and then: the timer's period is   *)
(* milliseconds.                                                           *)
Fairness ==
  /\ WF_allVars(Boot)
  /\ WF_allVars(Timer)
  /\ \A i \in Slots : SF_allVars(Step(i))

InitSpec == InitInit /\ [][InitNext]_allVars /\ Fairness

-----------------------------------------------------------------------------
(* Properties                                                              *)

(* fork returns twice and never confuses the two: the task in slot i takes *)
(* the branch of the i-th child and runs its program; init, in slot 0,     *)
(* takes none of them.                                                     *)
ChildrenRunTheirPrograms ==
  \A i \in Live :
    /\ regs[i].eip.at \in {"dynamic", "exec"} => regs[i].eip.k = i
    /\ regs[i].eip.at \in ProgramNames =>
         i > 0 /\ regs[i].eip = ProgramLabel(i)

(* "All children finished" is printed, and init goes on after its wait,    *)
(* only when the whole script has been forked and every child has exited.  *)
AllChildrenFinished ==
  (numTasks > 0 /\ At(0, "waited") /\ state[0] = "RUNNING") =>
    /\ numTasks = Len(Script) + 1
    /\ \A i \in Live \ {0} : state[i] = "ZOMBIE"

(* A child that has called exit() never executes another instruction:      *)
(* there is always somebody else to run.                                   *)
ExitedChildNeverRuns == \A i \in Live \ {0} : At(i, "exited") => i # currentTask

(* Init waits for its children, and none of them is left or comes back.    *)
ChildrenFinishFirst == AllChildrenFinished /\ ExitedChildNeverRuns

(* The same of every task, init included: exit() does not return.          *)
ExitedTaskNeverRuns == \A i \in Live : At(i, "exited") => i # currentTask

(* Init is past its wait: it has gone on, and maybe ended, since.          *)
InitGoesOn ==
  /\ numTasks > 0 /\ state[0] # "BLOCKED"
  /\ At(0, "exited") \/ (At(0, "waited") /\ currentTask = 0)

Pauses == \E k \in DOMAIN Script : Script[k].pause

(* Every child gets to run and finish, under any of the schedulers, and    *)
(* then init's wait returns.  A script with a pause is followed from its   *)
(* last fork on: whether init sees its five interrupts depends on how far  *)
(* the counter can run.                                                    *)
StrategyFinishes ==
  active /\ (Pauses => numTasks > Len(Script)) ~> InitGoesOn
=============================================================================
