------------------------- MODULE InitProgramsProofs --------------------------
(***************************************************************************)
(* Theorems about InitPrograms, for every build whose children run         *)
(* programs that end, every size of the table and every scheduler, as long *)
(* as the timer keeps out of the window between the store of a fork's      *)
(* result and its test (with it, the run ForkRace refutes them).           *)
(***************************************************************************)
EXTENDS InitPrograms, TaskManagerProofs

-----------------------------------------------------------------------------
(* The builds the theorems are about, and the ones the code has.           *)

Ordinary(b) ==
  \A k \in DOMAIN b.script :
    /\ b.script[k].branch \in {"exec", "dynamic"}
    /\ b.script[k].program \in ProgramNames

LEMMA BuildsAreOrdinary ==
  /\ \A rounds \in Nat : Ordinary(PartA(rounds))
  /\ \A children \in Nat : \A b \in FirstStrategy(children, ProgramNames) : Ordinary(b)
  /\ \A rounds \in Nat : \A b \in SecondStrategy(rounds, ProgramNames) : Ordinary(b)
  /\ Ordinary(Third) /\ Ordinary(DynamicPriority)
<1>1. ASSUME NEW rounds \in Nat, NEW program1 \in ProgramNames, NEW program2 \in ProgramNames
      PROVE  Ordinary(Pairs(rounds, program1, program2))
  <2>. DEFINE first  == [Start EXCEPT !.program = program1]
              second == [Start EXCEPT !.program = program2, !.local = "pid2"]
              Pair   == <<first, second>>
  <2>1. \A j \in {1, 2} : Pair[j].branch = "exec" /\ Pair[j].program \in {program1, program2}
    <3>1. first.branch = "exec" /\ first.program = program1
      BY DEF Start
    <3>2. second.branch = "exec" /\ second.program = program2
      BY DEF Start
    <3>. HIDE DEF first, second
    <3>. QED BY <3>1, <3>2
  <2>2. \A k \in 1 .. 2 * rounds : 1 + ((k - 1) % 2) \in {1, 2}
    OBVIOUS
  <2>3. /\ DOMAIN Pairs(rounds, program1, program2).script = 1 .. 2 * rounds
        /\ \A k \in 1 .. 2 * rounds :
             Pairs(rounds, program1, program2).script[k] = Pair[1 + ((k - 1) % 2)]
    BY DEF Pairs
  <2>. HIDE DEF Pair
  <2>. QED BY <2>1, <2>2, <2>3 DEF Ordinary
<1>2. \A rounds \in Nat : Ordinary(PartA(rounds))
  BY <1>1 DEF PartA, ProgramNames
<1>3. \A children \in Nat : \A b \in FirstStrategy(children, ProgramNames) : Ordinary(b)
  BY DEF FirstStrategy, Ordinary, Start
<1>4. \A rounds \in Nat : \A b \in SecondStrategy(rounds, ProgramNames) : Ordinary(b)
  BY <1>1 DEF SecondStrategy
<1>5. Ordinary(Third)
  <2>. DEFINE c1 == [Start EXCEPT !.priority = 1]
              c2 == [Start EXCEPT !.program = "long_running_task", !.pause = TRUE]
              c3 == [Start EXCEPT !.program = "binary_search"]
              c4 == [Start EXCEPT !.program = "linear_search"]
  <2>1. /\ c1.branch \in {"exec", "dynamic"} /\ c1.program \in ProgramNames
        /\ c2.branch \in {"exec", "dynamic"} /\ c2.program \in ProgramNames
        /\ c3.branch \in {"exec", "dynamic"} /\ c3.program \in ProgramNames
        /\ c4.branch \in {"exec", "dynamic"} /\ c4.program \in ProgramNames
    BY DEF Start, ProgramNames
  <2>2. Third.script = <<c1, c2, c3, c4>>
    BY DEF Third
  <2>. HIDE DEF c1, c2, c3, c4
  <2>3. \A k \in 1 .. 4 : <<c1, c2, c3, c4>>[k] \in {c1, c2, c3, c4}
    OBVIOUS
  <2>4. DOMAIN <<c1, c2, c3, c4>> = 1 .. 4
    OBVIOUS
  <2>. QED BY <2>1, <2>2, <2>3, <2>4 DEF Ordinary
<1>6. Ordinary(DynamicPriority)
  <2>. DEFINE c1 == [Start EXCEPT !.priority = 2, !.branch = "dynamic"]
              c2 == [Start EXCEPT !.priority = 1, !.program = "long_running_task"]
              c3 == [Start EXCEPT !.priority = 1, !.program = "binary_search"]
              c4 == [Start EXCEPT !.priority = 1, !.program = "linear_search"]
  <2>1. /\ c1.branch \in {"exec", "dynamic"} /\ c1.program \in ProgramNames
        /\ c2.branch \in {"exec", "dynamic"} /\ c2.program \in ProgramNames
        /\ c3.branch \in {"exec", "dynamic"} /\ c3.program \in ProgramNames
        /\ c4.branch \in {"exec", "dynamic"} /\ c4.program \in ProgramNames
    BY DEF Start, ProgramNames
  <2>2. DynamicPriority.script = <<c1, c2, c3, c4>>
    BY DEF DynamicPriority
  <2>. HIDE DEF c1, c2, c3, c4
  <2>3. \A k \in 1 .. 4 : <<c1, c2, c3, c4>>[k] \in {c1, c2, c3, c4}
    OBVIOUS
  <2>4. DOMAIN <<c1, c2, c3, c4>> = 1 .. 4
    OBVIOUS
  <2>. QED BY <2>1, <2>2, <2>3, <2>4 DEF Ordinary
<1>. QED BY <1>2, <1>3, <1>4, <1>5, <1>6

-----------------------------------------------------------------------------
(* The inductive invariant.                                                *)

(* The points of the text that init and its children share.                *)
Points ==
  {"fork", "forked", "test", "dynamic", "exec", "exited", "count", "counted",
   "poll", "polled", "wait", "waited"} \cup ProgramNames

Text == [at : Points, k : Nat]

TextTypes ==
  /\ build \in Builds /\ Ordinary(build)
  /\ frame \in [pid : Int, pid2 : Int, initial_count : Int]
  /\ regs \in [Slots -> [eip : Text, ecx : Int]]

(* What fork returned to task i, which has not tested it yet.              *)
Result(i) == IF At(i, "forked") THEN regs[i].ecx
                                ELSE frame[Script[regs[i].eip.k].local]

(* Init is at its k-th entry with k tasks in the table, and with one more  *)
(* once it has forked the child of that entry.                             *)
InitText ==
  \/ /\ regs[0].eip.at \in {"fork", "count", "counted", "poll", "polled"}
     /\ regs[0].eip.k \in 1 .. Len(Script)
     /\ numTasks = regs[0].eip.k
  \/ /\ regs[0].eip.at \in {"forked", "test"}
     /\ regs[0].eip.k \in 1 .. Len(Script)
     /\ numTasks = regs[0].eip.k + 1
     /\ Result(0) # 0
  \/ /\ regs[0].eip.at \in {"wait", "waited"}
     /\ numTasks = Len(Script) + 1

(* The child in slot i is on its way into the i-th branch, in it, in the   *)
(* program it starts there, or past its exit.                              *)
ChildText(i) ==
  \/ regs[i].eip.at \in {"forked", "test"} /\ regs[i].eip.k = i /\ Result(i) = 0
  \/ regs[i].eip.at \in {"dynamic", "exec"} /\ regs[i].eip.k = i
  \/ regs[i].eip.at \in ProgramNames /\ regs[i].eip = ProgramLabel(i)
  \/ At(i, "exited")

(* The frame holds the result of the one task that is about to test it.    *)
OneTests == \A i \in Live : At(i, "test") => i = currentTask

ChildState(i) ==
  /\ ppid[i] = 1
  /\ state[i] # "BLOCKED"
  /\ state[i] = "ZOMBIE" <=> At(i, "exited")

Children == \A i \in Live \ {0} : ChildText(i) /\ ChildState(i)

AllExited == \A i \in Live \ {0} : state[i] = "ZOMBIE"

(* Init waits for all of them, and is not boosted out of that.             *)
InitWaits ==
  /\ state[0] = "BLOCKED" => At(0, "waited") /\ blocking_pid[0] = WAIT_ALL_CHILDREN
  /\ At(0, "waited") => state[0] = "BLOCKED" \/ AllExited
  /\ taskWithDynamicPriority # 0

Texts == InitText /\ OneTests /\ Children /\ InitWaits

(* Until init calls exit() the kernel keeps its invariant.                 *)
Going == TableInv /\ (numTasks > 0 => Texts)

(* After that it spins in its exited task, all its children gone: Schedule *)
(* has nobody to switch to.                                                *)
Ended ==
  /\ active
  /\ numTasks = Len(Script) + 1
  /\ currentTask = 0 /\ esp = 0
  /\ At(0, "exited")
  /\ state \in [Slots -> TaskState] /\ cpustate \in [Slots -> Slots]
  /\ \A i \in Live \ {0} : state[i] = "ZOMBIE" /\ At(i, "exited")
  /\ taskWithDynamicPriority \in (-1 .. numTasks - 1) \ {0}

ProgramsInv == TextTypes /\ (Going \/ Ended)

-----------------------------------------------------------------------------
(* The script, and the text init and its children run.                     *)

LEMMA ScriptFacts ==
  ASSUME build \in Builds, Ordinary(build)
  PROVE  /\ Len(Script) \in 1 .. MaxTasks - 1
         /\ DOMAIN Script = 1 .. Len(Script)
         /\ \A k \in 1 .. Len(Script) : Script[k] \in Child
         /\ \A k \in 1 .. Len(Script) : /\ Script[k].priority \in Nat \cup {Inherit}
                                        /\ Script[k].local \in {"pid", "pid2"}
                                        /\ Script[k].program \in ProgramNames
                                        /\ Script[k].branch \in {"exec", "dynamic"}
         /\ build.scheduler \in SchedulerTypes
<1>1. build \in Build /\ Len(Script) \in 1 .. MaxTasks - 1
  BY BuildAssumption DEF Script
<1>2. Script \in Seq(Child) /\ build.scheduler \in SchedulerTypes
  BY <1>1 DEF Build, Script
<1>3. \A k \in 1 .. Len(Script) : Script[k] \in Child
  BY <1>2
<1>. QED BY <1>1, <1>2, <1>3 DEF Child, Ordinary, Script

LEMMA LabelFacts ==
  ASSUME NEW at \in Points, NEW k \in Nat
  PROVE  Label(at, k) \in Text /\ Label(at, k).at = at /\ Label(at, k).k = k
BY DEF Label, Text

(* Where init goes on after the k-1 first entries.                         *)
LEMMA EntryFacts ==
  ASSUME build \in Builds, Ordinary(build), NEW k \in 1 .. Len(Script) + 1
  PROVE  /\ Entry(k) \in Text
         /\ k <= Len(Script) => Entry(k).at \in {"fork", "count"} /\ Entry(k).k = k
         /\ k = Len(Script) + 1 => Entry(k).at = "wait"
<1>1. Len(Script) \in Nat /\ k \in Nat
  BY ScriptFacts, MaxTasksAssumption
<1>2. CASE k > Len(Script)
  BY <1>1, <1>2 DEF Entry, Label, Text, Points
<1>3. CASE ~(k > Len(Script)) /\ Script[k].pause
  BY <1>1, <1>3 DEF Entry, Label, Text, Points
<1>4. CASE ~(k > Len(Script)) /\ ~Script[k].pause
  BY <1>1, <1>4 DEF Entry, Label, Text, Points
<1>. QED BY <1>2, <1>3, <1>4

(* The frame of the caller, after a step that goes on at label.            *)
LEMMA CallerGoesOn ==
  ASSUME TextTypes, currentTask \in Slots, esp = currentTask, NEW label \in Text,
         \/ regs' = [regs EXCEPT ![esp].eip = label]
         \/ \E value \in Int : regs' = Return(label, value)
  PROVE  /\ regs' \in [Slots -> [eip : Text, ecx : Int]]
         /\ regs'[currentTask].eip = label
         /\ \A i \in Slots : i # currentTask => regs'[i] = regs[i]
<1>1. regs \in [Slots -> [eip : Text, ecx : Int]]
  BY DEF TextTypes
<1>2. CASE regs' = [regs EXCEPT ![esp].eip = label]
  BY <1>1, <1>2
<1>3. ASSUME NEW value \in Int, regs' = Return(label, value)
      PROVE  /\ regs' \in [Slots -> [eip : Text, ecx : Int]]
             /\ regs'[currentTask].eip = label
             /\ \A i \in Slots : i # currentTask => regs'[i] = regs[i]
  BY <1>1, <1>3 DEF Return
<1>. QED BY <1>2, <1>3

(* A step of another task leaves a task where it is.                       *)
LEMMA OthersStay ==
  ASSUME OneTests, UNCHANGED build, NEW i \in Live, i # currentTask, regs'[i] = regs[i]
  PROVE  /\ ~At(i, "test") /\ ~At(i, "test")'
         /\ ChildText(i) => ChildText(i)'
         /\ i = 0 /\ InitText /\ UNCHANGED numTasks => InitText'
<1>1. ~At(i, "test") /\ UNCHANGED At(i, "test")
  BY DEF OneTests, At
<1>2. At(i, "forked") => Result(i)' = Result(i)
  BY DEF Result, At
<1>3. ChildText(i) => ChildText(i)'
  BY <1>1, <1>2 DEF ChildText, At, ProgramLabel, Script
<1>4. i = 0 /\ InitText /\ UNCHANGED numTasks => InitText'
  BY <1>1, <1>2 DEF InitText, At, Script
<1>. QED BY <1>1, <1>3, <1>4

-----------------------------------------------------------------------------
(* The steps that return without scheduling.                               *)

(* The task that takes a step, and the state it may rely on.               *)
LEMMA StepFacts ==
  ASSUME TextTypes, Going, UserMode
  PROVE  /\ TableInv /\ Texts
         /\ currentTask \in Live /\ currentTask \in Slots /\ esp = currentTask
         /\ numTasks \in 1 .. MaxTasks /\ numTasks > 0 /\ 0 \in Live /\ 0 \in Slots
         /\ state[currentTask] \in {"RUNNING", "READY"}
         /\ here \in Text /\ here = regs[currentTask].eip
         /\ regs[currentTask].ecx \in Int
<1>1. TableInv /\ Texts
  BY CallerIsLive DEF Going
<1>2. numTasks \in 1 .. MaxTasks /\ currentTask \in Live /\ currentTask \in Slots
      /\ esp = currentTask /\ state[currentTask] \in {"RUNNING", "READY"} /\ numTasks > 0
  BY <1>1, CallerIsLive
<1>3. 0 \in Live /\ 0 \in Slots
  BY <1>2, MaxTasksAssumption DEF Live, Slots
<1>4. regs[currentTask] \in [eip : Text, ecx : Int]
  BY <1>2 DEF TextTypes
<1>. QED BY <1>1, <1>2, <1>3, <1>4 DEF here

(* Such a step keeps the invariant if it takes its task to a point of its  *)
(* own text.                                                               *)
LEMMA QuietKeeps ==
  ASSUME TextTypes, Going, UserMode, UNCHANGED build, NoSchedule,
         taskWithDynamicPriority' \in {taskWithDynamicPriority, currentTask},
         taskWithDynamicPriority' # 0,
         \A i \in Slots : i # currentTask => regs'[i] = regs[i],
         currentTask = 0 => InitText',
         currentTask # 0 => ChildText(currentTask)',
         regs'[currentTask].eip.at \notin {"exited", "waited"}
  PROVE  Going'
<1>1. /\ TableInv /\ Texts
      /\ currentTask \in Live /\ Live \subseteq Slots /\ 0 \in Live
      /\ state[currentTask] \in {"RUNNING", "READY"}
  BY StepFacts, TableFacts
<1>2. UNCHANGED <<numTasks, currentTask, state, ppid, blocking_pid>> /\ Live' = Live
  BY DEF NoSchedule, tableVars, Live
<1>3. TableInv'
  <2>1. taskWithDynamicPriority' \in -1 .. numTasks - 1
    BY <1>1 DEF TableInv, TableTypes, Live
  <2>. QED BY <1>1, <2>1, NoScheduleKeeps DEF Kept
<1>4. ASSUME NEW i \in Live, i # currentTask
      PROVE  /\ ~At(i, "test")' /\ UNCHANGED regs[i]
             /\ ChildText(i) => ChildText(i)'
             /\ i = 0 /\ InitText => InitText'
  BY <1>1, <1>2, <1>4, OthersStay DEF Texts
<1>5. InitText'
  BY <1>1, <1>4 DEF Texts
<1>6. OneTests'
  BY <1>2, <1>4 DEF OneTests
<1>7. Children'
  <2>. SUFFICES ASSUME NEW i \in Live, i # 0 PROVE ChildText(i)' /\ ChildState(i)'
    BY <1>2 DEF Children
  <2>1. ChildText(i) /\ ChildState(i)
    BY <1>1 DEF Texts, Children
  <2>2. CASE i # currentTask
    BY <1>2, <1>4, <2>1, <2>2 DEF ChildState, At
  <2>3. CASE i = currentTask
    BY <1>1, <1>2, <2>1, <2>3 DEF ChildState, At
  <2>. QED BY <2>2, <2>3
<1>8. InitWaits'
  <2>1. AllExited' <=> AllExited
    BY <1>2 DEF AllExited
  <2>2. CASE currentTask # 0
    BY <1>1, <1>2, <1>4, <2>1, <2>2 DEF Texts, InitWaits, At
  <2>3. CASE currentTask = 0
    BY <1>1, <1>2, <2>3 DEF InitWaits, At
  <2>. QED BY <2>2, <2>3
<1>. QED BY <1>3, <1>5, <1>6, <1>7, <1>8 DEF Going, Texts

(* Which text the task on the CPU is in.                                   *)
LEMMA WhoIsWhere ==
  ASSUME TextTypes, Going, UserMode
  PROVE  /\ numTasks \in 1 .. Len(Script) + 1
         /\ currentTask = 0 =>
              /\ here.at \in Points \ ({"dynamic", "exec", "exited"} \cup ProgramNames)
              /\ here.at \notin {"wait", "waited"} => here.k \in 1 .. Len(Script)
              /\ here.at \in {"fork", "count", "counted", "poll", "polled"} => numTasks = here.k
              /\ here.at \in {"forked", "test"} =>
                   numTasks = here.k + 1 /\ Result(currentTask) # 0
              /\ here.at \in {"wait", "waited"} => numTasks = Len(Script) + 1
         /\ currentTask # 0 =>
              /\ here.at \in {"forked", "test", "dynamic", "exec"} \cup ProgramNames
              /\ here.at \notin ProgramNames =>
                   here.k = currentTask /\ here.k \in 1 .. Len(Script)
              /\ here.at \in {"forked", "test"} => Result(currentTask) = 0
<1>1. /\ TableInv /\ Texts /\ here = regs[currentTask].eip
      /\ currentTask \in Live /\ numTasks \in Nat /\ currentTask \in Nat
      /\ state[currentTask] # "ZOMBIE"
  BY StepFacts, TableFacts
<1>2. Len(Script) \in Nat
  BY ScriptFacts, MaxTasksAssumption DEF TextTypes
<1>3. numTasks \in 1 .. Len(Script) + 1
  BY <1>1, <1>2 DEF Texts, InitText
<1>4. ASSUME currentTask = 0
      PROVE  /\ here.at \in Points \ ({"dynamic", "exec", "exited"} \cup ProgramNames)
             /\ here.at \notin {"wait", "waited"} => here.k \in 1 .. Len(Script)
             /\ here.at \in {"fork", "count", "counted", "poll", "polled"} => numTasks = here.k
             /\ here.at \in {"forked", "test"} =>
                  numTasks = here.k + 1 /\ Result(currentTask) # 0
             /\ here.at \in {"wait", "waited"} => numTasks = Len(Script) + 1
  BY <1>1, <1>4 DEF Texts, InitText, Points, ProgramNames
<1>5. ASSUME currentTask # 0
      PROVE  /\ here.at \in {"forked", "test", "dynamic", "exec"} \cup ProgramNames
             /\ here.at \notin ProgramNames =>
                  here.k = currentTask /\ here.k \in 1 .. Len(Script)
             /\ here.at \in {"forked", "test"} => Result(currentTask) = 0
  <2>1. ChildText(currentTask) /\ ChildState(currentTask)
    BY <1>1, <1>5 DEF Texts, Children
  <2>2. currentTask \in 1 .. Len(Script)
    BY <1>1, <1>2, <1>3, <1>5 DEF Live
  <2>. QED BY <1>1, <2>1, <2>2 DEF ChildText, ChildState, At, ProgramNames
<1>. QED BY <1>3, <1>4, <1>5

StepKept == TextTypes' /\ Going'

LEMMA StoreStepKeeps ==
  ASSUME TextTypes, Going, UserMode, UNCHANGED build, StoreStep
  PROVE  StepKept
<1>. DEFINE k == here.k
            local == Script[k].local
<1>1. /\ Texts /\ currentTask \in Slots /\ esp = currentTask /\ here = regs[currentTask].eip
      /\ here.at = "forked" /\ regs[currentTask].ecx \in Int
      /\ k \in 1 .. Len(Script) /\ k \in Nat
      /\ currentTask = 0 => numTasks = k + 1 /\ Result(currentTask) # 0
      /\ currentTask # 0 => k = currentTask /\ Result(currentTask) = 0
  BY StepFacts, WhoIsWhere DEF StoreStep, Text, ProgramNames
<1>2. Result(currentTask) = regs[currentTask].ecx
  BY <1>1 DEF Result, At
<1>3. local \in {"pid", "pid2"}
  BY <1>1, ScriptFacts DEF TextTypes
<1>4. /\ frame' \in [pid : Int, pid2 : Int, initial_count : Int]
      /\ frame'[local] = regs[currentTask].ecx
  <2>1. frame' = [frame EXCEPT ![local] = regs[currentTask].ecx]
    BY <1>1 DEF StoreStep, k_
  <2>. HIDE DEF local
  <2>. QED BY <1>1, <1>3, <2>1 DEF TextTypes
<1>5. Label("test", k) \in Text /\ Label("test", k).at = "test" /\ Label("test", k).k = k
  BY <1>1 DEF Label, Text, Points
<1>6. /\ regs' \in [Slots -> [eip : Text, ecx : Int]]
      /\ regs'[currentTask].eip = Label("test", k)
      /\ \A i \in Slots : i # currentTask => regs'[i] = regs[i]
  <2>1. regs' = [regs EXCEPT ![esp].eip = Label("test", k)]
    BY DEF StoreStep, Goto, k_
  <2>. QED BY <1>1, <1>5, <2>1, CallerGoesOn
<1>7. Result(currentTask)' = Result(currentTask)
  <2>1. currentTask' = currentTask
    BY DEF StoreStep, Goto, NoSchedule
  <2>. QED BY <1>1, <1>2, <1>4, <1>5, <1>6, <2>1 DEF Result, At, Script
<1>8. NoSchedule /\ UNCHANGED taskWithDynamicPriority /\ UNCHANGED <<numTasks, currentTask>>
  BY DEF StoreStep, Goto, NoSchedule
<1>9. currentTask = 0 => InitText'
  BY <1>1, <1>5, <1>6, <1>7, <1>8 DEF InitText, Script
<1>10. currentTask # 0 => ChildText(currentTask)'
  BY <1>1, <1>5, <1>6, <1>7, <1>8 DEF ChildText
<1>11. taskWithDynamicPriority' # 0
  BY <1>1, <1>8 DEF Texts, InitWaits
<1>12. Going'
  BY <1>5, <1>6, <1>8, <1>9, <1>10, <1>11, QuietKeeps
<1>. QED BY <1>4, <1>6, <1>12 DEF StepKept, TextTypes, Ordinary

LEMMA TestStepKeeps ==
  ASSUME TextTypes, Going, UserMode, UNCHANGED build, TestStep
  PROVE  StepKept
<1>. DEFINE k == here.k
            result == frame[Script[k].local]
            label == Branch(k, result)
<1>1. /\ Texts /\ currentTask \in Slots /\ esp = currentTask /\ here = regs[currentTask].eip
      /\ here.at = "test" /\ k \in 1 .. Len(Script) /\ k \in Nat
      /\ currentTask = 0 => numTasks = k + 1 /\ Result(currentTask) # 0
      /\ currentTask # 0 => k = currentTask /\ Result(currentTask) = 0
  BY StepFacts, WhoIsWhere DEF TestStep, Text, ProgramNames
<1>2. Result(currentTask) = result
  BY <1>1 DEF Result, At
<1>3. Len(Script) \in Nat /\ k + 1 \in 1 .. Len(Script) + 1
  BY <1>1, ScriptFacts, MaxTasksAssumption DEF TextTypes
<1>4. /\ label \in Text
      /\ currentTask = 0 => label = Entry(k + 1)
      /\ currentTask # 0 => label.at \in {"dynamic", "exec"} /\ label.k = k
  <2>1. CASE currentTask = 0
    BY <1>1, <1>2, <1>3, <2>1, EntryFacts DEF Branch, TextTypes
  <2>2. CASE currentTask # 0
    <3>1. label = Label(Script[k].branch, k)
      BY <1>1, <1>2, <2>2 DEF Branch, ChildBranch
    <3>2. Script[k].branch \in {"exec", "dynamic"}
      BY <1>1, ScriptFacts DEF TextTypes
    <3>. QED BY <1>1, <2>2, <3>1, <3>2 DEF Label, Text, Points
  <2>. QED BY <2>1, <2>2
<1>5. /\ regs' \in [Slots -> [eip : Text, ecx : Int]]
      /\ regs'[currentTask].eip = label
      /\ \A i \in Slots : i # currentTask => regs'[i] = regs[i]
  <2>1. regs' = [regs EXCEPT ![esp].eip = label]
    BY DEF TestStep, Goto, k_
  <2>. HIDE DEF label
  <2>. QED BY <1>1, <1>4, <2>1, CallerGoesOn
<1>6. NoSchedule /\ UNCHANGED taskWithDynamicPriority /\ UNCHANGED <<numTasks, currentTask>>
      /\ UNCHANGED frame
  BY DEF TestStep, Goto, NoSchedule
<1>7. ASSUME currentTask = 0
      PROVE  InitText' /\ label.at \in {"fork", "count", "wait"}
  <2>1. \/ label.at \in {"fork", "count"} /\ label.k = k + 1 /\ k + 1 <= Len(Script)
        \/ label.at = "wait" /\ k + 1 = Len(Script) + 1
    BY <1>3, <1>4, <1>7, EntryFacts DEF TextTypes
  <2>2. numTasks' = k + 1 /\ Script' = Script /\ regs'[0].eip = label
    BY <1>1, <1>5, <1>6, <1>7 DEF Script
  <2>. HIDE DEF label, k
  <2>. QED BY <1>3, <2>1, <2>2 DEF InitText
<1>8. ASSUME currentTask # 0
      PROVE  ChildText(currentTask)' /\ label.at \in {"dynamic", "exec"}
  BY <1>1, <1>4, <1>5, <1>6, <1>8 DEF ChildText
<1>9. taskWithDynamicPriority' # 0
  BY <1>1, <1>6 DEF Texts, InitWaits
<1>10. Going'
  <2>. HIDE DEF label
  <2>. QED BY <1>5, <1>6, <1>7, <1>8, <1>9, QuietKeeps
<1>. QED BY <1>5, <1>6, <1>10 DEF StepKept, TextTypes, Ordinary

LEMMA DynamicStepKeeps ==
  ASSUME TextTypes, Going, UserMode, UNCHANGED build, DynamicStep
  PROVE  StepKept
<1>. DEFINE label == Label("exec", here.k)
<1>1. /\ TableInv /\ currentTask \in Slots /\ esp = currentTask
      /\ currentTask # 0 /\ here.k = currentTask /\ here.k \in Nat
  BY StepFacts, WhoIsWhere DEF DynamicStep, Text, ProgramNames
<1>2. label \in Text /\ label.at = "exec" /\ label.k = here.k
  BY <1>1 DEF Label, Text, Points
<1>3. /\ regs' \in [Slots -> [eip : Text, ecx : Int]]
      /\ regs'[currentTask].eip = label
      /\ \A i \in Slots : i # currentTask => regs'[i] = regs[i]
  <2>1. regs' = [regs EXCEPT ![esp].eip = label]
    BY DEF DynamicStep, UseDynamicPriority, k_
  <2>. HIDE DEF label
  <2>. QED BY <1>1, <1>2, <2>1, CallerGoesOn
<1>4. NoSchedule /\ UNCHANGED <<frame, currentTask>>
  BY DEF DynamicStep, UseDynamicPriority, NoSchedule
<1>5. taskWithDynamicPriority' = currentTask
  BY <1>1, UseDynamicPriorityKeeps DEF DynamicStep
<1>6. ChildText(currentTask)'
  BY <1>1, <1>2, <1>3, <1>4 DEF ChildText
<1>7. Going'
  BY <1>1, <1>2, <1>3, <1>4, <1>5, <1>6, QuietKeeps
<1>. QED BY <1>3, <1>4, <1>7 DEF StepKept, TextTypes, Ordinary

LEMMA ExecStepKeeps ==
  ASSUME TextTypes, Going, UserMode, UNCHANGED build, ExecStep
  PROVE  StepKept
<1>. DEFINE label == ProgramLabel(here.k)
<1>1. /\ Texts /\ currentTask \in Slots /\ esp = currentTask
      /\ currentTask # 0 /\ here.k = currentTask /\ here.k \in 1 .. Len(Script)
  BY StepFacts, WhoIsWhere DEF ExecStep, Text, ProgramNames
<1>2. label \in Text /\ label.at \in ProgramNames
  BY <1>1, ScriptFacts DEF ProgramLabel, Label, Text, Points, TextTypes
<1>3. /\ regs' \in [Slots -> [eip : Text, ecx : Int]]
      /\ regs'[currentTask].eip = label
      /\ \A i \in Slots : i # currentTask => regs'[i] = regs[i]
  <2>1. regs' = Return(label, 0) /\ 0 \in Int
    BY DEF ExecStep, Exec, k_
  <2>. HIDE DEF label
  <2>. QED BY <1>1, <1>2, <2>1, CallerGoesOn
<1>4. /\ NoSchedule /\ UNCHANGED taskWithDynamicPriority
      /\ UNCHANGED <<frame, currentTask>>
  BY DEF ExecStep, Exec, NoSchedule
<1>5. taskWithDynamicPriority' # 0
  BY <1>1, <1>4 DEF Texts, InitWaits
<1>6. ProgramLabel(currentTask)' = label
  BY <1>1, <1>4 DEF ProgramLabel, Script
<1>7. ChildText(currentTask)'
  <2>. HIDE DEF label
  <2>. QED BY <1>1, <1>2, <1>3, <1>4, <1>6 DEF ChildText
<1>8. label.at \notin {"exited", "waited"}
  BY <1>2 DEF ProgramNames
<1>9. Going'
  <2>. HIDE DEF label
  <2>. QED BY <1>1, <1>3, <1>4, <1>5, <1>7, <1>8, QuietKeeps
<1>. QED BY <1>3, <1>4, <1>9 DEF StepKept, TextTypes, Ordinary

(* The busy wait of the third strategy, between two entries of the script. *)
LEMMA CountingKeeps ==
  ASSUME TextTypes, Going, UserMode, UNCHANGED build,
         here.at \in {"count", "counted", "poll", "polled"},
         NEW at \in {"fork", "counted", "poll", "polled"},
         \/ regs' = [regs EXCEPT ![esp].eip = Label(at, here.k)]
         \/ \E value \in Int : regs' = Return(Label(at, here.k), value),
         NoSchedule, UNCHANGED taskWithDynamicPriority,
         frame' \in [pid : Int, pid2 : Int, initial_count : Int]
  PROVE  StepKept
<1>. DEFINE label == Label(at, here.k)
<1>1. /\ Texts /\ currentTask \in Slots /\ esp = currentTask
      /\ currentTask = 0 /\ here.k = numTasks /\ here.k \in 1 .. Len(Script) /\ here.k \in Nat
  BY StepFacts, WhoIsWhere DEF Text, ProgramNames
<1>2. label \in Text /\ label.at = at /\ label.k = here.k
  BY <1>1 DEF Label, Text, Points
<1>3. /\ regs' \in [Slots -> [eip : Text, ecx : Int]]
      /\ regs'[currentTask].eip = label
      /\ \A i \in Slots : i # currentTask => regs'[i] = regs[i]
  <2>. HIDE DEF label
  <2>. QED BY <1>1, <1>2, CallerGoesOn DEF label
<1>4. numTasks' = numTasks /\ Script' = Script
  BY DEF NoSchedule, Script
<1>5. InitText'
  BY <1>1, <1>2, <1>3, <1>4 DEF InitText
<1>6. taskWithDynamicPriority' # 0
  BY <1>1 DEF Texts, InitWaits
<1>7. Going'
  BY <1>1, <1>2, <1>3, <1>5, <1>6, QuietKeeps
<1>. QED BY <1>3, <1>7 DEF StepKept, TextTypes, Ordinary

LEMMA CountStepKeeps ==
  ASSUME TextTypes, Going, UserMode, UNCHANGED build, CountStep \/ PollStep
  PROVE  StepKept
<1>1. /\ regs[esp].ecx \in Int /\ frame \in [pid : Int, pid2 : Int, initial_count : Int]
  BY StepFacts DEF TextTypes
<1>2. Reported("get_interrupt_count") \in Int
  BY StepFacts, CounterAssumption DEF Reported, TableInv, TableTypes
<1>3. CASE here.at \in {"count", "poll"}
  <2>1. \E at \in {"counted", "polled"} :
          Report("get_interrupt_count", Label(at, here.k)) /\ UNCHANGED frame
    BY <1>3 DEF CountStep, PollStep, k_
  <2>. QED BY <1>1, <1>2, <1>3, <2>1, CountingKeeps DEF Report
<1>4. CASE here.at = "counted"
  <2>1. /\ frame' = [frame EXCEPT !.initial_count = regs[esp].ecx]
        /\ Goto(Label("poll", here.k))
    BY <1>4 DEF CountStep, PollStep, k_
  <2>2. frame' \in [pid : Int, pid2 : Int, initial_count : Int]
    BY <1>1, <2>1
  <2>. QED BY <1>4, <2>1, <2>2, CountingKeeps DEF Goto
<1>5. CASE here.at = "polled"
  <2>1. \E at \in {"poll", "fork"} : Goto(Label(at, here.k)) /\ UNCHANGED frame
    BY <1>5 DEF CountStep, PollStep, k_
  <2>. QED BY <1>1, <1>5, <2>1, CountingKeeps DEF Goto
<1>. QED BY <1>3, <1>4, <1>5 DEF CountStep, PollStep

-----------------------------------------------------------------------------
(* The steps that schedule.                                                *)

(* What is left to show of one of them that adds no task.                  *)
LEMMA ScheduledKeeps ==
  ASSUME TextTypes, TableInv, Texts, numTasks > 0, TableInv',
         UNCHANGED <<build, numTasks, ppid, taskWithDynamicPriority>>,
         \A i \in Live : ~At(i, "test") /\ ~At(i, "test")',
         \A i \in Live : i # currentTask => regs'[i] = regs[i],
         currentTask = 0 => InitText',
         \A i \in Live \ {0} : i = currentTask => ChildText(i)',
         \A i \in Live \ {0} : /\ state'[i] # "BLOCKED"
                               /\ state'[i] = "ZOMBIE" <=> At(i, "exited")',
         state'[0] = "BLOCKED" => At(0, "waited")' /\ blocking_pid'[0] = WAIT_ALL_CHILDREN,
         At(0, "waited")' => state'[0] = "BLOCKED" \/ AllExited'
  PROVE  Going'
<1>1. Live' = Live /\ 0 \in Live /\ currentTask \in Int
  BY DEF TableInv, TableTypes, Live
<1>2. InitText'
  <2>1. CASE currentTask # 0
    BY <1>1, <2>1, OthersStay DEF Texts
  <2>. QED BY <2>1
<1>3. ASSUME NEW i \in Live \ {0}
      PROVE  ChildText(i)'
  <2>1. CASE i # currentTask
    BY <2>1, OthersStay DEF Texts, Children
  <2>. QED BY <2>1
<1>4. Children'
  BY <1>1, <1>3 DEF Texts, Children, ChildState
<1>5. OneTests' /\ InitWaits'
  BY <1>1 DEF Texts, OneTests, InitWaits
<1>. QED BY <1>2, <1>4, <1>5 DEF Going, Texts

LEMMA TimerKeeps ==
  ASSUME TextTypes, Going, ~TimerInWindow, Timer
  PROVE  StepKept
<1>1. /\ TimerInterrupt /\ active /\ UNCHANGED <<build, frame, regs>>
      /\ UNCHANGED <<numTasks, ppid, taskWithDynamicPriority, blocking_pid>>
      /\ ~(UserMode /\ here.at = "test")
  BY DEF Timer, TimerInterrupt
<1>2. TableInv /\ TableInv'
  BY <1>1, TimerInterruptKeeps DEF Going, Kept
<1>3. ASSUME numTasks > 0
      PROVE  Going'
  <2>1. /\ Texts /\ numTasks \in Nat /\ currentTask \in -1 .. numTasks - 1
        /\ esp = currentTask /\ 0 \in Live /\ 0 \in Slots /\ Live \subseteq Slots
    BY <1>2, <1>3, TableFacts DEF Going, TableInv, TableTypes, OwnStack, Live
  <2>2. \A i \in Live : ~At(i, "test")
    <3>. SUFFICES ASSUME NEW i \in Live, At(i, "test") PROVE FALSE
      OBVIOUS
    <3>1. i = currentTask /\ currentTask >= 0
      BY <2>1 DEF Texts, OneTests, Live
    <3>. QED BY <1>1, <2>1, <3>1 DEF UserMode, here, At
  <2>3. Finished(numTasks, state, ppid, blocking_pid)
    BY <1>1, <1>2, <1>3, InvHandled, ScheduleKeepsSound DEF TimerInterrupt
  <2>4. \A i \in Slots : /\ state'[i] = "ZOMBIE" <=> state[i] = "ZOMBIE"
                         /\ state'[i] = "BLOCKED" => state[i] = "BLOCKED"
                         /\ ~MayBeBoosted(i) => (state'[i] = "BLOCKED" <=> state[i] = "BLOCKED")
    BY <2>3, ScheduleKeepsWhoWaits
  <2>5. UNCHANGED InitText /\ \A i : UNCHANGED <<ChildText(i), At(i, "test"), At(i, "exited"),
                                                At(i, "waited")>>
    BY <1>1 DEF InitText, ChildText, At, Result, Script, ProgramLabel
  <2>6. ~MayBeBoosted(0)
    BY <2>1 DEF Texts, InitWaits, MayBeBoosted
  <2>7. /\ state'[0] = "BLOCKED" => At(0, "waited")' /\ blocking_pid'[0] = WAIT_ALL_CHILDREN
        /\ At(0, "waited")' => state'[0] = "BLOCKED" \/ AllExited'
    <3>1. AllExited => AllExited'
      BY <1>1, <2>1, <2>4 DEF AllExited, Live
    <3>. QED BY <1>1, <2>1, <2>4, <2>5, <2>6, <3>1 DEF Texts, InitWaits
  <2>8. \A i \in Live \ {0} : /\ state'[i] # "BLOCKED"
                              /\ state'[i] = "ZOMBIE" <=> At(i, "exited")'
    BY <2>1, <2>4, <2>5 DEF Texts, Children, ChildState
  <2>9. \A i \in Live \ {0} : ChildText(i)'
    BY <2>1, <2>5 DEF Texts, Children
  <2>10. currentTask = 0 => InitText'
    BY <2>1, <2>5 DEF Texts
  <2>. QED BY <1>1, <1>2, <1>3, <2>1, <2>2, <2>5, <2>7, <2>8, <2>9, <2>10, ScheduledKeeps
<1>4. ASSUME ~(numTasks > 0)
      PROVE  Going'
  BY <1>1, <1>2, <1>4 DEF Going
<1>5. TextTypes'
  BY <1>1 DEF TextTypes, Ordinary
<1>. QED BY <1>3, <1>4, <1>5 DEF StepKept

LEMMA WaitStepKeeps ==
  ASSUME TextTypes, Going, UserMode, UNCHANGED build, WaitStep
  PROVE  StepKept
<1>. DEFINE label == Label("waited", 0)
<1>1. /\ TableInv /\ Texts /\ currentTask = 0 /\ esp = 0 /\ 0 \in Live /\ 0 \in Slots
      /\ numTasks = Len(Script) + 1 /\ numTasks > 0 /\ numTasks \in 1 .. MaxTasks
      /\ state[0] # "BLOCKED" /\ here.at = "wait" /\ Live \subseteq Slots /\ pid[0] = 1
  BY StepFacts, WhoIsWhere, TableFacts DEF WaitStep, ProgramNames
<1>2. /\ Wait(WAIT_ALL_CHILDREN, label) /\ UNCHANGED frame
      /\ UNCHANGED <<numTasks, ppid, taskWithDynamicPriority>>
      /\ WAIT_ALL_CHILDREN \in WaitTargets
  BY DEF WaitStep, Wait, WaitTargets
<1>3. TableInv'
  BY <1>1, <1>2, WaitKeeps DEF Kept
<1>4. label \in Text /\ label.at = "waited"
  BY DEF label, Label, Text, Points
<1>5. /\ regs' \in [Slots -> [eip : Text, ecx : Int]]
      /\ regs'[0].eip = label
      /\ \A i \in Slots : i # 0 => regs'[i] = regs[i]
  <2>1. \E value \in Int : regs' = Return(label, value)
    BY <1>2 DEF Wait, Failed
  <2>. QED BY <1>1, <1>4, <2>1, CallerGoesOn
<1>6. InitText'
  <2>1. Script' = Script
    BY DEF Script
  <2>. QED BY <1>1, <1>2, <1>4, <1>5, <2>1 DEF InitText
<1>7. \A i \in Live : ~At(i, "test") /\ ~At(i, "test")'
  BY <1>1, <1>4, <1>5 DEF Texts, OneTests, At, here
<1>8. ~MayBeBoosted(0)
  BY <1>1 DEF Texts, InitWaits, MayBeBoosted
<1>9. /\ \A i \in Live \ {0} : /\ state'[i] # "BLOCKED"
                               /\ state'[i] = "ZOMBIE" <=> state[i] = "ZOMBIE"
      /\ state'[0] = "BLOCKED" => blocking_pid'[0] = WAIT_ALL_CHILDREN
      /\ state'[0] = "BLOCKED" \/ AllExited'
  <2>1. \A i \in Live \ {0} : state[i] # "BLOCKED" /\ ppid[i] = 1
    BY <1>1 DEF Texts, Children, ChildState
  <2>2. CASE Awaitable(WAIT_ALL_CHILDREN)
    <3>1. /\ Finished(numTasks, BlockedTable, ppid, blocking_pid')
          /\ BlockedTable[0] = "BLOCKED"
          /\ \A i \in Slots : i # 0 => BlockedTable[i] = state[i]
      BY <1>1, <1>2, <2>2, AwaitFinished
    <3>2. blocking_pid'[0] = WAIT_ALL_CHILDREN
      <4>1. blocking_pid' = [blocking_pid EXCEPT ![0] = WAIT_ALL_CHILDREN]
        BY <1>1, <1>2, <2>2 DEF Wait
      <4>2. blocking_pid \in [Slots -> BlockingPids]
        BY <1>1, TableFacts
      <4>. QED BY <1>1, <4>1, <4>2
    <3>. QED BY <1>1, <1>8, <2>1, <3>1, <3>2, ScheduleKeepsWhoWaits
  <2>3. CASE ~Awaitable(WAIT_ALL_CHILDREN)
    <3>1. Schedule(numTasks, state, priority, cpustate)
      BY <1>2, <2>3 DEF Wait
    <3>2. Finished(numTasks, state, ppid, blocking_pid)
      BY <1>1, <3>1, InvHandled, ScheduleKeepsSound
    <3>3. AllExited
      BY <1>1, <2>1, <2>3 DEF Awaitable, IsThereAliveChild, AllExited
    <3>4. Live' = Live
      BY <1>2 DEF Live
    <3>. QED BY <1>1, <2>1, <3>2, <3>3, <3>4, ScheduleKeepsWhoWaits DEF AllExited
  <2>. QED BY <2>2, <2>3
<1>10. \A i \in Live \ {0} : state'[i] = "ZOMBIE" <=> At(i, "exited")'
  BY <1>1, <1>5, <1>9 DEF Texts, Children, ChildState, At
<1>11. At(0, "waited")'
  BY <1>4, <1>5 DEF At
<1>12. Going'
  <2>1. UNCHANGED <<build, numTasks, ppid, taskWithDynamicPriority>>
    BY <1>2
  <2>2. \A i \in Live : i # currentTask => regs'[i] = regs[i]
    BY <1>1, <1>5
  <2>3. \A i \in Live \ {0} : i = currentTask => ChildText(i)'
    BY <1>1
  <2>4. \A i \in Live \ {0} : /\ state'[i] # "BLOCKED"
                              /\ state'[i] = "ZOMBIE" <=> At(i, "exited")'
    BY <1>9, <1>10
  <2>5. /\ state'[0] = "BLOCKED" => At(0, "waited")' /\ blocking_pid'[0] = WAIT_ALL_CHILDREN
        /\ At(0, "waited")' => state'[0] = "BLOCKED" \/ AllExited'
    BY <1>9, <1>11
  <2>6. currentTask = 0 => InitText'
    BY <1>6
  <2>. QED BY <1>1, <1>3, <1>7, <2>1, <2>2, <2>3, <2>4, <2>5, <2>6, ScheduledKeeps
<1>. QED BY <1>2, <1>5, <1>12 DEF StepKept, TextTypes, Ordinary

(* The exit of a child: it wakes init if it is the last one.               *)
LEMMA ProgramStepKeeps ==
  ASSUME TextTypes, Going, UserMode, UNCHANGED build, ProgramStep
  PROVE  StepKept
<1>. DEFINE label == Label("exited", 0)
<1>1. /\ TableInv /\ Texts /\ currentTask # 0 /\ esp = currentTask
      /\ currentTask \in Live \ {0} /\ currentTask \in Slots
      /\ 0 \in Live /\ 0 \in Slots /\ Live \subseteq Slots /\ numTasks > 0
      /\ state[currentTask] \in {"RUNNING", "READY"}
      /\ here.at \in ProgramNames /\ here = regs[currentTask].eip
      /\ \A i \in Live : pid[i] = i + 1
  BY StepFacts, WhoIsWhere, TableFacts DEF ProgramStep, ProgramNames
<1>2. /\ Exit(label) /\ UNCHANGED frame
      /\ UNCHANGED <<numTasks, ppid, taskWithDynamicPriority>>
  BY DEF ProgramStep, Exit
<1>3. TableInv'
  BY <1>1, <1>2, ExitKeeps
<1>4. label \in Text /\ label.at = "exited"
  BY DEF label, Label, Text, Points
<1>5. /\ regs' \in [Slots -> [eip : Text, ecx : Int]]
      /\ regs'[currentTask].eip = label
      /\ \A i \in Slots : i # currentTask => regs'[i] = regs[i]
  <2>1. regs' = [regs EXCEPT ![esp].eip = label]
    BY <1>2 DEF Exit
  <2>. HIDE DEF label
  <2>. QED BY <1>1, <1>4, <2>1, CallerGoesOn
<1>. HIDE DEF label
<1>6. \A i \in Live : ~At(i, "test") /\ ~At(i, "test")'
  <2>1. ~At(currentTask, "test")
    BY <1>1 DEF At, ProgramNames
  <2>2. \A i \in Live : ~At(i, "test")
    BY <1>1, <2>1 DEF Texts, OneTests
  <2>. QED BY <1>1, <1>4, <1>5, <2>2 DEF At
<1>7. ChildText(currentTask) => \A i : i = currentTask => ChildText(i)'
  BY <1>4, <1>5 DEF ChildText, At
<1>8. /\ Finished(numTasks, WokenTable, ppid, blocking_pid')
      /\ WokenTable[currentTask] = "ZOMBIE"
      /\ \A i \in Slots : WokenTable[i] # state[i] =>
           i = currentTask \/ (i \in Woken(ExitedTable) /\ state[i] = "BLOCKED")
  BY <1>1, <1>2, ExitHandled, ExitFinished
<1>9. \A i \in Live \ {0} : i # currentTask => WokenTable[i] = state[i]
  BY <1>1, <1>8 DEF Texts, Children, ChildState
<1>10. /\ \A i \in Slots : /\ state'[i] = "ZOMBIE" <=> WokenTable[i] = "ZOMBIE"
                           /\ state'[i] = "BLOCKED" => WokenTable[i] = "BLOCKED"
       /\ state'[0] = "BLOCKED" <=> WokenTable[0] = "BLOCKED"
  <2>1. ~MayBeBoosted(0)
    BY <1>1 DEF Texts, InitWaits, MayBeBoosted
  <2>. QED BY <1>1, <1>8, <2>1, ScheduleKeepsWhoWaits
<1>11. \A i \in Live \ {0} : /\ state'[i] # "BLOCKED"
                             /\ state'[i] = "ZOMBIE" <=> At(i, "exited")'
  <2>. SUFFICES ASSUME NEW i \in Live \ {0}
                PROVE  /\ state'[i] # "BLOCKED"
                       /\ state'[i] = "ZOMBIE" <=> At(i, "exited")'
    OBVIOUS
  <2>1. i \in Slots /\ state[i] # "BLOCKED" /\ (state[i] = "ZOMBIE" <=> At(i, "exited"))
    BY <1>1 DEF Texts, Children, ChildState
  <2>2. CASE i = currentTask
    BY <1>4, <1>5, <1>8, <1>10, <2>1, <2>2 DEF At
  <2>3. CASE i # currentTask
    BY <1>5, <1>9, <1>10, <2>1, <2>3 DEF At
  <2>. QED BY <2>2, <2>3
<1>12. state'[0] = "BLOCKED" => At(0, "waited")' /\ blocking_pid'[0] = WAIT_ALL_CHILDREN
  <2>. SUFFICES ASSUME state'[0] = "BLOCKED"
                PROVE  At(0, "waited")' /\ blocking_pid'[0] = WAIT_ALL_CHILDREN
    OBVIOUS
  <2>1. state[0] = "BLOCKED" /\ 0 \notin Woken(ExitedTable)
    BY <1>1, <1>8, <1>10 DEF WokenTable
  <2>2. blocking_pid'[0] = blocking_pid[0]
    BY <1>1, <1>2, <2>1 DEF Exit, ExitedTable
  <2>. QED BY <1>1, <1>5, <2>1, <2>2 DEF Texts, InitWaits, At
<1>13. At(0, "waited")' => state'[0] = "BLOCKED" \/ AllExited'
  <2>. SUFFICES ASSUME At(0, "waited")', WokenTable[0] # "BLOCKED"
                PROVE  AllExited'
    BY <1>10
  <2>1. At(0, "waited")
    BY <1>1, <1>5 DEF At
  <2>2. state[0] = "BLOCKED" /\ blocking_pid[0] = WAIT_ALL_CHILDREN
    BY <1>1, <2>1 DEF Texts, InitWaits, AllExited
  <2>3. 0 \in Woken(ExitedTable)
    BY <1>1, <1>8, <2>2
  <2>4. pid[currentTask] # WAIT_ALL_CHILDREN /\ pid[0] = 1
    BY <1>1, <1>3, SentinelAssumption, MaxTasksAssumption DEF Slots
  <2>5. ~IsThereAliveChild(1, ExitedTable)
    BY <2>2, <2>3, <2>4 DEF Woken
  <2>6. ASSUME NEW i \in Live \ {0}
        PROVE  state'[i] = "ZOMBIE"
    <3>1. ppid[i] = 1 /\ i \in Slots
      BY <1>1 DEF Texts, Children, ChildState
    <3>2. ExitedTable[i] = "ZOMBIE"
      BY <2>5, <3>1 DEF IsThereAliveChild
    <3>3. WokenTable[i] = "ZOMBIE"
      <4>1. i # currentTask => ExitedTable[i] = state[i]
        BY <1>1, <3>1, TableFacts DEF ExitedTable
      <4>. QED BY <1>8, <1>9, <3>2, <4>1
    <3>. QED BY <1>10, <3>1, <3>3
  <2>7. Live' = Live
    BY <1>2 DEF Live
  <2>. QED BY <2>6, <2>7 DEF AllExited
<1>14. Going'
  <2>1. UNCHANGED <<build, numTasks, ppid, taskWithDynamicPriority>>
    BY <1>2
  <2>2. \A i \in Live : i # currentTask => regs'[i] = regs[i]
    BY <1>1, <1>5
  <2>3. \A i \in Live \ {0} : i = currentTask => ChildText(i)'
    BY <1>1, <1>7 DEF Texts, Children
  <2>. QED BY <1>1, <1>3, <1>6, <1>11, <1>12, <1>13, <2>1, <2>2, <2>3, ScheduledKeeps
<1>. QED BY <1>2, <1>5, <1>14 DEF StepKept, TextTypes, Ordinary

(* fork() returns the child's pid to init and 0 to the child, in the slot  *)
(* of its entry.                                                           *)
LEMMA ForkStepKeeps ==
  ASSUME TextTypes, Going, UserMode, UNCHANGED build, ForkStep
  PROVE  StepKept
<1>. DEFINE k == here.k
            label == Label("forked", k)
            prio == Script[k].priority
<1>1. /\ TableInv /\ Texts /\ currentTask = 0 /\ esp = 0 /\ 0 \in Live /\ 0 \in Slots
      /\ k = numTasks /\ k \in 1 .. Len(Script) /\ k \in Nat /\ k # 0
      /\ Live \subseteq Slots /\ Live = 0 .. k - 1
      /\ state[0] \in {"RUNNING", "READY"} /\ state \in [Slots -> TaskState]
      /\ ppid \in [Slots -> Nat]
  BY StepFacts, WhoIsWhere, TableFacts DEF ForkStep, ProgramNames
<1>2. numTasks < MaxTasks /\ k \in Slots /\ prio \in Nat \cup {Inherit}
  <2>1. Len(Script) \in 1 .. MaxTasks - 1
    BY ScriptFacts DEF TextTypes
  <2>2. numTasks < MaxTasks /\ k \in Slots
    BY <1>1, <2>1, MaxTasksAssumption DEF Slots
  <2>3. prio \in Nat \cup {Inherit}
    BY <1>1, ScriptFacts DEF TextTypes
  <2>. QED BY <2>2, <2>3
<1>3. label \in Text /\ label.at = "forked" /\ label.k = k
  BY <1>1 DEF Label, Text, Points
<1>4. Fork(prio, label) /\ UNCHANGED frame /\ UNCHANGED taskWithDynamicPriority
  BY DEF ForkStep, Fork, k_
<1>. HIDE DEF k, label, prio
<1>5. /\ Finished(numTasks + 1, ForkedTable, ppid', blocking_pid')
      /\ numTasks' = k + 1
      /\ \A i \in Slots : ForkedTable[i] = IF i = k THEN "READY" ELSE state[i]
      /\ ppid' = [ppid EXCEPT ![k] = currentTask + 1]
  BY <1>1, <1>2, <1>4, ForkFinished
<1>6. TableInv'
  BY <1>1, <1>2, <1>4, ForkKeeps DEF Kept
<1>7. /\ regs' \in [Slots -> [eip : Text, ecx : Int]]
      /\ regs'[0] = [eip |-> label, ecx |-> k + 1]
      /\ regs'[k] = [eip |-> label, ecx |-> 0]
      /\ \A i \in Slots : i \notin {0, k} => regs'[i] = regs[i]
  <2>1. regs' = [[regs EXCEPT ![0] = [eip |-> label, ecx |-> k + 1]]
                   EXCEPT ![k] = [eip |-> label, ecx |-> 0]]
    <3>1. pidCounter = k + 1
      BY <1>1 DEF TableInv, Numbered
    <3>2. ~ (numTasks >= MaxTasks)
      BY <1>1, <1>2, MaxTasksAssumption
    <3>3. regs' = [Return(label, pidCounter) EXCEPT
                     ![numTasks] = [eip |-> label, ecx |-> 0]]
      BY <1>4, <3>2 DEF Fork, ForkTask
    <3>. QED BY <1>1, <3>1, <3>3 DEF Return
  <2>2. k + 1 \in Int /\ 0 \in Int
    BY <1>1
  <2>3. /\ [eip |-> label, ecx |-> k + 1] \in [eip : Text, ecx : Int]
        /\ [eip |-> label, ecx |-> 0] \in [eip : Text, ecx : Int]
    BY <1>3, <2>2
  <2>. QED BY <1>1, <1>2, <2>1, <2>3 DEF TextTypes
<1>8. Live' = Live \cup {k} /\ k \notin Live
  BY <1>1, <1>5 DEF Live
<1>9. Script' = Script
  BY DEF Script
<1>10. InitText'
  <2>1. regs'[0].eip = label /\ regs'[0].ecx = k + 1 /\ k + 1 # 0
    BY <1>1, <1>7
  <2>2. Result(0)' # 0
    BY <1>3, <2>1 DEF Result, At
  <2>. QED BY <1>1, <1>3, <1>5, <1>9, <2>1, <2>2 DEF InitText
<1>11. ASSUME NEW i \in Live' \ {0}
       PROVE  ChildText(i)' /\ ChildState(i)' /\ ~At(i, "test")'
  <2>0. i \in Slots
    BY <1>1, <1>2, <1>8
  <2>1. /\ state'[i] = "ZOMBIE" <=> ForkedTable[i] = "ZOMBIE"
        /\ state'[i] = "BLOCKED" => ForkedTable[i] = "BLOCKED"
    BY <1>5, <2>0, ScheduleKeepsWhoWaits
  <2>2. CASE i = k
    <3>1. regs'[i].eip = label /\ regs'[i].ecx = 0
      BY <1>7, <2>2
    <3>2. ppid'[i] = 1
      BY <1>1, <1>2, <1>5, <2>2
    <3>3. Result(i)' = 0
      BY <1>3, <3>1 DEF Result, At
    <3>4. ForkedTable[i] = "READY"
      BY <1>2, <1>5, <2>2
    <3>. QED BY <1>3, <2>1, <2>2, <3>1, <3>2, <3>3, <3>4 DEF ChildText, ChildState, At
  <2>3. CASE i # k
    <3>1. i \in Live \ {0} /\ i # currentTask /\ regs'[i] = regs[i] /\ ppid'[i] = ppid[i]
      BY <1>1, <1>5, <1>7, <1>8, <2>0, <2>3
    <3>2. ForkedTable[i] = state[i]
      BY <1>5, <2>0, <2>3
    <3>3. ChildText(i) /\ ChildState(i) /\ OneTests
      BY <1>1, <3>1 DEF Texts, Children
    <3>4. ChildText(i)' /\ ~At(i, "test")'
      BY <3>1, <3>3, OthersStay
    <3>. QED BY <2>1, <3>1, <3>2, <3>3, <3>4 DEF ChildState, At
  <2>. QED BY <2>2, <2>3
<1>12. ~At(0, "test")' /\ ~At(0, "waited")'
  BY <1>3, <1>7 DEF At
<1>13. state'[0] # "BLOCKED"
  BY <1>1, <1>5, ScheduleKeepsWhoWaits
<1>14. OneTests'
  BY <1>11, <1>12 DEF OneTests
<1>15. Children'
  BY <1>11 DEF Children
<1>16. InitWaits'
  BY <1>1, <1>4, <1>12, <1>13 DEF Texts, InitWaits
<1>. QED BY <1>4, <1>6, <1>7, <1>10, <1>14, <1>15, <1>16
         DEF StepKept, TextTypes, Ordinary, Going, Texts

-----------------------------------------------------------------------------
(* The end, if init calls exit().                                          *)

(* With init on the CPU and every child a ZOMBIE, no scheduler finds       *)
(* anybody else: the CPU stays with init, whatever state it is in.         *)
LEMMA NobodyElseToRun ==
  ASSUME numTasks \in 1 .. MaxTasks, currentTask = 0, esp = 0,
         NEW st \in [Slots -> TaskState], NEW pr, NEW cs \in [Slots -> Slots],
         \A i \in Live \ {0} : st[i] = "ZOMBIE",
         taskWithDynamicPriority \in (-1 .. numTasks - 1) \ {0},
         Schedule(numTasks, st, pr, cs)
  PROVE  /\ currentTask' = 0 /\ esp' = 0
         /\ state' \in [Slots -> TaskState] /\ cpustate' \in [Slots -> Slots]
         /\ \A i \in Live \ {0} : state'[i] = "ZOMBIE"
<1>1. 0 \in Slots /\ 0 \in Live /\ Live \subseteq Slots /\ numTasks > 0 /\ ~ (numTasks <= 0)
  BY MaxTasksAssumption DEF Slots, Live
<1>2. Ready(numTasks, st) \subseteq {0}
  BY DEF Ready, Live
<1>3. Save(cs) \in [Slots -> Slots] /\ Save(cs)[0] = 0
  BY <1>1 DEF Save
<1>4. ASSUME NEW s \in [Slots -> TaskState]
      PROVE  /\ Requeue(s) \in [Slots -> TaskState]
             /\ \A i \in Slots : i # 0 => Requeue(s)[i] = s[i]
  BY <1>1, <1>4 DEF Requeue, TaskState
<1>5. /\ [st EXCEPT ![0] = "RUNNING"] \in [Slots -> TaskState]
      /\ \A i \in Slots : i # 0 => [st EXCEPT ![0] = "RUNNING"][i] = st[i]
  BY <1>1 DEF TaskState
<1>6. ASSUME Resume(0, cs),
             \/ state' = [Requeue(st) EXCEPT ![0] = "RUNNING"]
             \/ state' = Requeue([st EXCEPT ![0] = "RUNNING"])
      PROVE  /\ currentTask' = 0 /\ esp' = 0
             /\ state' \in [Slots -> TaskState] /\ cpustate' \in [Slots -> Slots]
             /\ \A i \in Live \ {0} : state'[i] = "ZOMBIE"
  <2>1. currentTask' = 0 /\ esp' = 0 /\ cpustate' \in [Slots -> Slots]
    BY <1>3, <1>6 DEF Resume
  <2>2. state' \in [Slots -> TaskState] /\ \A i \in Slots : i # 0 => state'[i] = st[i]
    <3>1. CASE state' = [Requeue(st) EXCEPT ![0] = "RUNNING"]
      BY <1>1, <1>4, <3>1 DEF TaskState
    <3>2. CASE state' = Requeue([st EXCEPT ![0] = "RUNNING"])
      BY <1>4, <1>5, <3>2
    <3>. QED BY <1>6, <3>1, <3>2
  <2>. QED BY <1>1, <2>1, <2>2
<1>7. CASE RoundRobinScheduler(numTasks, st, pr, cs)
  <2>1. RoundRobinChoice(numTasks, st) \subseteq {0}
    BY <1>2 DEF RoundRobinChoice
  <2>2. CASE /\ state' = st /\ cpustate' = cs
             /\ UNCHANGED <<currentTask, esp>>
    BY <2>2
  <2>3. CASE \E next \in RoundRobinChoice(numTasks, st) :
               /\ state' = [Requeue(st) EXCEPT ![next] = "RUNNING"]
               /\ Resume(next, cs)
    BY <1>6, <2>1, <2>3
  <2>. QED BY <1>7, <2>2, <2>3 DEF RoundRobinScheduler
<1>8. PreemptiveChoice(numTasks, st, pr) \subseteq {0}
  BY <1>2 DEF PreemptiveChoice
<1>9. CASE PreemptiveScheduler(numTasks, st, pr, cs)
  BY <1>6, <1>8, <1>9 DEF PreemptiveScheduler
<1>10. CASE PreemptiveSchedulerWithDynamicPriority(numTasks, st, pr, cs)
  <2>1. Boosted(st, pr) = {}
    <3>1. taskWithDynamicPriority # -1 => st[taskWithDynamicPriority] = "ZOMBIE"
      BY DEF Live
    <3>. QED BY <3>1 DEF Boosted
  <2>. QED BY <1>6, <1>8, <1>10, <2>1 DEF PreemptiveSchedulerWithDynamicPriority
<1>. QED BY <1>1, <1>7, <1>9, <1>10 DEF Schedule

LEMMA EndStepEnds ==
  ASSUME TextTypes, Going, UserMode, UNCHANGED build, EndStep
  PROVE  TextTypes' /\ Ended'
<1>. DEFINE label == Label("exited", 0)
<1>1. /\ TableInv /\ Texts /\ currentTask = 0 /\ esp = 0 /\ 0 \in Live /\ 0 \in Slots
      /\ Live \subseteq Slots /\ numTasks = Len(Script) + 1 /\ numTasks \in 1 .. MaxTasks
      /\ here = regs[0].eip /\ here.at = "waited" /\ state[0] \in {"RUNNING", "READY"}
      /\ state \in [Slots -> TaskState]
  BY StepFacts, WhoIsWhere, TableFacts DEF EndStep, ProgramNames
<1>2. Exit(label) /\ UNCHANGED frame
  BY DEF EndStep
<1>3. label \in Text /\ label.at = "exited"
  BY DEF label, Label, Text, Points
<1>. HIDE DEF label
<1>4. /\ regs' \in [Slots -> [eip : Text, ecx : Int]]
      /\ regs'[0].eip = label
      /\ \A i \in Slots : i # 0 => regs'[i] = regs[i]
  <2>1. regs' = [regs EXCEPT ![esp].eip = label]
    BY <1>2 DEF Exit
  <2>. QED BY <1>1, <1>3, <2>1, CallerGoesOn
<1>5. \A i \in Live \ {0} : state[i] = "ZOMBIE" /\ At(i, "exited")
  BY <1>1 DEF Texts, InitWaits, AllExited, Children, ChildState, At
<1>6. Woken(ExitedTable) = {}
  <2>1. ppid[0] = 0
    BY <1>1 DEF TableInv, Sound
  <2>2. FindTask(0) = {}
    BY <1>1, FindTaskFindsSlot DEF Live
  <2>. QED BY <1>1, <2>1, <2>2 DEF Woken
<1>7. /\ WokenTable \in [Slots -> TaskState]
      /\ \A i \in Live \ {0} : WokenTable[i] = "ZOMBIE"
  BY <1>1, <1>5, <1>6 DEF WokenTable, ExitedTable, TaskState
<1>8. Schedule(numTasks, WokenTable, priority, cpustate)
  BY <1>2 DEF Exit, WokenTable, ExitedTable
<1>9. /\ cpustate \in [Slots -> Slots]
      /\ taskWithDynamicPriority \in (-1 .. numTasks - 1) \ {0}
  BY <1>1 DEF Texts, InitWaits, TableInv, TableTypes
<1>10. /\ currentTask' = 0 /\ esp' = 0
       /\ state' \in [Slots -> TaskState] /\ cpustate' \in [Slots -> Slots]
       /\ \A i \in Live \ {0} : state'[i] = "ZOMBIE"
  BY <1>1, <1>7, <1>8, <1>9, NobodyElseToRun
<1>11. UNCHANGED <<active, numTasks, taskWithDynamicPriority, Live, Script>> /\ active
  BY <1>2 DEF Exit, UserMode, Live, Script
<1>12. At(0, "exited")' /\ \A i \in Live \ {0} : At(i, "exited")'
  BY <1>1, <1>3, <1>4, <1>5 DEF At
<1>13. Ended'
  BY <1>1, <1>9, <1>10, <1>11, <1>12 DEF Ended
<1>. QED BY <1>2, <1>4, <1>13 DEF TextTypes, Ordinary

LEMMA EndedStays ==
  ASSUME TextTypes, Ended, InitNext
  PROVE  TextTypes' /\ Ended'
<1>1. /\ active /\ currentTask = 0 /\ esp = 0 /\ here.at = "exited"
      /\ numTasks = Len(Script) + 1 /\ numTasks \in 1 .. MaxTasks
      /\ state \in [Slots -> TaskState] /\ cpustate \in [Slots -> Slots]
  <2>1. Len(Script) \in 1 .. MaxTasks - 1
    BY ScriptFacts DEF TextTypes
  <2>2. numTasks \in 1 .. MaxTasks
    BY <2>1, MaxTasksAssumption DEF Ended
  <2>. QED BY <2>2 DEF Ended, At, here
<1>2. ~Boot
  BY <1>1 DEF Boot, Activate
<1>3. ASSUME NEW i \in Slots
      PROVE  ~Step(i)
  BY <1>1 DEF Step, ForkStep, StoreStep, TestStep, DynamicStep, ExecStep, ProgramStep,
              CountStep, PollStep, WaitStep, EndStep, ProgramNames
<1>4. Timer
  BY <1>2, <1>3 DEF InitNext
<1>5. /\ Schedule(numTasks, state, priority, cpustate)
      /\ UNCHANGED <<active, numTasks, taskWithDynamicPriority, regs, build, frame>>
  BY <1>4 DEF Timer, TimerInterrupt
<1>6. /\ currentTask' = 0 /\ esp' = 0
      /\ state' \in [Slots -> TaskState] /\ cpustate' \in [Slots -> Slots]
      /\ \A i \in Live \ {0} : state'[i] = "ZOMBIE"
  BY <1>1, <1>5, NobodyElseToRun DEF Ended
<1>7. Live' = Live /\ Script' = Script /\ \A i : UNCHANGED At(i, "exited")
  BY <1>5 DEF Live, Script, At
<1>8. Ended'
  BY <1>5, <1>6, <1>7 DEF Ended
<1>. QED BY <1>5, <1>8 DEF TextTypes, Ordinary

-----------------------------------------------------------------------------
(* The induction.                                                          *)

LEMMA InitHasInv ==
  ASSUME \A b \in Builds : Ordinary(b), InitInit
  PROVE  ProgramsInv
<1>1. TableInv /\ numTasks = 0
  BY InitEstablishes DEF InitInit, Init
<1>2. regs \in [Slots -> [eip : Text, ecx : Int]]
  <2>1. Label("fork", 1) \in Text /\ 0 \in Int
    BY DEF Label, Text, Points
  <2>2. [eip |-> InitProgram, ecx |-> 0] \in [eip : Text, ecx : Int]
    BY <2>1, EntryAssumption
  <2>. QED BY <2>2 DEF InitInit, Init
<1>3. frame \in [pid : Int, pid2 : Int, initial_count : Int]
  BY DEF InitInit
<1>4. TextTypes
  BY <1>2, <1>3 DEF InitInit, TextTypes
<1>. QED BY <1>1, <1>4 DEF ProgramsInv, Going

(* A step that touches none of this keeps all of it.                       *)
LEMMA TextsStay ==
  ASSUME Texts, UNCHANGED <<build, frame, regs, numTasks, currentTask,
                            taskWithDynamicPriority, state, ppid, blocking_pid>>
  PROVE  Texts'
<1>1. Live' = Live /\ Script' = Script
  BY DEF Live, Script
<1>2. \A i : /\ At(i, "test")' = At(i, "test") /\ At(i, "exited")' = At(i, "exited")
             /\ At(i, "waited")' = At(i, "waited")
  BY DEF At
<1>3. \A i : Result(i)' = Result(i) /\ ProgramLabel(i)' = ProgramLabel(i)
  BY <1>1 DEF Result, At, ProgramLabel
<1>4. InitText'
  BY <1>1, <1>3 DEF Texts, InitText
<1>5. Children'
  BY <1>1, <1>2, <1>3 DEF Texts, Children, ChildText, ChildState
<1>6. OneTests'
  BY <1>1, <1>2 DEF Texts, OneTests
<1>7. InitWaits'
  <2>1. AllExited' = AllExited
    BY <1>1 DEF AllExited
  <2>. QED BY <1>2, <2>1 DEF Texts, InitWaits
<1>. QED BY <1>4, <1>5, <1>6, <1>7 DEF Texts

(* Boot adds init at the first entry of the script, before any child.      *)
LEMMA BootKeeps ==
  ASSUME TextTypes, Going, Boot
  PROVE  StepKept
<1>1. TableInv /\ UNCHANGED <<build, frame>>
  BY DEF Going, Boot
<1>2. CASE numTasks > 0 /\ Activate
  <2>1. TableInv'
    BY <1>1, <1>2, ActivateKeeps DEF Kept
  <2>2. UNCHANGED <<numTasks, currentTask, taskWithDynamicPriority, state, ppid,
                    blocking_pid, regs, Live>>
    BY <1>2 DEF Activate, tableVars, Live
  <2>3. Texts'
    BY <1>1, <1>2, <2>2, TextsStay DEF Going
  <2>. QED BY <1>1, <2>1, <2>2, <2>3 DEF StepKept, Going, TextTypes, Ordinary
<1>3. CASE numTasks = 0 /\ AddTask /\ SetSchedulerType(build.scheduler)
  <2>1. build.scheduler \in SchedulerTypes /\ Len(Script) \in 1 .. MaxTasks - 1
    BY ScriptFacts DEF TextTypes
  <2>2. TableInv'
    BY <1>1, <1>3, <2>1, AddTaskKeeps DEF SetSchedulerType, Kept
  <2>3. /\ numTasks' = 1 /\ Live' = {0} /\ 0 \in Slots
    BY <1>3, MaxTasksAssumption DEF AddTask, Live, Slots
  <2>4. /\ regs' \in [Slots -> [eip : Text, ecx : Int]]
        /\ regs'[0].eip.at = "fork" /\ regs'[0].eip.k = 1
    <3>1. Label("fork", 1) \in Text /\ 0 \in Int
      BY DEF Label, Text, Points
    <3>2. /\ [eip |-> InitProgram, ecx |-> 0] \in [eip : Text, ecx : Int]
          /\ InitProgram.at = "fork" /\ InitProgram.k = 1
      BY <3>1, EntryAssumption DEF Label
    <3>3. regs' = [regs EXCEPT ![0] = [eip |-> InitProgram, ecx |-> 0]]
      BY <1>3 DEF AddTask
    <3>. QED BY <2>3, <3>2, <3>3 DEF TextTypes
  <2>5. InitText'
    <3>1. Script' = Script /\ 1 \in 1 .. Len(Script)
      BY <1>1, <2>1, MaxTasksAssumption DEF Script
    <3>. QED BY <2>3, <2>4, <3>1 DEF InitText
  <2>6. OneTests' /\ Children'
    BY <2>3, <2>4 DEF OneTests, Children, At
  <2>7. InitWaits'
    <3>1. state'[0] = "READY"
      BY <1>1, <1>3, <2>3 DEF AddTask, TableInv, TableTypes
    <3>2. taskWithDynamicPriority' # 0
      BY <1>1, <1>3 DEF AddTask, TableInv, TableTypes
    <3>. QED BY <2>4, <3>1, <3>2 DEF InitWaits, At
  <2>. QED BY <1>1, <2>2, <2>4, <2>5, <2>6, <2>7 DEF StepKept, Going, Texts, TextTypes, Ordinary
<1>. QED BY <1>2, <1>3 DEF Boot

(* Every step of the system, with one lemma per step of a program.         *)
LEMMA InitNextKeeps ==
  ASSUME ~TimerInWindow, ProgramsInv, [InitNext]_allVars
  PROVE  ProgramsInv'
<1>1. CASE TextTypes /\ Ended /\ InitNext
  BY <1>1, EndedStays DEF ProgramsInv
<1>2. CASE TextTypes /\ Going /\ InitNext
  <2>1. CASE Boot
    BY <1>2, <2>1, BootKeeps DEF StepKept, ProgramsInv
  <2>2. CASE Timer
    BY <1>2, <2>2, TimerKeeps DEF StepKept, ProgramsInv
  <2>3. ASSUME NEW i \in Slots, Step(i)
        PROVE  ProgramsInv'
    <3>1. UserMode /\ UNCHANGED build
      BY <2>3 DEF Step
    <3>2. CASE EndStep
      BY <1>2, <3>1, <3>2, EndStepEnds DEF ProgramsInv
    <3>3. CASE ~EndStep
      <4>1. StepKept
        BY <1>2, <2>3, <3>1, <3>3, ForkStepKeeps, StoreStepKeeps, TestStepKeeps,
           DynamicStepKeeps, ExecStepKeeps, ProgramStepKeeps, CountStepKeeps, WaitStepKeeps
           DEF Step
      <4>. QED BY <4>1 DEF StepKept, ProgramsInv
    <3>. QED BY <3>2, <3>3
  <2>. QED BY <1>2, <2>1, <2>2, <2>3 DEF InitNext
<1>3. CASE UNCHANGED allVars
  <2>1. UNCHANGED <<vars, build, frame, regs, active, numTasks, currentTask, esp,
                    taskWithDynamicPriority, state, cpustate, ppid, blocking_pid>>
    BY <1>3 DEF allVars, vars, tableVars
  <2>2. TextTypes => TextTypes'
    BY <2>1 DEF TextTypes, Ordinary
  <2>3. Ended => Ended'
    BY <2>1 DEF Ended, At, Live, Script
  <2>4. Going => Going'
    <3>1. TableInv => TableInv'
      <4>1. NoSchedule
        BY <2>1 DEF NoSchedule, vars, tableVars
      <4>. QED BY <2>1, <4>1, NoScheduleKeeps DEF Kept, TableInv, TableTypes
    <3>. QED BY <2>1, <3>1, TextsStay DEF Going
  <2>. QED BY <2>2, <2>3, <2>4 DEF ProgramsInv
<1>. QED BY <1>1, <1>2, <1>3 DEF ProgramsInv

LEMMA InvRunsThePrograms == ProgramsInv => ChildrenRunTheirPrograms
<1>. SUFFICES ASSUME ProgramsInv, NEW i \in Live
              PROVE  /\ regs[i].eip.at \in {"dynamic", "exec"} => regs[i].eip.k = i
                     /\ regs[i].eip.at \in ProgramNames => i > 0 /\ regs[i].eip = ProgramLabel(i)
  BY DEF ChildrenRunTheirPrograms
<1>1. CASE Ended
  BY <1>1 DEF Ended, At, ProgramNames
<1>2. CASE Going
  <2>1. numTasks \in Nat /\ numTasks > 0 /\ i \in Nat
    BY <1>2, TableFacts DEF Going
  <2>2. CASE i = 0
    BY <1>2, <2>1, <2>2 DEF Going, Texts, InitText, ProgramNames
  <2>3. CASE i # 0
    BY <1>2, <2>1, <2>3 DEF Going, Texts, Children, ChildText, At, ProgramNames
  <2>. QED BY <2>2, <2>3
<1>. QED BY <1>1, <1>2 DEF ProgramsInv

LEMMA InvFinishesFirst == ProgramsInv => ChildrenFinishFirst
<1>1. CASE Ended
  BY <1>1 DEF Ended, ChildrenFinishFirst, AllChildrenFinished, ExitedChildNeverRuns, At
<1>2. CASE Going
  <2>1. AllChildrenFinished
    BY <1>2 DEF Going, Texts, InitText, InitWaits, AllExited, AllChildrenFinished, At
  <2>2. ExitedChildNeverRuns
    <3>. SUFFICES ASSUME NEW i \in Live \ {0}, At(i, "exited"), i = currentTask
                  PROVE  FALSE
      BY DEF ExitedChildNeverRuns
    <3>1. numTasks > 0 /\ currentTask >= 0
      BY <1>2, TableFacts DEF Going
    <3>2. state[i] = "ZOMBIE"
      BY <1>2, <3>1 DEF Going, Texts, Children, ChildState
    <3>. QED BY <1>2, <3>1, <3>2 DEF Going, TableInv, CpuOwnerCanRun
  <2>. QED BY <2>1, <2>2 DEF ChildrenFinishFirst
<1>. QED BY <1>1, <1>2 DEF ProgramsInv

-----------------------------------------------------------------------------
(* The theorems.                                                           *)

(* The programs keep their invariant.                                      *)
THEOREM ProgramsKeepInv ==
  ASSUME ~TimerInWindow, \A b \in Builds : Ordinary(b)
  PROVE  InitSpec => []ProgramsInv
<1>1. InitInit => ProgramsInv
  BY InitHasInv
<1>2. ProgramsInv /\ [InitNext]_allVars => ProgramsInv'
  BY InitNextKeeps
<1>. QED BY <1>1, <1>2, PTL DEF InitSpec

(* fork returns twice and never confuses the two, for any script, size of  *)
(* the table and scheduler: the i-th child takes the i-th branch, with the *)
(* stack it shares with init until it execs, and init none of them.        *)
THEOREM EveryChildRunsItsProgram ==
  ASSUME ~TimerInWindow, \A b \in Builds : Ordinary(b)
  PROVE  InitSpec => []ChildrenRunTheirPrograms
<1>1. ProgramsInv => ChildrenRunTheirPrograms
  BY InvRunsThePrograms
<1>. QED BY <1>1, ProgramsKeepInv, PTL

(* wait(WAIT_ALL_CHILDREN) returns to init only when every child of the    *)
(* script has exited, and no child that has exited is scheduled again.     *)
THEOREM InitFinishesLast ==
  ASSUME ~TimerInWindow, \A b \in Builds : Ordinary(b)
  PROVE  InitSpec => []ChildrenFinishFirst
<1>1. ProgramsInv => ChildrenFinishFirst
  BY InvFinishesFirst
<1>. QED BY <1>1, ProgramsKeepInv, PTL

=============================================================================
