-------------------------- MODULE TaskManagerProofs --------------------------
(***************************************************************************)
(* Theorems about TaskManager, for every size of the table, every          *)
(* scheduler and every set of priorities, as long as the first task does   *)
(* not call exit().                                                        *)
(***************************************************************************)
EXTENDS TaskManager, TLAPS, WellFoundedInduction, FiniteSetTheorems

-----------------------------------------------------------------------------
(* Least and greatest elements.                                            *)

(* A set of naturals has a least element.                                  *)
LEMMA NatSetHasMin ==
  ASSUME NEW S \in SUBSET Nat, S # {}
  PROVE  \E m \in S : \A x \in S : m <= x
<1>1. PICK m \in S : \A y \in S : <<y, m>> \notin OpToRel(<, Nat)
  BY NatLessThanWellFounded, WFMin
<1>2. \A y \in S : ~ (y < m)
  BY <1>1 DEF OpToRel
<1>3. \A y \in S : y \in Nat /\ m \in Nat
  OBVIOUS
<1>. QED BY <1>2, <1>3

(* A set of indices of a table has a greatest element.                     *)
LEMMA IndexSetHasMax ==
  ASSUME NEW n \in Nat, NEW S \in SUBSET (0 .. n), S # {}
  PROVE  \E m \in S : \A x \in S : x <= m
<1>. DEFINE T == {n - i : i \in S}
<1>1. T \in SUBSET Nat
  OBVIOUS
<1>2. T # {}
  OBVIOUS
<1>3. PICK t \in T : \A x \in T : t <= x
  BY <1>1, <1>2, NatSetHasMin
<1>4. PICK m \in S : t = n - m
  OBVIOUS
<1>5. \A x \in S : n - m <= n - x
  BY <1>3, <1>4
<1>. QED BY <1>5

(* The argument that makes the table live: if the first task has not       *)
(* exited and every BLOCKED task has a later task that has not, then some  *)
(* task can run (the last of those that have not exited).                  *)
LEMMA SomeTaskCanRun ==
  ASSUME NEW n \in Nat \ {0}, NEW st,
         \A i \in 0 .. n-1 : st[i] \in {"RUNNING", "READY", "BLOCKED", "ZOMBIE"},
         st[0] # "ZOMBIE",
         \A i \in 0 .. n-1 : st[i] = "BLOCKED" =>
           \E j \in 0 .. n-1 : i < j /\ st[j] # "ZOMBIE"
  PROVE  \E i \in 0 .. n-1 : st[i] \in {"RUNNING", "READY"}
<1>. DEFINE S == {i \in 0 .. n-1 : st[i] # "ZOMBIE"}
<1>1. S \in SUBSET (0 .. n-1) /\ 0 \in S /\ n-1 \in Nat
  OBVIOUS
<1>2. PICK m \in S : \A x \in S : x <= m
  BY <1>1, IndexSetHasMax
<1>3. st[m] # "BLOCKED"
  BY <1>2
<1>. QED BY <1>3

-----------------------------------------------------------------------------
(* Schedule.  Schedulable is what every handler has made of the table when *)
(* it calls Schedule; Switched is what Schedule makes of it.               *)

CanResume(n, st) ==
  \E i \in 0 .. n-1 : st[i] = "READY" \/ (i = currentTask /\ st[i] = "RUNNING")

Schedulable(n, st, pr, cs) ==
  /\ n \in 1 .. MaxTasks
  /\ currentTask \in -1 .. n-1
  /\ esp = currentTask
  /\ taskWithDynamicPriority \in -1 .. n-1
  /\ schedulerType \in SchedulerTypes
  /\ st \in [Slots -> TaskState]
  /\ pr \in [Slots -> Nat]
  /\ cs \in [Slots -> Slots]
  /\ \A i \in 0 .. n-1 : cs[i] = i
  /\ \A i \in Slots : st[i] = "EMPTY" <=> i \notin 0 .. n-1
  /\ \A i \in 0 .. n-1 : st[i] = "RUNNING" => i = currentTask
  /\ CanResume(n, st)

Dynamic == schedulerType = "PREEMPTIVE_DYNAMIC_PRIORITY"

(* The one task that Schedule may pick whatever state it is in.            *)
MayBeBoosted(i) == Dynamic /\ i = taskWithDynamicPriority

Chosen(n, st) ==
  /\ currentTask' \in 0 .. n-1
  /\ st[currentTask'] # "ZOMBIE"
  /\ st[currentTask'] \in {"RUNNING", "READY"} \/ MayBeBoosted(currentTask')

Switched(n, st) ==
  /\ esp' = currentTask'
  /\ cpustate' \in [Slots -> Slots]
  /\ \A i \in 0 .. n-1 : cpustate'[i] = i
  /\ priority' \in [Slots -> Nat]
  /\ state' \in [Slots -> TaskState]
  /\ state'[currentTask'] \in {"RUNNING", "READY"}
  /\ \A i \in Slots : i # currentTask' =>
       state'[i] = IF st[i] = "RUNNING" THEN "READY" ELSE st[i]

(* Every scheduler that resumes a task that has not exited switches to it. *)
LEMMA ResumeSwitches ==
  ASSUME NEW n, NEW st, NEW pr, NEW cs, Schedulable(n, st, pr, cs),
         NEW next \in 0 .. n-1,
         Resume(next, cs),
         \/ state' = [Requeue(st) EXCEPT ![next] = "RUNNING"]
         \/ state' = Requeue([st EXCEPT ![next] = "RUNNING"]),
         priority' \in [Slots -> Nat]
  PROVE  currentTask' = next /\ Switched(n, st)
<1>1. /\ next \in Slots
      /\ 0 .. n-1 \subseteq Slots
      /\ currentTask >= 0 => currentTask \in 0 .. n-1 /\ currentTask \in Slots
      /\ st \in [Slots -> TaskState] /\ cs \in [Slots -> Slots]
      /\ esp = currentTask
  <2>1. n \in 1 .. MaxTasks /\ currentTask \in -1 .. n-1
    BY DEF Schedulable
  <2>2. st \in [Slots -> TaskState] /\ cs \in [Slots -> Slots] /\ esp = currentTask
    BY DEF Schedulable
  <2>3. 0 .. n-1 \subseteq Slots /\ next \in Slots
    BY <2>1, MaxTasksAssumption DEF Slots
  <2>4. currentTask >= 0 => currentTask \in 0 .. n-1 /\ currentTask \in Slots
    BY <2>1, MaxTasksAssumption DEF Slots
  <2>. QED BY <2>2, <2>3, <2>4
<1>2. /\ Save(cs) \in [Slots -> Slots]
      /\ \A i \in 0 .. n-1 : Save(cs)[i] = i
  <2>1. \A i \in 0 .. n-1 : cs[i] = i
    BY DEF Schedulable
  <2>. QED BY <1>1, <2>1 DEF Save
<1>3. currentTask' = next /\ esp' = next /\ cpustate' = Save(cs)
  BY <1>2 DEF Resume
<1>4. ASSUME NEW s \in [Slots -> TaskState]
      PROVE  /\ Requeue(s) \in [Slots -> TaskState]
             /\ \A i \in Slots : Requeue(s)[i] =
                  IF i = currentTask /\ s[i] = "RUNNING" THEN "READY" ELSE s[i]
  <2>1. CASE currentTask >= 0 /\ s[currentTask] = "RUNNING"
    BY <1>1, <2>1 DEF Requeue, TaskState
  <2>2. CASE ~ (currentTask >= 0 /\ s[currentTask] = "RUNNING")
    <3>1. \A i \in Slots : i >= 0
      BY MaxTasksAssumption DEF Slots
    <3>. QED BY <2>2, <3>1 DEF Requeue
  <2>. QED BY <2>1, <2>2
<1>5. [st EXCEPT ![next] = "RUNNING"] \in [Slots -> TaskState]
  BY <1>1 DEF TaskState
<1>6. /\ state' \in [Slots -> TaskState]
      /\ state'[next] \in {"RUNNING", "READY"}
      /\ \A i \in Slots : i # next =>
           state'[i] = IF i = currentTask /\ st[i] = "RUNNING" THEN "READY" ELSE st[i]
  <2>1. CASE state' = [Requeue(st) EXCEPT ![next] = "RUNNING"]
    <3>. DEFINE q == Requeue(st)
    <3>1. /\ q \in [Slots -> TaskState]
          /\ \A i \in Slots : q[i] =
               IF i = currentTask /\ st[i] = "RUNNING" THEN "READY" ELSE st[i]
      BY <1>1, <1>4
    <3>2. state' = [q EXCEPT ![next] = "RUNNING"]
      BY <2>1
    <3>. HIDE DEF q
    <3>. QED BY <1>1, <3>1, <3>2 DEF TaskState
  <2>2. CASE state' = Requeue([st EXCEPT ![next] = "RUNNING"])
    <3>. DEFINE r == [st EXCEPT ![next] = "RUNNING"]
    <3>1. r[next] = "RUNNING" /\ \A i \in Slots : i # next => r[i] = st[i]
      BY <1>1
    <3>2. /\ Requeue(r) \in [Slots -> TaskState]
          /\ \A i \in Slots : Requeue(r)[i] =
               IF i = currentTask /\ r[i] = "RUNNING" THEN "READY" ELSE r[i]
      BY <1>4, <1>5
    <3>3. state' = Requeue(r)
      BY <2>2
    <3>. HIDE DEF r
    <3>. QED BY <1>1, <3>1, <3>2, <3>3
  <2>. QED BY <2>1, <2>2
<1>7. \A i \in Slots : st[i] = "RUNNING" => i = currentTask
  BY DEF Schedulable
<1>. QED BY <1>1, <1>2, <1>3, <1>6, <1>7 DEF Switched

(* The round-robin scan finds a task if there is one to find: among the    *)
(* candidates, one is first on its way around the table.                   *)
LEMMA RoundRobinFindsCandidate ==
  ASSUME NEW n, NEW st, NEW pr, NEW cs, Schedulable(n, st, pr, cs),
         NEW i \in Ready(n, st), i # currentTask
  PROVE  RoundRobinChoice(n, st) # {}
<1>. DEFINE C == {j \in Ready(n, st) : j # currentTask \/ n = 1}
            D == {CyclicDistance(n, j) : j \in C}
<1>1. n \in Nat \ {0} /\ currentTask \in Int
  BY MaxTasksAssumption DEF Schedulable
<1>2. \A j \in C : j \in Int
  BY <1>1 DEF Ready
<1>3. \A j \in C : CyclicDistance(n, j) \in Nat
  BY <1>1, <1>2 DEF CyclicDistance
<1>4. D \in SUBSET Nat /\ D # {}
  BY <1>3
<1>5. PICK d \in D : \A x \in D : d <= x
  BY <1>4, NatSetHasMin
<1>6. PICK j \in C : d = CyclicDistance(n, j)
  OBVIOUS
<1>7. \A k \in C : CyclicDistance(n, j) <= CyclicDistance(n, k)
  BY <1>5, <1>6
<1>. QED BY <1>7 DEF RoundRobinChoice

LEMMA RoundRobinSwitches ==
  ASSUME NEW n, NEW st, NEW pr, NEW cs, Schedulable(n, st, pr, cs),
         RoundRobinScheduler(n, st, pr, cs)
  PROVE  Chosen(n, st) /\ Switched(n, st)
<1>1. priority' = pr /\ pr \in [Slots -> Nat]
  BY DEF RoundRobinScheduler, Schedulable
<1>2. CASE /\ RoundRobinChoice(n, st) = {} /\ currentTask >= 0
           /\ state' = st /\ cpustate' = cs
           /\ UNCHANGED <<currentTask, esp>>
  <2>1. PICK i \in 0 .. n-1 :
          st[i] = "READY" \/ (i = currentTask /\ st[i] = "RUNNING")
    BY DEF Schedulable, CanResume
  <2>2. i = currentTask
    BY <1>2, <2>1, RoundRobinFindsCandidate DEF Ready
  <2>3. st[currentTask] \in {"RUNNING", "READY"} /\ currentTask \in 0 .. n-1
    BY <2>1, <2>2
  <2>4. Chosen(n, st)
    BY <1>2, <2>3 DEF Chosen
  <2>5. \A j \in Slots : j # currentTask => st[j] # "RUNNING"
    BY DEF Schedulable
  <2>. QED BY <1>1, <1>2, <2>3, <2>4, <2>5 DEF Switched, Schedulable
<1>3. CASE \E next \in RoundRobinChoice(n, st) :
             /\ state' = [Requeue(st) EXCEPT ![next] = "RUNNING"]
             /\ Resume(next, cs)
  <2>1. PICK next \in RoundRobinChoice(n, st) :
             /\ state' = [Requeue(st) EXCEPT ![next] = "RUNNING"]
             /\ Resume(next, cs)
    BY <1>3
  <2>2. next \in 0 .. n-1 /\ st[next] = "READY"
    BY DEF RoundRobinChoice, Ready
  <2>3. currentTask' = next /\ Switched(n, st)
    BY <1>1, <2>1, <2>2, ResumeSwitches
  <2>. QED BY <2>2, <2>3 DEF Chosen
<1>. QED BY <1>2, <1>3 DEF RoundRobinScheduler

(* The preemptive scan never comes up with a task that cannot run.         *)
LEMMA PreemptiveChoiceCanRun ==
  ASSUME NEW n, NEW st, NEW pr, NEW cs, Schedulable(n, st, pr, cs),
         NEW next \in PreemptiveChoice(n, st, pr)
  PROVE  next \in 0 .. n-1 /\ st[next] \in {"RUNNING", "READY"}
<1>1. CASE Ready(n, st) = {}
  <2>1. PICK i \in 0 .. n-1 :
          st[i] = "READY" \/ (i = currentTask /\ st[i] = "RUNNING")
    BY DEF Schedulable, CanResume
  <2>2. next = currentTask
    BY <1>1 DEF PreemptiveChoice
  <2>. QED BY <1>1, <2>1, <2>2 DEF Ready
<1>2. CASE Ready(n, st) # {}
  BY <1>2 DEF PreemptiveChoice, Ready
<1>. QED BY <1>1, <1>2

LEMMA PreemptiveSwitches ==
  ASSUME NEW n, NEW st, NEW pr, NEW cs, Schedulable(n, st, pr, cs),
         PreemptiveScheduler(n, st, pr, cs)
  PROVE  Chosen(n, st) /\ Switched(n, st)
<1>1. priority' \in [Slots -> Nat]
  BY DEF PreemptiveScheduler, Schedulable
<1>2. PICK next \in PreemptiveChoice(n, st, pr) :
        /\ state' = Requeue([st EXCEPT ![next] = "RUNNING"])
        /\ Resume(next, cs)
  BY DEF PreemptiveScheduler
<1>3. next \in 0 .. n-1 /\ st[next] \in {"RUNNING", "READY"}
  BY PreemptiveChoiceCanRun
<1>4. currentTask' = next /\ Switched(n, st)
  BY <1>1, <1>2, <1>3, ResumeSwitches
<1>. QED BY <1>3, <1>4 DEF Chosen

(* The boost may select a task that is BLOCKED, but no exited one.         *)
LEMMA DynamicPrioritySwitches ==
  ASSUME NEW n, NEW st, NEW pr, NEW cs, Schedulable(n, st, pr, cs),
         Dynamic,
         PreemptiveSchedulerWithDynamicPriority(n, st, pr, cs)
  PROVE  Chosen(n, st) /\ Switched(n, st)
<1>. DEFINE Candidates(selected) ==
              IF Boosted(st, pr) = {} THEN {selected} ELSE Boosted(st, pr)
<1>1. PICK selected \in PreemptiveChoice(n, st, pr) :
        \E next \in Candidates(selected) :
          /\ priority' = IF Boosted(st, pr) = {} THEN pr ELSE [pr EXCEPT ![next] = 0]
          /\ state' = Requeue([st EXCEPT ![next] = "RUNNING"])
          /\ Resume(next, cs)
  BY DEF PreemptiveSchedulerWithDynamicPriority
<1>2. PICK next \in Candidates(selected) :
        /\ priority' = IF Boosted(st, pr) = {} THEN pr ELSE [pr EXCEPT ![next] = 0]
        /\ state' = Requeue([st EXCEPT ![next] = "RUNNING"])
        /\ Resume(next, cs)
  BY <1>1
<1>3. priority' \in [Slots -> Nat]
  BY <1>2 DEF Schedulable
<1>4. /\ next \in 0 .. n-1 /\ st[next] # "ZOMBIE"
      /\ st[next] \in {"RUNNING", "READY"} \/ MayBeBoosted(next)
  <2>1. CASE Boosted(st, pr) = {}
    BY <1>1, <1>2, <2>1, PreemptiveChoiceCanRun
  <2>2. CASE Boosted(st, pr) # {}
    BY <2>2, MaxTasksAssumption DEF Boosted, Schedulable, MayBeBoosted
  <2>. QED BY <2>1, <2>2
<1>5. currentTask' = next /\ Switched(n, st)
  BY <1>2, <1>3, <1>4, ResumeSwitches
<1>. QED BY <1>4, <1>5 DEF Chosen

(* What Schedule does to a table that has somebody to run, whichever       *)
(* scheduler is configured.                                                *)
LEMMA ScheduleSwitches ==
  ASSUME NEW n, NEW st, NEW pr, NEW cs, Schedulable(n, st, pr, cs),
         Schedule(n, st, pr, cs)
  PROVE  /\ Chosen(n, st)
         /\ Switched(n, st)
         /\ schedulerType' = schedulerType
         /\ timerInterruptCounter \in Nat
              => timerInterruptCounter' \in 0 .. CounterModulus - 1
<1>1. n > 0
  BY MaxTasksAssumption DEF Schedulable
<1>2. timerInterruptCounter \in Nat
        => timerInterruptCounter' \in 0 .. CounterModulus - 1
  BY <1>1, CounterAssumption, MaxTasksAssumption DEF Schedule, Schedulable
<1>3. CASE schedulerType = "ROUNDROBIN"
  BY <1>1, <1>2, <1>3, RoundRobinSwitches DEF Schedule, Schedulable
<1>4. CASE schedulerType = "PREEMPTIVE"
  BY <1>1, <1>2, <1>4, PreemptiveSwitches DEF Schedule, Schedulable
<1>5. CASE schedulerType = "PREEMPTIVE_DYNAMIC_PRIORITY"
  BY <1>1, <1>2, <1>5, DynamicPrioritySwitches DEF Schedule, Schedulable, Dynamic
<1>. QED BY <1>3, <1>4, <1>5 DEF Schedulable, SchedulerTypes

(* The preemptive schedulers, boosting or not, leave nobody behind a lower *)
(* priority but the task that they interrupt.                              *)
LeavesOnlyCurrent(n) ==
  schedulerType # "ROUNDROBIN" =>
    \A i \in 0 .. n-1 :
      state'[i] = "READY" /\ priority'[i] < priority'[currentTask'] => i = currentTask

LEMMA PreemptiveChoiceIsUrgent ==
  ASSUME NEW n \in 1 .. MaxTasks, NEW st, NEW pr \in [Slots -> Nat],
         NEW next \in PreemptiveChoice(n, st, pr), next \in 0 .. n-1,
         NEW i \in 0 .. n-1, st[i] = "READY"
  PROVE  ~ (pr[i] < pr[next])
<1>1. i \in Ready(n, st)
  BY DEF Ready
<1>2. Outranks(n, pr, next, i)
  BY <1>1 DEF PreemptiveChoice
<1>3. i \in Slots /\ next \in Slots
  BY MaxTasksAssumption DEF Slots
<1>4. pr[i] \in Nat /\ pr[next] \in Nat
  BY <1>3
<1>5. pr[next] < pr[i] \/ pr[next] = pr[i]
  BY <1>2 DEF Outranks
<1>. QED BY <1>4, <1>5

LEMMA ScheduleLeavesOnlyCurrent ==
  ASSUME NEW n, NEW st, NEW pr, NEW cs, Schedulable(n, st, pr, cs),
         Schedule(n, st, pr, cs)
  PROVE  LeavesOnlyCurrent(n)
<1>. SUFFICES ASSUME schedulerType # "ROUNDROBIN", NEW i \in 0 .. n-1,
                     state'[i] = "READY", priority'[i] < priority'[currentTask'],
                     i # currentTask
              PROVE  FALSE
  BY DEF LeavesOnlyCurrent
<1>1. /\ n \in 1 .. MaxTasks /\ ~(n <= 0) /\ pr \in [Slots -> Nat]
      /\ 0 .. n-1 \subseteq Slots
      /\ \A j \in 0 .. n-1 : st[j] = "RUNNING" => j = currentTask
  BY MaxTasksAssumption DEF Schedulable, Slots
<1>2. Chosen(n, st) /\ Switched(n, st)
  BY ScheduleSwitches
<1>3. /\ priority' \in [Slots -> Nat] /\ currentTask' \in 0 .. n-1
      /\ \A j \in Slots : j # currentTask' =>
           state'[j] = IF st[j] = "RUNNING" THEN "READY" ELSE st[j]
  BY <1>2 DEF Chosen, Switched
<1>4. i # currentTask'
  <2>1. priority'[currentTask'] \in Nat
    BY <1>1, <1>3
  <2>. QED BY <2>1
<1>5. st[i] = "READY"
  BY <1>1, <1>3, <1>4
<1>6. CASE PreemptiveScheduler(n, st, pr, cs)
  <2>1. currentTask' \in PreemptiveChoice(n, st, pr) /\ priority' = pr
    BY <1>6 DEF PreemptiveScheduler, Resume
  <2>. QED BY <1>1, <1>3, <1>5, <2>1, PreemptiveChoiceIsUrgent
<1>7. CASE PreemptiveSchedulerWithDynamicPriority(n, st, pr, cs)
  <2>1. CASE Boosted(st, pr) = {}
    <3>1. currentTask' \in PreemptiveChoice(n, st, pr) /\ priority' = pr
      BY <1>7, <2>1 DEF PreemptiveSchedulerWithDynamicPriority, Resume
    <3>. QED BY <1>1, <1>3, <1>5, <3>1, PreemptiveChoiceIsUrgent
  <2>2. CASE Boosted(st, pr) # {}
    <3>1. priority' = [pr EXCEPT ![currentTask'] = 0]
      BY <1>7, <2>2 DEF PreemptiveSchedulerWithDynamicPriority, Resume
    <3>2. priority'[currentTask'] = 0
      BY <1>1, <1>3, <3>1
    <3>3. priority'[i] \in Nat
      BY <1>1, <1>3
    <3>. QED BY <3>2, <3>3
  <2>. QED BY <2>1, <2>2
<1>. QED BY <1>1, <1>6, <1>7 DEF Schedule, Schedulable, SchedulerTypes

-----------------------------------------------------------------------------
(* The inductive invariant.                                                *)

(* Every BLOCKED task waits for a child that has not exited; pp and bp are *)
(* the ppid and blocking_pid of the n tasks, pid i+1 being slot i's.       *)
WaitsAreSound(n, st, pp, bp) ==
  \A i \in 0 .. n-1 : st[i] = "BLOCKED" =>
    \E j \in 0 .. n-1 :
      pp[j] = i + 1 /\ st[j] # "ZOMBIE" /\ bp[i] \in {j + 1, WAIT_ALL_CHILDREN}

(* What holds of the table before, during and after every handler.         *)
Sound(n, st, pp, bp) ==
  /\ st \in [Slots -> TaskState]
  /\ \A i \in Slots : st[i] = "EMPTY" <=> i \notin 0 .. n-1
  /\ n > 0 => st[0] # "ZOMBIE"
  /\ \A i \in 0 .. n-1 : pp[i] \in 0 .. i
  /\ WaitsAreSound(n, st, pp, bp)

(* A parent is an earlier task than its child, so the waits cannot close a *)
(* circle: in a sound table somebody can run.                              *)
LEMMA SoundTableCanRun ==
  ASSUME NEW n \in 1 .. MaxTasks, NEW st, NEW pp, NEW bp, Sound(n, st, pp, bp)
  PROVE  \E i \in 0 .. n-1 : st[i] \in {"RUNNING", "READY"}
<1>1. n \in Nat \ {0} /\ 0 .. n-1 \subseteq Slots
  BY MaxTasksAssumption DEF Slots
<1>2. \A i \in 0 .. n-1 : st[i] \in {"RUNNING", "READY", "BLOCKED", "ZOMBIE"}
  <2>. SUFFICES ASSUME NEW i \in 0 .. n-1
                PROVE  st[i] \in {"RUNNING", "READY", "BLOCKED", "ZOMBIE"}
    OBVIOUS
  <2>1. i \in Slots
    BY <1>1
  <2>2. st[i] \in TaskState /\ st[i] # "EMPTY"
    BY <2>1 DEF Sound
  <2>. QED BY <2>2 DEF TaskState
<1>3. st[0] # "ZOMBIE"
  BY <1>1 DEF Sound
<1>4. ASSUME NEW i \in 0 .. n-1, st[i] = "BLOCKED"
      PROVE  \E j \in 0 .. n-1 : i < j /\ st[j] # "ZOMBIE"
  <2>1. PICK j \in 0 .. n-1 : pp[j] = i + 1 /\ st[j] # "ZOMBIE"
    BY <1>4 DEF Sound, WaitsAreSound
  <2>2. i + 1 \in 0 .. j
    BY <2>1 DEF Sound
  <2>. QED BY <1>1, <2>1, <2>2
<1>. QED BY <1>1, <1>2, <1>3, <1>4, SomeTaskCanRun

(* A handler that has left a sound table calls Schedule, and Schedule      *)
(* leaves it sound, with the CPU in a task that can use it.                *)
Handled(n, st, pr, cs) ==
  /\ n \in 1 .. MaxTasks
  /\ currentTask \in -1 .. n-1
  /\ esp = currentTask
  /\ taskWithDynamicPriority \in -1 .. n-1
  /\ schedulerType \in SchedulerTypes
  /\ timerInterruptCounter \in Nat
  /\ pr \in [Slots -> Nat]
  /\ cs \in [Slots -> Slots]
  /\ \A i \in 0 .. n-1 : cs[i] = i
  /\ \A i \in 0 .. n-1 : st[i] = "RUNNING" => i = currentTask

Finished(n, st, pp, bp) ==
  /\ Chosen(n, st) /\ Switched(n, st) /\ LeavesOnlyCurrent(n)
  /\ schedulerType' = schedulerType
  /\ timerInterruptCounter' \in 0 .. CounterModulus - 1
  /\ Sound(n, state', pp, bp)
  /\ \A i \in Slots : state'[i] = "RUNNING" => i = currentTask'
  /\ \A i \in Slots : st[i] = "ZOMBIE" => state'[i] = "ZOMBIE"
  /\ \A i \in Slots : st[i] = "BLOCKED" => state'[i] = "BLOCKED" \/ MayBeBoosted(i)

LEMMA ScheduleKeepsSound ==
  ASSUME NEW n, NEW st, NEW pr, NEW cs, NEW pp, NEW bp,
         Handled(n, st, pr, cs), Sound(n, st, pp, bp),
         Schedule(n, st, pr, cs)
  PROVE  Finished(n, st, pp, bp)
<1>1. n \in 1 .. MaxTasks /\ 0 .. n-1 \subseteq Slots /\ 0 \in 0 .. n-1 /\ n > 0
  BY MaxTasksAssumption DEF Handled, Slots
<1>2. CanResume(n, st)
  BY <1>1, SoundTableCanRun DEF CanResume, Handled
<1>3. Schedulable(n, st, pr, cs)
  BY <1>2 DEF Schedulable, Handled, Sound
<1>4. /\ Chosen(n, st) /\ Switched(n, st) /\ LeavesOnlyCurrent(n)
      /\ schedulerType' = schedulerType
      /\ timerInterruptCounter' \in 0 .. CounterModulus - 1
  BY <1>3, ScheduleSwitches, ScheduleLeavesOnlyCurrent DEF Handled
<1>5. /\ currentTask' \in 0 .. n-1 /\ st[currentTask'] # "ZOMBIE"
      /\ state'[currentTask'] \in {"RUNNING", "READY"}
      /\ \A i \in Slots : i # currentTask' =>
           state'[i] = IF st[i] = "RUNNING" THEN "READY" ELSE st[i]
  BY <1>4 DEF Chosen, Switched
<1>6. \A i \in Slots : state'[i] = "ZOMBIE" <=> st[i] = "ZOMBIE"
  BY <1>5
<1>7. \A i \in Slots : state'[i] = "BLOCKED" => st[i] = "BLOCKED"
  BY <1>5
<1>8. \A i \in Slots : state'[i] = "EMPTY" <=> i \notin 0 .. n-1
  BY <1>1, <1>5 DEF Sound
<1>9. WaitsAreSound(n, state', pp, bp)
  <2>. SUFFICES ASSUME NEW i \in 0 .. n-1, state'[i] = "BLOCKED"
                PROVE  \E j \in 0 .. n-1 : /\ pp[j] = i + 1 /\ state'[j] # "ZOMBIE"
                                           /\ bp[i] \in {j + 1, WAIT_ALL_CHILDREN}
    BY DEF WaitsAreSound
  <2>1. st[i] = "BLOCKED"
    BY <1>1, <1>7
  <2>2. PICK j \in 0 .. n-1 : /\ pp[j] = i + 1 /\ st[j] # "ZOMBIE"
                              /\ bp[i] \in {j + 1, WAIT_ALL_CHILDREN}
    BY <2>1 DEF Sound, WaitsAreSound
  <2>. QED BY <1>1, <1>6, <2>2
<1>10. state'[0] # "ZOMBIE"
  BY <1>1, <1>6 DEF Sound
<1>11. Sound(n, state', pp, bp)
  BY <1>4, <1>8, <1>9, <1>10 DEF Sound, Switched
<1>12. \A i \in Slots : state'[i] = "RUNNING" => i = currentTask'
  BY <1>5
<1>13. \A i \in Slots : st[i] = "BLOCKED" => state'[i] = "BLOCKED" \/ MayBeBoosted(i)
  BY <1>4, <1>5 DEF Chosen
<1>. QED BY <1>4, <1>6, <1>11, <1>12, <1>13 DEF Finished

(* Slot i holds pid i + 1: slots are handed out in order and never reused. *)
Numbered ==
  /\ pidCounter = numTasks + 1
  /\ \A i \in Live : pid[i] = i + 1

(* Before the first switch there is at most the first task, and it is      *)
(* READY.                                                                  *)
BootShape ==
  /\ currentTask = -1 => numTasks <= 1 /\ (numTasks = 1 => state[0] = "READY")
  /\ numTasks = 0 => ppid[0] = 0

(* Who waits behind a lower priority is the task that was interrupted last.*)
OneIsBehind ==
  currentTask >= 0 /\ schedulerType # "ROUNDROBIN" =>
    \E t : \A i \in Live :
      state[i] = "READY" /\ priority[i] < priority[currentTask] => i = t

BlockingPids == 1 .. MaxTasks \cup {WAIT_ALL_CHILDREN, NOT_BLOCKED}

(* What TypeOK says of the table; what the calls leave in the registers is *)
(* the caller's affair.                                                    *)
TableTypes ==
  /\ active \in BOOLEAN
  /\ schedulerType \in SchedulerTypes
  /\ numTasks \in 0 .. MaxTasks
  /\ currentTask \in -1 .. numTasks - 1
  /\ esp \in -1 .. numTasks - 1
  /\ taskWithDynamicPriority \in -1 .. numTasks - 1
  /\ timerInterruptCounter \in 0 .. CounterModulus - 1
  /\ pidCounter \in Nat
  /\ state \in [Slots -> TaskState]
  /\ \A i \in Slots : state[i] = "EMPTY" <=> i \notin Live
  /\ pid \in [Slots -> Nat]
  /\ ppid \in [Slots -> Nat]
  /\ blocking_pid \in [Slots -> BlockingPids]
  /\ priority \in [Slots -> Nat]
  /\ cpustate \in [Slots -> Slots]

(* The invariant of the table, whatever programs make the calls.           *)
TableInv ==
  /\ TableTypes
  /\ Numbered
  /\ Sound(numTasks, state, ppid, blocking_pid)
  /\ OwnStack
  /\ OnlyCurrentRuns
  /\ CpuOwnerCanRun
  /\ BootShape
  /\ OneIsBehind

LEMMA TaskCount ==
  ASSUME NEW n \in 1 .. MaxTasks
  PROVE  /\ n \in 0 .. MaxTasks /\ n + 1 \in Nat
         /\ 0 .. n-1 \subseteq Slots /\ 0 .. n-1 \subseteq -1 .. n-1
  BY MaxTasksAssumption DEF Slots

(* The invariant, put together again from what Schedule guarantees and     *)
(* from the fields that the handlers change themselves.                    *)
LEMMA FinishedHandlerKeepsInv ==
  ASSUME NEW st, Finished(numTasks', st, ppid', blocking_pid'),
         numTasks' \in 1 .. MaxTasks, active' \in BOOLEAN,
         schedulerType \in SchedulerTypes,
         taskWithDynamicPriority' \in -1 .. numTasks' - 1,
         pidCounter' = numTasks' + 1,
         pid' \in [Slots -> Nat], \A i \in 0 .. numTasks' - 1 : pid'[i] = i + 1,
         ppid' \in [Slots -> Nat],
         blocking_pid' \in [Slots -> BlockingPids]
  PROVE  TableInv'
<1>1. /\ currentTask' \in 0 .. numTasks' - 1 /\ esp' = currentTask'
      /\ state'[currentTask'] \in {"RUNNING", "READY"}
      /\ cpustate' \in [Slots -> Slots] /\ priority' \in [Slots -> Nat]
      /\ \A i \in 0 .. numTasks' - 1 : cpustate'[i] = i
      /\ timerInterruptCounter' \in 0 .. CounterModulus - 1
  BY DEF Finished, Switched, Chosen
<1>2. /\ Sound(numTasks', state', ppid', blocking_pid')
      /\ \A i \in Slots : state'[i] = "RUNNING" => i = currentTask'
  BY DEF Finished
<1>3. /\ state' \in [Slots -> TaskState]
      /\ \A i \in Slots : state'[i] = "EMPTY" <=> i \notin 0 .. numTasks' - 1
  BY <1>2 DEF Sound
<1>4. 0 .. numTasks' - 1 \subseteq Slots
  BY TaskCount
<1>5. TableTypes'
  <2>1. /\ currentTask' \in -1 .. numTasks' - 1 /\ esp' \in -1 .. numTasks' - 1
        /\ numTasks' \in 0 .. MaxTasks /\ pidCounter' \in Nat
    BY <1>1, TaskCount
  <2>2. schedulerType' \in SchedulerTypes
    BY DEF Finished
  <2>. QED BY <1>1, <1>3, <2>1, <2>2 DEF TableTypes, Live
<1>6. Numbered' /\ OwnStack' /\ OnlyCurrentRuns'
  BY <1>1, <1>2, <1>4 DEF Numbered, OwnStack, OnlyCurrentRuns, Live
<1>7. CpuOwnerCanRun'
  BY <1>1 DEF CpuOwnerCanRun
<1>8. BootShape'
  BY <1>1 DEF BootShape
<1>9. OneIsBehind'
  BY DEF OneIsBehind, Live, Finished, LeavesOnlyCurrent
<1>. QED BY <1>2, <1>5, <1>6, <1>7, <1>8, <1>9 DEF TableInv

(* What a handler may rely on when it calls Schedule on the table it found.*)
LEMMA InvHandled ==
  ASSUME TableInv, numTasks > 0
  PROVE  /\ Handled(numTasks, state, priority, cpustate)
         /\ numTasks \in 1 .. MaxTasks
         /\ active \in BOOLEAN
         /\ schedulerType \in SchedulerTypes
         /\ taskWithDynamicPriority \in -1 .. numTasks - 1
         /\ pidCounter = numTasks + 1
         /\ pid \in [Slots -> Nat] /\ \A i \in 0 .. numTasks - 1 : pid[i] = i + 1
         /\ ppid \in [Slots -> Nat]
         /\ blocking_pid \in [Slots -> BlockingPids]
         /\ Sound(numTasks, state, ppid, blocking_pid)
<1>1. numTasks \in 1 .. MaxTasks /\ timerInterruptCounter \in Nat
  BY MaxTasksAssumption, CounterAssumption DEF TableInv, TableTypes
<1>2. schedulerType \in SchedulerTypes
  BY DEF TableInv, TableTypes
<1>3. Handled(numTasks, state, priority, cpustate)
  BY <1>1, <1>2 DEF TableInv, TableTypes, OwnStack, OnlyCurrentRuns, Handled, Live
<1>. QED BY <1>1, <1>3 DEF TableInv, TableTypes, Numbered, Live

(* The linear search for a pid finds the slot that the pid numbers.        *)
LEMMA FindTaskFindsSlot ==
  ASSUME TableInv, NEW p
  PROVE  FindTask(p) = {i \in Live : i + 1 = p}
<1>1. numTasks \in Nat /\ \A i \in 0 .. numTasks - 1 : pid[i] = i + 1
  BY DEF TableInv, TableTypes, Numbered, Live
<1>2. \A i \in Live : \A j \in 0 .. i-1 : pid[i] # pid[j]
  BY <1>1 DEF Live
<1>. QED BY <1>1, <1>2 DEF FindTask, Live

(* The task that makes a system call.                                      *)
LEMMA CallerIsLive ==
  ASSUME TableInv, UserMode
  PROVE  /\ currentTask \in Live /\ currentTask \in Slots /\ numTasks > 0
         /\ numTasks \in 1 .. MaxTasks /\ esp = currentTask
         /\ state[currentTask] \in {"RUNNING", "READY"}
  BY MaxTasksAssumption
     DEF TableInv, TableTypes, UserMode, Live, Slots, OwnStack, CpuOwnerCanRun

-----------------------------------------------------------------------------
(* Every action keeps the invariant, takes no task out of ZOMBIE and, exit *)
(* and the boost aside, none out of BLOCKED.                               *)

BlockedStaysBlocked ==
  \A i \in Slots : state[i] = "BLOCKED" => state'[i] = "BLOCKED" \/ MayBeBoosted(i)

Kept == TableInv' /\ ZombieStaysZombie /\ BlockedStaysBlocked

LEMMA InitEstablishes == Init => TableInv
<1>. SUFFICES ASSUME Init PROVE TableInv
  OBVIOUS
<1>. USE MaxTasksAssumption, SentinelAssumption, CounterAssumption
<1>1. numTasks = 0 /\ 0 .. numTasks - 1 = {}
  BY DEF Init
<1>2. TableTypes
  <2>2. cpustate \in [Slots -> Slots] /\ state \in [Slots -> TaskState]
    BY DEF Init, TaskState
  <2>3. blocking_pid \in [Slots -> BlockingPids]
    BY DEF Init, BlockingPids
  <2>4. \A i \in Slots : state[i] = "EMPTY" <=> i \notin Live
    BY <1>1 DEF Init, Live
  <2>5. /\ pid \in [Slots -> Nat] /\ ppid \in [Slots -> Nat]
        /\ priority \in [Slots -> Nat]
    BY DEF Init
  <2>6. active \in BOOLEAN
    BY Zenon DEF Init
  <2>7. -1 \in -1 .. 0 - 1
    OBVIOUS
  <2>8. /\ currentTask \in -1 .. numTasks - 1 /\ esp \in -1 .. numTasks - 1
        /\ taskWithDynamicPriority \in -1 .. numTasks - 1
    BY <2>7 DEF Init
  <2>9. pidCounter \in Nat
    BY DEF Init
  <2>10. schedulerType \in SchedulerTypes
    BY DEF Init, SchedulerTypes
  <2>11. numTasks \in 0 .. MaxTasks /\ timerInterruptCounter \in 0 .. CounterModulus - 1
    BY DEF Init
  <2>. QED BY <2>2, <2>3, <2>4, <2>5, <2>6, <2>8, <2>9, <2>10, <2>11
           DEF TableTypes
<1>3. Numbered /\ OwnStack /\ OnlyCurrentRuns /\ CpuOwnerCanRun /\ BootShape /\ OneIsBehind
  BY <1>1 DEF Init, Slots, Numbered, OwnStack, OnlyCurrentRuns, CpuOwnerCanRun, BootShape,
              OneIsBehind, Live
<1>4. Sound(numTasks, state, ppid, blocking_pid)
  BY <1>1, <1>2 DEF Sound, WaitsAreSound, TableTypes, Live
<1>. QED BY <1>2, <1>3, <1>4 DEF TableInv

LEMMA AddTaskKeeps ==
  ASSUME TableInv, numTasks = 0, AddTask, schedulerType' \in SchedulerTypes
  PROVE  Kept
<1>. USE MaxTasksAssumption
<1>1. /\ numTasks = 0 /\ numTasks' = 1 /\ Live' = {0} /\ 0 \in Slots
      /\ pidCounter = 1 /\ pidCounter' = 2
  BY DEF TableInv, Numbered, AddTask, TakePid, Live, Slots
<1>2. /\ currentTask = -1 /\ esp = -1 /\ taskWithDynamicPriority = -1
      /\ UNCHANGED <<active, currentTask, taskWithDynamicPriority, esp, ppid,
                     timerInterruptCounter, blocking_pid, priority>>
  BY <1>1 DEF TableInv, TableTypes, AddTask
<1>3. /\ pid'      = [pid EXCEPT ![0] = 1]
      /\ state'    = [state EXCEPT ![0] = "READY"]
      /\ cpustate' = [cpustate EXCEPT ![0] = 0]
  BY <1>1 DEF AddTask
<1>4. /\ state \in [Slots -> TaskState] /\ pid \in [Slots -> Nat]
      /\ cpustate \in [Slots -> Slots]
      /\ \A i \in Slots : state[i] = "EMPTY"
  BY <1>1 DEF TableInv, TableTypes, Live
<1>5. /\ state' \in [Slots -> TaskState]
      /\ \A i \in Slots : state'[i] = IF i = 0 THEN "READY" ELSE "EMPTY"
  BY <1>1, <1>3, <1>4 DEF TaskState
<1>6. TableTypes'
  <2>2. pid' \in [Slots -> Nat] /\ cpustate' \in [Slots -> Slots]
    BY <1>1, <1>3, <1>4
  <2>3. \A i \in Slots : state'[i] = "EMPTY" <=> i \notin Live'
    BY <1>1, <1>5
  <2>. QED BY <1>1, <1>2, <1>5, <2>2, <2>3 DEF TableInv, TableTypes
<1>7. /\ Numbered' /\ OwnStack' /\ OnlyCurrentRuns' /\ CpuOwnerCanRun' /\ BootShape'
      /\ OneIsBehind'
  BY <1>1, <1>2, <1>3, <1>4, <1>5
     DEF Numbered, OwnStack, OnlyCurrentRuns, CpuOwnerCanRun, BootShape, OneIsBehind
<1>8. ppid[0] = 0
  BY <1>1 DEF TableInv, BootShape
<1>9. Sound(numTasks', state', ppid', blocking_pid')
  BY <1>1, <1>2, <1>5, <1>8 DEF Sound, WaitsAreSound, Live
<1>. QED BY <1>4, <1>6, <1>7, <1>9
        DEF TableInv, Kept, ZombieStaysZombie, BlockedStaysBlocked

LEMMA ActivateKeeps ==
  ASSUME TableInv, Activate
  PROVE  Kept
  BY DEF Activate, TableInv, TableTypes, Numbered, OwnStack, OnlyCurrentRuns,
         CpuOwnerCanRun, BootShape, OneIsBehind, Live, tableVars,
         Kept, ZombieStaysZombie, BlockedStaysBlocked

LEMMA TimerInterruptKeeps ==
  ASSUME TableInv, TimerInterrupt
  PROVE  Kept
<1>1. CASE numTasks = 0
  <2>1. UNCHANGED <<numTasks, currentTask, taskWithDynamicPriority, tableVars,
                    active, schedulerType, timerInterruptCounter, pidCounter, regs, esp>>
    BY <1>1 DEF TimerInterrupt, Schedule, tableVars
  <2>. QED BY <2>1 DEF TableInv, TableTypes, Numbered, OwnStack, OnlyCurrentRuns,
                       CpuOwnerCanRun, BootShape, OneIsBehind, Live, tableVars,
                       Kept, ZombieStaysZombie, BlockedStaysBlocked
<1>2. CASE numTasks > 0
  <2>1. Finished(numTasks, state, ppid, blocking_pid)
    BY <1>2, InvHandled, ScheduleKeepsSound DEF TimerInterrupt
  <2>2. TableInv'
    BY <1>2, <2>1, InvHandled, FinishedHandlerKeepsInv DEF TimerInterrupt
  <2>. QED BY <2>1, <2>2
           DEF Finished, Kept, ZombieStaysZombie, BlockedStaysBlocked
<1>. QED BY <1>1, <1>2 DEF TableInv, TableTypes

LEMMA NoScheduleKeeps ==
  ASSUME TableInv, NoSchedule,
         taskWithDynamicPriority' \in -1 .. numTasks - 1
  PROVE  Kept
  BY DEF NoSchedule, TableInv, TableTypes, Numbered, OwnStack, OnlyCurrentRuns,
         CpuOwnerCanRun, BootShape, OneIsBehind, Live, tableVars,
         Kept, ZombieStaysZombie, BlockedStaysBlocked

LEMMA ExecKeeps ==
  ASSUME TableInv, NEW program, Exec(program)
  PROVE  Kept
  BY NoScheduleKeeps DEF Exec, TableInv, TableTypes

LEMMA ReportKeeps ==
  ASSUME TableInv, NEW call, NEW ret, Report(call, ret)
  PROVE  Kept
  BY NoScheduleKeeps DEF Report, TableInv, TableTypes

LEMMA UseDynamicPriorityKeeps ==
  ASSUME TableInv, NEW ret, UseDynamicPriority(ret)
  PROVE  Kept /\ taskWithDynamicPriority' = currentTask
<1>1. /\ numTasks \in 1 .. MaxTasks /\ currentTask \in Live
      /\ pid[currentTask] = currentTask + 1
  <2>1. numTasks \in 1 .. MaxTasks /\ currentTask \in Live
    BY CallerIsLive DEF UseDynamicPriority
  <2>. QED BY <2>1 DEF TableInv, Numbered
<1>2. taskWithDynamicPriority' \in {i \in Live : i + 1 = currentTask + 1}
  BY <1>1, FindTaskFindsSlot DEF UseDynamicPriority
<1>3. taskWithDynamicPriority' = currentTask
  <2>1. \A i \in Live : i \in Int
    BY DEF Live
  <2>. QED BY <1>1, <1>2, <2>1
<1>4. taskWithDynamicPriority' \in -1 .. numTasks - 1
  BY <1>1, <1>3, MaxTasksAssumption DEF Live
<1>. QED BY <1>3, <1>4, NoScheduleKeeps DEF UseDynamicPriority

(* A fork that finds a free slot adds a child of the caller to the table   *)
(* and leaves it sound.                                                    *)
ForkedTable == [state EXCEPT ![numTasks] = "READY"]

LEMMA ForkFinished ==
  ASSUME TableInv, NEW prio \in Nat \cup {Inherit}, NEW ret, Fork(prio, ret),
         numTasks < MaxTasks
  PROVE  /\ Finished(numTasks + 1, ForkedTable, ppid', blocking_pid')
         /\ numTasks' = numTasks + 1 /\ numTasks' \in 1 .. MaxTasks
         /\ \A i \in Slots :
              ForkedTable[i] = IF i = numTasks THEN "READY" ELSE state[i]
         /\ pid' \in [Slots -> Nat] /\ \A i \in 0 .. numTasks : pid'[i] = i + 1
         /\ ppid' = [ppid EXCEPT ![numTasks] = currentTask + 1]
         /\ ppid' \in [Slots -> Nat]
         /\ blocking_pid' \in [Slots -> BlockingPids]
         /\ active' \in BOOLEAN /\ pidCounter' = numTasks' + 1
         /\ taskWithDynamicPriority' \in -1 .. numTasks' - 1
<1>1. /\ currentTask \in Live /\ currentTask \in Slots /\ numTasks > 0
  BY CallerIsLive DEF Fork
<1>2. /\ UNCHANGED <<active, taskWithDynamicPriority, blocking_pid>>
      /\ taskWithDynamicPriority \in -1 .. numTasks - 1
  BY DEF Fork, TableInv, TableTypes
<1>3. numTasks < MaxTasks /\ numTasks' = numTasks + 1
  <2>1. ~ (numTasks >= MaxTasks)
    BY MaxTasksAssumption DEF TableInv, TableTypes
  <2>. QED BY <2>1 DEF Fork, ForkTask
<1>. DEFINE child == numTasks
            n == numTasks + 1
            inherited == IF prio = Inherit THEN priority[currentTask] ELSE prio
            st == [state EXCEPT ![child] = "READY"]
            pr == [priority EXCEPT ![child] = inherited]
            cs == [cpustate EXCEPT ![child] = child + (esp - currentTask)]
<1>4. /\ pid'  = [pid EXCEPT ![child] = pidCounter]
      /\ ppid' = [ppid EXCEPT ![child] = pid[currentTask]]
      /\ regs' = [Return(ret, pidCounter) EXCEPT
                    ![child] = [eip |-> ret, ecx |-> 0]]
      /\ Schedule(n, st, pr, cs)
      /\ pidCounter' = pidCounter + 1
  <2>1. ~ (numTasks >= MaxTasks)
    BY <1>3, MaxTasksAssumption DEF TableInv, TableTypes
  <2>. QED BY <2>1 DEF Fork, ForkTask, TakePid
<1>5. /\ numTasks \in Nat /\ n \in 1 .. MaxTasks /\ child \in Slots
      /\ 0 .. n-1 = Live \cup {child} /\ child \notin Live
      /\ Live = 0 .. numTasks - 1
  <2>1. numTasks \in 0 .. MaxTasks
    BY DEF TableInv, TableTypes
  <2>2. numTasks \in Nat /\ n \in 1 .. MaxTasks /\ child \in Slots
    BY <1>3, <2>1, MaxTasksAssumption DEF Slots
  <2>3. 0 .. n-1 = (0 .. numTasks - 1) \cup {child}
    BY <2>2
  <2>4. child \notin 0 .. numTasks - 1
    BY <2>2
  <2>. QED BY <2>2, <2>3, <2>4 DEF Live
<1>6. /\ state \in [Slots -> TaskState] /\ priority \in [Slots -> Nat]
      /\ cpustate \in [Slots -> Slots] /\ pid \in [Slots -> Nat]
      /\ ppid \in [Slots -> Nat] /\ blocking_pid \in [Slots -> BlockingPids]
      /\ pidCounter = numTasks + 1 /\ timerInterruptCounter \in Nat
      /\ \A i \in Live : pid[i] = i + 1
      /\ esp = currentTask /\ \A i \in Live : cpustate[i] = i
      /\ \A i \in Live : state[i] = "RUNNING" => i = currentTask
      /\ schedulerType \in SchedulerTypes
  BY <1>1, InvHandled, CounterAssumption
     DEF TableInv, TableTypes, Numbered, OwnStack, OnlyCurrentRuns, Handled
<1>7. inherited \in Nat
  BY <1>1, <1>6
<1>8. pr \in [Slots -> Nat]
  BY <1>6, <1>7
<1>9. cs \in [Slots -> Slots] /\ \A i \in 0 .. n-1 : cs[i] = i
  <2>1. child + (esp - currentTask) = child
    BY <1>1, <1>5, <1>6 DEF Slots
  <2>. QED BY <1>5, <1>6, <2>1
<1>10. /\ st \in [Slots -> TaskState]
       /\ \A i \in Slots : st[i] = IF i = child THEN "READY" ELSE state[i]
  BY <1>5, <1>6 DEF TaskState
<1>11. \A i \in Live : i \in Slots /\ i # child
  BY <1>5, MaxTasksAssumption DEF Slots
<1>12. Handled(n, st, pr, cs)
  <2>1. currentTask \in -1 .. n-1 /\ taskWithDynamicPriority \in -1 .. n-1
    BY <1>1, <1>2, <1>5
  <2>2. \A i \in 0 .. n-1 : st[i] = "RUNNING" => i = currentTask
    BY <1>5, <1>6, <1>10, <1>11
  <2>. HIDE DEF st, pr, cs
  <2>. QED BY <1>5, <1>6, <1>8, <1>9, <2>1, <2>2 DEF Handled
<1>13. /\ pid' \in [Slots -> Nat] /\ \A i \in 0 .. n-1 : pid'[i] = i + 1
       /\ ppid' \in [Slots -> Nat]
       /\ ppid'[child] = currentTask + 1 /\ \A i \in Live : ppid'[i] = ppid[i]
  <2>1. pidCounter \in Nat /\ pid[currentTask] = currentTask + 1
    BY <1>1, <1>5, <1>6
  <2>2. pid' \in [Slots -> Nat] /\ ppid' \in [Slots -> Nat]
    BY <1>1, <1>4, <1>5, <1>6, <2>1
  <2>3. pid'[child] = child + 1 /\ \A i \in Live : pid'[i] = pid[i]
    BY <1>4, <1>5, <1>6, <1>11
  <2>4. ppid'[child] = currentTask + 1 /\ \A i \in Live : ppid'[i] = ppid[i]
    BY <1>4, <1>5, <1>6, <1>11, <2>1
  <2>. QED BY <1>5, <1>6, <2>2, <2>3, <2>4
<1>14. Sound(n, st, ppid', blocking_pid')
  <2>1. \A i \in Slots : st[i] = "EMPTY" <=> i \notin 0 .. n-1
    BY <1>5, <1>10 DEF TableInv, Sound
  <2>2. st[0] # "ZOMBIE"
    BY <1>1, <1>5, <1>10, <1>11 DEF TableInv, Sound
  <2>3. \A i \in 0 .. n-1 : ppid'[i] \in 0 .. i
    <3>1. \A i \in Live : ppid[i] \in 0 .. i
      BY <1>5 DEF TableInv, Sound
    <3>2. currentTask + 1 \in 0 .. child
      BY <1>1, <1>5
    <3>. QED BY <1>5, <1>13, <3>1, <3>2
  <2>4. WaitsAreSound(n, st, ppid', blocking_pid')
    <3>. SUFFICES ASSUME NEW i \in 0 .. n-1, st[i] = "BLOCKED"
                  PROVE  \E j \in 0 .. n-1 :
                           /\ ppid'[j] = i + 1 /\ st[j] # "ZOMBIE"
                           /\ blocking_pid'[i] \in {j + 1, WAIT_ALL_CHILDREN}
      BY DEF WaitsAreSound
    <3>1. i \in Live /\ state[i] = "BLOCKED"
      BY <1>5, <1>10, <1>11
    <3>2. PICK j \in Live : /\ ppid[j] = i + 1 /\ state[j] # "ZOMBIE"
                            /\ blocking_pid[i] \in {j + 1, WAIT_ALL_CHILDREN}
      BY <1>5, <3>1 DEF TableInv, Sound, WaitsAreSound
    <3>. QED BY <1>2, <1>5, <1>10, <1>11, <1>13, <3>2
  <2>. HIDE DEF st
  <2>. QED BY <1>10, <2>1, <2>2, <2>3, <2>4 DEF Sound
<1>15. Finished(n, st, ppid', blocking_pid')
  <2>. HIDE DEF st, pr, cs, n
  <2>. QED BY <1>4, <1>12, <1>14, ScheduleKeepsSound
<1>17. /\ numTasks' \in 1 .. MaxTasks /\ numTasks' = n
       /\ active' \in BOOLEAN /\ pidCounter' = n + 1
       /\ taskWithDynamicPriority' \in -1 .. n - 1
       /\ blocking_pid' \in [Slots -> BlockingPids]
  <2>1. active' \in BOOLEAN
    BY <1>2 DEF TableInv, TableTypes
  <2>2. taskWithDynamicPriority' \in -1 .. n - 1
    BY <1>2, <1>5
  <2>. QED BY <1>2, <1>3, <1>4, <1>5, <1>6, <2>1, <2>2
<1>18. ForkedTable = st
  BY DEF ForkedTable
<1>19. ppid' = [ppid EXCEPT ![numTasks] = currentTask + 1]
  BY <1>1, <1>4, <1>6
<1>20. 0 .. n-1 = 0 .. numTasks /\ numTasks' - 1 = n - 1
  BY <1>5, <1>17
<1>. HIDE DEF st, pr, cs
<1>. QED BY <1>10, <1>13, <1>15, <1>17, <1>18, <1>19, <1>20

LEMMA ForkKeeps ==
  ASSUME TableInv, NEW prio \in Nat \cup {Inherit}, NEW ret, Fork(prio, ret)
  PROVE  Kept
<1>1. /\ currentTask \in Live /\ currentTask \in Slots /\ numTasks > 0
  BY CallerIsLive DEF Fork
<1>2. /\ UNCHANGED <<active, taskWithDynamicPriority, blocking_pid>>
      /\ taskWithDynamicPriority \in -1 .. numTasks - 1
  BY DEF Fork, TableInv, TableTypes
<1>3. CASE /\ numTasks >= MaxTasks
           /\ regs' = Return(ret, Failed)
           /\ Schedule(numTasks, state, priority, cpustate)
           /\ UNCHANGED <<numTasks, pidCounter, pid, ppid>>
  <2>1. Finished(numTasks, state, ppid, blocking_pid)
    BY <1>1, <1>3, InvHandled, ScheduleKeepsSound
  <2>3. TableInv'
    BY <1>1, <1>2, <1>3, <2>1, InvHandled, FinishedHandlerKeepsInv
  <2>. QED BY <2>1, <2>3
           DEF Finished, Kept, ZombieStaysZombie, BlockedStaysBlocked
<1>4. CASE numTasks < MaxTasks
  <2>1. Finished(numTasks', ForkedTable, ppid', blocking_pid')
    BY <1>4, ForkFinished
  <2>2. TableInv'
    BY <1>1, <1>4, <2>1, ForkFinished, InvHandled, FinishedHandlerKeepsInv
  <2>3. \A i \in Slots : state[i] \in {"ZOMBIE", "BLOCKED"} => ForkedTable[i] = state[i]
    <3>1. numTasks \in Slots => state[numTasks] = "EMPTY"
      BY DEF TableInv, TableTypes, Live
    <3>. QED BY <1>4, <3>1, ForkFinished
  <2>. QED BY <2>1, <2>2, <2>3
           DEF Finished, Kept, ZombieStaysZombie, BlockedStaysBlocked
<1>. QED BY <1>3, <1>4 DEF Fork, ForkTask

(* wait() with something to wait for.                                      *)
BlockedTable == [state EXCEPT ![currentTask] = "BLOCKED"]

LEMMA AwaitFinished ==
  ASSUME TableInv, NEW target \in WaitTargets, NEW ret, Awaitable(target),
         Wait(target, ret)
  PROVE  /\ Finished(numTasks, BlockedTable, ppid, blocking_pid')
         /\ blocking_pid' \in [Slots -> BlockingPids]
         /\ BlockedTable[currentTask] = "BLOCKED"
         /\ \A i \in Slots : i # currentTask => BlockedTable[i] = state[i]
         /\ state[currentTask] # "ZOMBIE"
<1>1. /\ currentTask \in Live /\ currentTask \in Slots /\ numTasks > 0
  BY CallerIsLive DEF Wait
<1>2. /\ Awaitable(target)
      /\ blocking_pid' = [blocking_pid EXCEPT ![currentTask] = target]
      /\ regs' = Return(ret, 0)
      /\ Schedule(numTasks, BlockedTable, priority, cpustate)
  BY DEF Wait, BlockedTable
<1>. DEFINE st == [state EXCEPT ![currentTask] = "BLOCKED"]
<1>3. /\ Handled(numTasks, state, priority, cpustate)
      /\ numTasks \in 1 .. MaxTasks /\ blocking_pid \in [Slots -> BlockingPids]
      /\ Sound(numTasks, state, ppid, blocking_pid)
      /\ Live = 0 .. numTasks - 1 /\ Live \subseteq Slots
      /\ \A i \in Live : pid[i] = i + 1
  BY <1>1, InvHandled, TaskCount DEF Live
<1>4. /\ st \in [Slots -> TaskState]
      /\ \A i \in Slots : st[i] = IF i = currentTask THEN "BLOCKED" ELSE state[i]
  BY <1>1, <1>3 DEF Sound, TaskState
<1>5. Handled(numTasks, st, priority, cpustate)
  BY <1>3, <1>4 DEF Handled
<1>6. PICK child \in Live : /\ ppid[child] = currentTask + 1
                            /\ state[child] # "ZOMBIE"
                            /\ target \in {child + 1, WAIT_ALL_CHILDREN}
  <2>1. CASE target = WAIT_ALL_CHILDREN
    BY <1>1, <1>2, <1>3, <2>1 DEF Awaitable, IsThereAliveChild
  <2>2. CASE target # WAIT_ALL_CHILDREN
    BY <1>1, <1>2, <1>3, <2>2, FindTaskFindsSlot DEF Awaitable
  <2>. QED BY <2>1, <2>2
<1>7. target \in BlockingPids
  BY <1>3, <1>6, MaxTasksAssumption DEF BlockingPids, WaitTargets
<1>8. /\ blocking_pid' \in [Slots -> BlockingPids]
      /\ \A i \in Slots : blocking_pid'[i] =
           IF i = currentTask THEN target ELSE blocking_pid[i]
  BY <1>1, <1>2, <1>3, <1>7
<1>9. Sound(numTasks, st, ppid, blocking_pid')
  <2>1. \A i \in Slots : st[i] = "EMPTY" <=> i \notin 0 .. numTasks - 1
    BY <1>1, <1>3, <1>4 DEF Sound
  <2>2. st[0] # "ZOMBIE"
    BY <1>1, <1>3, <1>4 DEF Sound
  <2>3. \A i \in Slots : state[i] # "ZOMBIE" => st[i] # "ZOMBIE"
    BY <1>4
  <2>4. WaitsAreSound(numTasks, st, ppid, blocking_pid')
    <3>. SUFFICES ASSUME NEW i \in Live, st[i] = "BLOCKED"
                  PROVE  \E j \in Live :
                           /\ ppid[j] = i + 1 /\ st[j] # "ZOMBIE"
                           /\ blocking_pid'[i] \in {j + 1, WAIT_ALL_CHILDREN}
      BY <1>3 DEF WaitsAreSound
    <3>1. CASE i = currentTask
      BY <1>1, <1>3, <1>6, <1>8, <2>3, <3>1
    <3>2. CASE i # currentTask
      <4>1. state[i] = "BLOCKED"
        BY <1>3, <1>4, <3>2
      <4>2. PICK j \in Live : /\ ppid[j] = i + 1 /\ state[j] # "ZOMBIE"
                              /\ blocking_pid[i] \in {j + 1, WAIT_ALL_CHILDREN}
        BY <1>3, <4>1 DEF Sound, WaitsAreSound
      <4>. QED BY <1>3, <1>8, <2>3, <3>2, <4>2
    <3>. QED BY <3>1, <3>2
  <2>. HIDE DEF st
  <2>. QED BY <1>3, <1>4, <2>1, <2>2, <2>4 DEF Sound
<1>10. Finished(numTasks, st, ppid, blocking_pid')
  BY <1>2, <1>5, <1>9, ScheduleKeepsSound DEF BlockedTable
<1>12. state[currentTask] # "ZOMBIE"
  BY CallerIsLive DEF Wait
<1>. QED BY <1>1, <1>4, <1>8, <1>10, <1>12 DEF BlockedTable

LEMMA WaitKeeps ==
  ASSUME TableInv, NEW target \in WaitTargets, NEW ret, Wait(target, ret)
  PROVE  Kept
<1>1. /\ currentTask \in Live /\ currentTask \in Slots /\ numTasks > 0
  BY CallerIsLive DEF Wait
<1>2. UNCHANGED <<active, numTasks, taskWithDynamicPriority, pidCounter, pid, ppid>>
  BY DEF Wait
<1>3. CASE ~Awaitable(target)
  <2>1. /\ UNCHANGED blocking_pid
        /\ regs' = Return(ret, IF AlreadyFinished(target) THEN 0 ELSE Failed)
        /\ Schedule(numTasks, state, priority, cpustate)
    BY <1>3 DEF Wait
  <2>2. Finished(numTasks, state, ppid, blocking_pid)
    BY <1>1, <2>1, InvHandled, ScheduleKeepsSound
  <2>4. TableInv'
    BY <1>1, <1>2, <2>1, <2>2, InvHandled, FinishedHandlerKeepsInv
  <2>. QED BY <2>2, <2>4
           DEF Finished, Kept, ZombieStaysZombie, BlockedStaysBlocked
<1>4. CASE Awaitable(target)
  <2>1. /\ Finished(numTasks, BlockedTable, ppid, blocking_pid')
        /\ blocking_pid' \in [Slots -> BlockingPids]
        /\ BlockedTable[currentTask] = "BLOCKED"
        /\ \A i \in Slots : i # currentTask => BlockedTable[i] = state[i]
        /\ state[currentTask] # "ZOMBIE"
    BY <1>4, AwaitFinished
  <2>2. TableInv'
    BY <1>1, <1>2, <2>1, InvHandled, FinishedHandlerKeepsInv
  <2>. QED BY <2>1, <2>2
           DEF Finished, Kept, ZombieStaysZombie, BlockedStaysBlocked
<1>. QED BY <1>3, <1>4

(* exit() in any task but the first.  The parent of the exiting task is    *)
(* woken, or another of its awaited children is still there.               *)
ExitedTable == [state EXCEPT ![currentTask] = "ZOMBIE"]
WokenTable  == [i \in Slots |-> IF i \in Woken(ExitedTable) THEN "READY"
                                ELSE ExitedTable[i]]

LEMMA ExitHandled ==
  ASSUME TableInv, NEW ret, currentTask # 0, Exit(ret)
  PROVE  /\ Handled(numTasks, WokenTable, priority, cpustate)
         /\ Sound(numTasks, WokenTable, ppid, blocking_pid')
         /\ blocking_pid' \in [Slots -> BlockingPids]
         /\ WokenTable[currentTask] = "ZOMBIE"
         /\ \A i \in Slots : state[i] = "ZOMBIE" => WokenTable[i] = "ZOMBIE"
         /\ \A i \in Slots : WokenTable[i] # state[i] =>
              i = currentTask \/ (i \in Woken(ExitedTable) /\ state[i] = "BLOCKED")
<1>. DEFINE W == Woken(ExitedTable)
<1>1. /\ currentTask \in Live /\ currentTask \in Slots /\ numTasks > 0
  BY CallerIsLive DEF Exit
<1>2. /\ Handled(numTasks, state, priority, cpustate)
      /\ numTasks \in 1 .. MaxTasks /\ blocking_pid \in [Slots -> BlockingPids]
      /\ Sound(numTasks, state, ppid, blocking_pid)
      /\ Live = 0 .. numTasks - 1 /\ Live \subseteq Slots /\ 0 \in Live
      /\ \A i \in Live : pid[i] = i + 1
  BY <1>1, InvHandled, TaskCount DEF Live
<1>3. /\ ExitedTable \in [Slots -> TaskState]
      /\ \A i \in Slots : ExitedTable[i] =
           IF i = currentTask THEN "ZOMBIE" ELSE state[i]
  BY <1>1, <1>2 DEF ExitedTable, Sound, TaskState
<1>4. \A i : i \in W <=>
        /\ i \in Live /\ i + 1 = ppid[currentTask] /\ ExitedTable[i] = "BLOCKED"
        /\ \/ blocking_pid[i] = currentTask + 1
           \/ /\ blocking_pid[i] = WAIT_ALL_CHILDREN
              /\ ~ \E j \in Live : ppid[j] = i + 1 /\ ExitedTable[j] # "ZOMBIE"
  BY <1>1, <1>2, FindTaskFindsSlot DEF Woken, IsThereAliveChild
<1>5. /\ WokenTable \in [Slots -> TaskState]
      /\ \A i \in Slots : WokenTable[i] = IF i \in W THEN "READY" ELSE ExitedTable[i]
  BY <1>3 DEF WokenTable, TaskState
<1>6. /\ blocking_pid' \in [Slots -> BlockingPids]
      /\ \A i \in Slots : i \notin W => blocking_pid'[i] = blocking_pid[i]
  <2>1. blocking_pid' = [i \in Slots |-> IF i \in W THEN NOT_BLOCKED ELSE blocking_pid[i]]
    BY DEF Exit, ExitedTable
  <2>2. NOT_BLOCKED \in BlockingPids
    BY DEF BlockingPids
  <2>. HIDE DEF W
  <2>. QED BY <1>2, <2>1, <2>2
<1>. HIDE DEF W
<1>7. \A i \in Slots : WokenTable[i] = "ZOMBIE" <=> state[i] = "ZOMBIE" \/ i = currentTask
  BY <1>3, <1>4, <1>5
<1>8. \A i \in Slots : WokenTable[i] # state[i] =>
        i = currentTask \/ (i \in W /\ state[i] = "BLOCKED")
  BY <1>3, <1>4, <1>5
<1>9. Handled(numTasks, WokenTable, priority, cpustate)
  <2>1. \A i \in Live : WokenTable[i] = "RUNNING" => i = currentTask
    BY <1>2, <1>3, <1>5 DEF Handled
  <2>. QED BY <1>2, <2>1 DEF Handled
<1>10. Sound(numTasks, WokenTable, ppid, blocking_pid')
  <2>1. \A i \in Slots : WokenTable[i] = "EMPTY" <=> i \notin 0 .. numTasks - 1
    BY <1>1, <1>2, <1>3, <1>4, <1>5 DEF Sound
  <2>2. WokenTable[0] # "ZOMBIE"
    BY <1>1, <1>2, <1>7 DEF Sound
  <2>3. WaitsAreSound(numTasks, WokenTable, ppid, blocking_pid')
    <3>. SUFFICES ASSUME NEW i \in Live, WokenTable[i] = "BLOCKED"
                  PROVE  \E j \in Live :
                           /\ ppid[j] = i + 1 /\ WokenTable[j] # "ZOMBIE"
                           /\ blocking_pid'[i] \in {j + 1, WAIT_ALL_CHILDREN}
      BY <1>2 DEF WaitsAreSound
    <3>1. i \in Slots /\ i \notin W /\ i # currentTask /\ state[i] = "BLOCKED"
          /\ ExitedTable[i] = "BLOCKED" /\ blocking_pid'[i] = blocking_pid[i]
      BY <1>2, <1>3, <1>5, <1>6
    <3>2. PICK j \in Live : /\ ppid[j] = i + 1 /\ state[j] # "ZOMBIE"
                            /\ blocking_pid[i] \in {j + 1, WAIT_ALL_CHILDREN}
      BY <1>2, <3>1 DEF Sound, WaitsAreSound
    <3>3. CASE j # currentTask
      BY <1>2, <1>7, <3>1, <3>2, <3>3
    <3>4. CASE j = currentTask
      <4>1. blocking_pid[i] # currentTask + 1
        BY <1>4, <3>1, <3>2, <3>4
      <4>2. blocking_pid[i] = WAIT_ALL_CHILDREN
        BY <3>2, <3>4, <4>1
      <4>3. PICK k \in Live : ppid[k] = i + 1 /\ ExitedTable[k] # "ZOMBIE"
        BY <1>4, <3>1, <3>2, <3>4, <4>2
      <4>4. WokenTable[k] # "ZOMBIE"
        BY <1>2, <1>5, <4>3
      <4>. QED BY <3>1, <4>2, <4>3, <4>4
    <3>. QED BY <3>3, <3>4
  <2>. QED BY <1>2, <1>5, <2>1, <2>2, <2>3 DEF Sound
<1>11. WokenTable[currentTask] = "ZOMBIE"
  BY <1>1, <1>7
<1>. QED BY <1>6, <1>7, <1>8, <1>9, <1>10, <1>11 DEF W

LEMMA ExitFinished ==
  ASSUME TableInv, NEW ret, currentTask # 0, Exit(ret)
  PROVE  Finished(numTasks, WokenTable, ppid, blocking_pid')
<1>1. Schedule(numTasks, WokenTable, priority, cpustate)
  BY DEF Exit, WokenTable, ExitedTable
<1>. QED BY <1>1, ExitHandled, ScheduleKeepsSound

LEMMA ExitKeeps ==
  ASSUME TableInv, NEW ret, currentTask # 0, Exit(ret)
  PROVE  TableInv'
<1>1. /\ currentTask \in Slots /\ numTasks > 0
  BY CallerIsLive DEF Exit
<1>2. /\ UNCHANGED <<active, numTasks, taskWithDynamicPriority, pidCounter, pid, ppid>>
  BY DEF Exit
<1>. QED BY <1>1, <1>2, InvHandled, ExitHandled, ExitFinished,
            FinishedHandlerKeepsInv

LEMMA ExitKeepsZombies ==
  ASSUME TableInv, NEW ret, currentTask # 0, Exit(ret)
  PROVE  ZombieStaysZombie
  BY ExitHandled, ExitFinished DEF Finished, ZombieStaysZombie

(* The only task that exit() takes out of BLOCKED is one whose last awaited *)
(* child is the task that exits.                                           *)
LEMMA ExitEndsWaits ==
  ASSUME TableInv, NEW ret, currentTask # 0, Exit(ret),
         NEW i \in Slots, ~MayBeBoosted(i), state[i] = "BLOCKED", state'[i] # "BLOCKED",
         NEW j \in Awaited(i)
  PROVE  state'[j] = "ZOMBIE"
<1>1. /\ WokenTable[currentTask] = "ZOMBIE"
      /\ \A k \in Slots : WokenTable[k] # state[k] =>
           k = currentTask \/ (k \in Woken(ExitedTable) /\ state[k] = "BLOCKED")
      /\ Finished(numTasks, WokenTable, ppid, blocking_pid')
  BY ExitHandled, ExitFinished
<1>2. /\ currentTask \in Live /\ currentTask \in Slots /\ numTasks > 0
      /\ state[currentTask] # "BLOCKED"
  BY CallerIsLive DEF Exit
<1>3. WokenTable[i] # "BLOCKED"
  BY <1>1 DEF Finished
<1>4. i \in Woken(ExitedTable)
  BY <1>1, <1>2, <1>3
<1>5. /\ numTasks \in 1 .. MaxTasks /\ Live = 0 .. numTasks - 1
      /\ \A k \in Live : pid[k] = k + 1
      /\ state \in [Slots -> TaskState]
  BY <1>2, InvHandled DEF Live, Sound
<1>6. /\ j \in Live /\ ppid[j] = pid[i] /\ state[j] # "ZOMBIE"
      /\ blocking_pid[i] \in {pid[j], WAIT_ALL_CHILDREN}
  BY DEF Awaited
<1>7. j = currentTask
  <2>1. CASE blocking_pid[i] = pid[currentTask]
    <3>1. pid[currentTask] = currentTask + 1 /\ currentTask + 1 # WAIT_ALL_CHILDREN
      BY <1>2, <1>5, SentinelAssumption, MaxTasksAssumption
    <3>2. pid[j] = j + 1
      BY <1>5, <1>6
    <3>. QED BY <1>2, <1>5, <1>6, <2>1, <3>1, <3>2
  <2>2. CASE ~IsThereAliveChild(pid[i], ExitedTable)
    <3>1. ExitedTable[j] = "ZOMBIE"
      BY <1>6, <2>2 DEF IsThereAliveChild
    <3>2. j \in Slots
      BY <1>5, <1>6, TaskCount
    <3>. QED BY <1>5, <1>6, <3>1, <3>2 DEF ExitedTable
  <2>. QED BY <1>4, <2>1, <2>2 DEF Woken
<1>. QED BY <1>1, <1>2, <1>7 DEF Finished

-----------------------------------------------------------------------------
(* The inductive invariant, and that every step keeps it.  The programs of *)
(* First, Second, Third and PartA never let the first task call exit() (it *)
(* ends in an endless loop), which is the assumption ~InitExits.           *)

(* SetSchedulerType; round robin until then.                               *)
Kinds == Schedulers \cup {"ROUNDROBIN"}

IndInv ==
  /\ TableInv
  /\ schedulerType \in Kinds
  /\ regs \in [Slots -> Frame]

LEMMA InvTypes == IndInv => TypeOK
BY DEF IndInv, TableInv, TableTypes, TypeOK, Kinds, BlockingPids

LEMMA NextKeepsTable ==
  ASSUME ~InitExits, IndInv, [Next]_vars
  PROVE  TableInv' /\ ZombieStaysZombie
<1>1. CASE AddInit
  <2>1. schedulerType' \in SchedulerTypes
    BY <1>1, SchedulerAssumption DEF AddInit, SetSchedulerType
  <2>. QED BY <1>1, <2>1, AddTaskKeeps DEF AddInit, Kept, IndInv
<1>2. CASE Activate
  BY <1>2, ActivateKeeps DEF Kept, IndInv
<1>3. CASE TimerInterrupt
  BY <1>3, TimerInterruptKeeps DEF Kept, IndInv
<1>4. CASE UserMode /\ \E prio \in Priorities \cup {Inherit} : Fork(prio, Here)
  BY <1>4, ForkKeeps, PriorityAssumption DEF Kept, IndInv
<1>5. CASE UserMode /\ MayExit /\ Exit(Here)
  BY <1>5, ExitKeeps, ExitKeepsZombies DEF MayExit, IndInv
<1>6. CASE UserMode /\ \E target \in WaitTargets : Wait(target, Here)
  BY <1>6, WaitKeeps DEF Kept, IndInv
<1>7. CASE UserMode /\ \E program \in Programs : Exec(program)
  BY <1>7, ExecKeeps DEF Kept, IndInv
<1>8. CASE UserMode /\ \E call \in Reports : Report(call, Here)
  BY <1>8, ReportKeeps DEF Kept, IndInv
<1>9. CASE UserMode /\ UseDynamicPriority(Here)
  BY <1>9, UseDynamicPriorityKeeps DEF Kept, IndInv
<1>10. CASE UNCHANGED vars
  BY <1>10 DEF vars, tableVars, IndInv, TableInv, TableTypes, Numbered, OwnStack, Sound,
               WaitsAreSound, OnlyCurrentRuns, CpuOwnerCanRun, BootShape, OneIsBehind, Live,
               ZombieStaysZombie
<1>. QED BY <1>1, <1>2, <1>3, <1>4, <1>5, <1>6, <1>7, <1>8, <1>9, <1>10 DEF Next

(* The scheduler is chosen once, by kernelMain.                            *)
LEMMA NextKeepsKind ==
  ASSUME IndInv, [Next]_vars
  PROVE  schedulerType' \in Kinds
BY DEF IndInv, Next, vars, AddInit, SetSchedulerType, Activate, TimerInterrupt, Schedule,
       Fork, ForkTask, Exit, Wait, Exec, Report, UseDynamicPriority, NoSchedule, Kinds

(* Whatever the call, a frame is an entry point and a number.              *)
LEMMA NextKeepsFrames ==
  ASSUME IndInv, [Next]_vars
  PROVE  regs' \in [Slots -> Frame]
<1>1. ASSUME UserMode
      PROVE  /\ currentTask \in Slots /\ esp = currentTask /\ Here \in Programs \cup {InitProgram}
             /\ numTasks \in Nat
             /\ \A ret \in Programs \cup {InitProgram} : \A value \in Int :
                  /\ Return(ret, value) \in [Slots -> Frame]
                  /\ [eip |-> ret, ecx |-> value] \in Frame
             /\ [regs EXCEPT ![esp].eip = Here] \in [Slots -> Frame]
  BY <1>1, CallerIsLive, MaxTasksAssumption DEF IndInv, Return, Here, Frame
<1>2. CASE AddInit
  <2>1. [eip |-> InitProgram, ecx |-> 0] \in Frame
    BY DEF Frame
  <2>. QED BY <1>2, <2>1 DEF AddInit, AddTask, IndInv
<1>3. CASE Activate \/ TimerInterrupt \/ UNCHANGED vars
  BY <1>3 DEF Activate, TimerInterrupt, vars, IndInv
<1>4. CASE UserMode /\ \E prio \in Priorities \cup {Inherit} : Fork(prio, Here)
  <2>1. pidCounter \in Int
    BY DEF IndInv, TableInv, TableTypes
  <2>2. CASE regs' = Return(Here, Failed)
    <3>1. Failed \in Int
      BY DEF Failed
    <3>. QED BY <1>1, <1>4, <2>2, <3>1
  <2>3. CASE regs' = [Return(Here, pidCounter) EXCEPT ![numTasks] = [eip |-> Here, ecx |-> 0]]
    <3>1. Return(Here, pidCounter) \in [Slots -> Frame] /\ [eip |-> Here, ecx |-> 0] \in Frame
      <4>1. 0 \in Int
        OBVIOUS
      <4>. QED BY <1>1, <1>4, <2>1, <4>1
    <3>2. \A f \in [Slots -> Frame] : \A frame \in Frame :
            [f EXCEPT ![numTasks] = frame] \in [Slots -> Frame]
      OBVIOUS
    <3>. QED BY <2>3, <3>1, <3>2, Zenon
  <2>. QED BY <1>4, <2>2, <2>3 DEF Fork, ForkTask
<1>5. CASE UserMode /\ \E target \in WaitTargets : Wait(target, Here)
  <2>1. PICK value \in Int : regs' = Return(Here, value)
    BY <1>5 DEF Wait, Failed
  <2>. QED BY <1>1, <1>5, <2>1
<1>6. CASE \/ UserMode /\ MayExit /\ Exit(Here)
           \/ UserMode /\ UseDynamicPriority(Here)
  <2>1. UserMode /\ regs' = [regs EXCEPT ![esp].eip = Here]
    BY <1>6 DEF Exit, UseDynamicPriority
  <2>. QED BY <1>1, <2>1
<1>7. CASE UserMode /\ \E program \in Programs : Exec(program)
  <2>1. PICK program \in Programs : regs' = Return(program, 0)
    BY <1>7 DEF Exec
  <2>2. program \in Programs \cup {InitProgram} /\ 0 \in Int
    OBVIOUS
  <2>. QED BY <1>1, <1>7, <2>1, <2>2
<1>8. CASE UserMode /\ \E call \in Reports : Report(call, Here)
  <2>1. PICK call \in Reports : regs' = Return(Here, Reported(call))
    BY <1>8 DEF Report
  <2>2. Reported(call) \in Int
    BY <1>1, <1>8, CounterAssumption DEF Reported, IndInv, TableInv, TableTypes
  <2>. QED BY <1>1, <1>8, <2>1, <2>2
<1>. QED BY <1>2, <1>3, <1>4, <1>5, <1>6, <1>7, <1>8 DEF Next

LEMMA NextKeeps ==
  ASSUME ~InitExits, IndInv, [Next]_vars
  PROVE  IndInv' /\ ZombieStaysZombie
BY NextKeepsTable, NextKeepsKind, NextKeepsFrames DEF IndInv

(* A wait of a scheduler without the boost ends only by the exit of what   *)
(* was waited for.                                                         *)
LEMMA NextEndsWaits ==
  ASSUME ~InitExits, IndInv, [Next]_vars,
         NEW i \in Slots, ~MayBeBoosted(i), state[i] = "BLOCKED", state'[i] # "BLOCKED",
         NEW j \in Awaited(i)
  PROVE  state'[j] = "ZOMBIE"
<1>1. ~BlockedStaysBlocked /\ ~Kept
  BY DEF BlockedStaysBlocked, Kept
<1>2. ~AddInit /\ ~Activate /\ ~TimerInterrupt
  BY <1>1, SchedulerAssumption, AddTaskKeeps, ActivateKeeps, TimerInterruptKeeps
     DEF IndInv, AddInit, SetSchedulerType
<1>3. ~(UserMode /\ \E prio \in Priorities \cup {Inherit} : Fork(prio, Here))
  BY <1>1, ForkKeeps, PriorityAssumption DEF IndInv
<1>4. ~(UserMode /\ \E target \in WaitTargets : Wait(target, Here))
  BY <1>1, WaitKeeps DEF IndInv
<1>5. /\ ~(UserMode /\ \E program \in Programs : Exec(program))
      /\ ~(UserMode /\ \E call \in Reports : Report(call, Here))
      /\ ~(UserMode /\ UseDynamicPriority(Here))
  BY <1>1, ExecKeeps, ReportKeeps, UseDynamicPriorityKeeps DEF IndInv
<1>6. vars' # vars
  BY DEF vars, tableVars
<1>7. UserMode /\ currentTask # 0 /\ Exit(Here)
  BY <1>2, <1>3, <1>4, <1>5, <1>6 DEF Next, MayExit
<1>. QED BY <1>7, ExitEndsWaits DEF IndInv

-----------------------------------------------------------------------------
(* The theorems: what holds of every execution, for every size of the      *)
(* table, every scheduler and every set of programs and priorities.        *)

(* Everything the proofs know of a reachable table.                        *)
THEOREM Invariance ==
  ASSUME ~InitExits
  PROVE  Spec => []IndInv
<1>1. Init => IndInv
  BY InitEstablishes DEF Init, IndInv, Kinds, Frame
<1>2. IndInv /\ [Next]_vars => IndInv'
  BY NextKeeps
<1>. QED BY <1>1, <1>2, PTL DEF Spec

(* Every field of the table keeps its type, and no slot beyond numTasks is *)
(* ever used.                                                              *)
THEOREM TypeCorrect ==
  ASSUME ~InitExits
  PROVE  Spec => []TypeOK
<1>1. IndInv => TypeOK
  BY InvTypes
<1>. QED BY <1>1, Invariance, PTL

(* WaitTask and ExitTask, in whatever order parents and children call      *)
(* them: a BLOCKED task always still has a child that will wake it.        *)
THEOREM NoWakeupIsLost ==
  ASSUME ~InitExits
  PROVE  Spec => []NoLostWakeup
<1>1. IndInv => NoLostWakeup
  <2>. SUFFICES ASSUME IndInv, NEW i \in Live, state[i] = "BLOCKED"
                PROVE  Awaited(i) # {}
    BY DEF NoLostWakeup
  <2>1. \A k \in Live : pid[k] = k + 1
    BY DEF IndInv, TableInv, Numbered
  <2>2. PICK j \in Live : /\ ppid[j] = i + 1 /\ state[j] # "ZOMBIE"
                          /\ blocking_pid[i] \in {j + 1, WAIT_ALL_CHILDREN}
    BY DEF IndInv, TableInv, Sound, WaitsAreSound, Live
  <2>3. j \in Awaited(i)
    BY <2>1, <2>2 DEF Awaited
  <2>. QED BY <2>3
<1>. QED BY <1>1, Invariance, PTL

(* The schedulers never run out of tasks to switch to, so none of them     *)
(* falls back on an exited or blocked task.                                *)
THEOREM CpuOwnerAlwaysCanRun ==
  ASSUME ~InitExits
  PROVE  Spec => []CpuOwnerCanRun
<1>1. IndInv => CpuOwnerCanRun
  BY DEF IndInv, TableInv
<1>. QED BY <1>1, Invariance, PTL

(* Context switches and forks keep every frame on the stack of its task.   *)
THEOREM CpuIsOwned ==
  ASSUME ~InitExits
  PROVE  Spec => []CpuOwnership
<1>1. IndInv => CpuOwnership
  BY DEF IndInv, TableInv, CpuOwnership
<1>. QED BY <1>1, Invariance, PTL

(* A table of fewer slots than WAIT_ALL_CHILDREN never confuses a pid with *)
(* a reserved value, nor two tasks with each other.                        *)
THEOREM PidsAreAlwaysSound ==
  ASSUME ~InitExits
  PROVE  Spec => []PidsAreSound
<1>1. IndInv => PidsAreSound
  <2>. SUFFICES ASSUME IndInv PROVE PidsAreSound
    OBVIOUS
  <2>1. /\ numTasks \in 0 .. MaxTasks /\ Live = 0 .. numTasks - 1
        /\ \A i \in Live : pid[i] = i + 1
        /\ \A i \in Live : ppid[i] \in 0 .. i
    BY DEF IndInv, TableInv, TableTypes, Numbered, Sound, Live
  <2>2. \A i \in Live : pid[i] \in 1 .. WAIT_ALL_CHILDREN - 1
    BY <2>1, MaxTasksAssumption, SentinelAssumption
  <2>3. \A i, j \in Live : pid[i] = pid[j] => i = j
    BY <2>1, MaxTasksAssumption
  <2>4. \A i, j \in Live : ppid[i] = pid[j] => j < i
    BY <2>1, MaxTasksAssumption
  <2>. QED BY <2>2, <2>3, <2>4 DEF PidsAreSound
<1>. QED BY <1>1, Invariance, PTL

(* Whichever priorities and programs: nobody but one task ever waits       *)
(* behind a lower priority, the one that was interrupted last.             *)
THEOREM OutrankedByOneAtMost ==
  ASSUME ~InitExits
  PROVE  Spec => []OutrankedByAtMostOne
<1>1. IndInv => OutrankedByAtMostOne
  <2>. SUFFICES ASSUME IndInv, currentTask >= 0, schedulerType # "ROUNDROBIN"
                PROVE  Cardinality({i \in Live : state[i] = "READY"
                                     /\ priority[i] < priority[currentTask]}) <= 1
    BY DEF OutrankedByAtMostOne
  <2>. DEFINE B == {i \in Live : state[i] = "READY" /\ priority[i] < priority[currentTask]}
  <2>1. PICK t : B \subseteq {t}
    BY DEF IndInv, TableInv, OneIsBehind
  <2>2. IsFiniteSet({t}) /\ Cardinality({t}) = 1
    BY FS_Singleton
  <2>3. Cardinality(B) <= Cardinality({t})
    BY <2>1, <2>2, FS_Subset
  <2>. QED BY <2>2, <2>3
<1>. QED BY <1>1, Invariance, PTL

(* exit() is final under all three schedulers: no Schedule makes a ZOMBIE  *)
(* READY or RUNNING again.                                                 *)
THEOREM ExitedTasksStayExited ==
  ASSUME ~InitExits
  PROVE  Spec => ExitIsFinal
<1>1. IndInv /\ [Next]_vars => ExitTakesEffect /\ ZombieStaysZombie
  <2>. SUFFICES ASSUME IndInv, [Next]_vars
                PROVE  ExitTakesEffect /\ ZombieStaysZombie
    OBVIOUS
  <2>1. ASSUME UserMode, MayExit, Exit(Here)
        PROVE  state'[currentTask] = "ZOMBIE"
    <3>1. currentTask # 0 /\ currentTask \in Slots
      BY <2>1, CallerIsLive DEF MayExit, IndInv
    <3>. QED BY <2>1, <3>1, ExitHandled, ExitFinished DEF Finished, IndInv
  <2>. QED BY <2>1, NextKeeps DEF ExitTakesEffect
<1>. QED BY <1>1, Invariance, PTL DEF Spec, ExitIsFinal

(* A handler writes into the frame of its caller and of nobody else, since *)
(* the CPU is on the stack of the current task.                            *)
THEOREM FramesStayPrivate ==
  ASSUME ~InitExits
  PROVE  Spec => FramesArePrivate
<1>1. ASSUME IndInv, [Next]_vars, NEW i \in Live, i # currentTask
      PROVE  regs'[i] = regs[i]
  <2>1. /\ regs \in [Slots -> Frame] /\ esp = currentTask
        /\ i \in Slots /\ i # esp /\ i # numTasks
    <3>1. numTasks \in 0 .. MaxTasks
      BY <1>1 DEF IndInv, TableInv, TableTypes
    <3>2. i \in Slots /\ i # numTasks
      BY <3>1, MaxTasksAssumption DEF Live, Slots
    <3>. QED BY <1>1, <3>2 DEF IndInv, TableInv, TableTypes, OwnStack
  <2>2. \A ret, value : Return(ret, value)[i] = regs[i]
    BY <2>1 DEF Return
  <2>3. CASE AddInit
    BY <1>1, <2>1, <2>3 DEF AddInit, AddTask
  <2>4. CASE Activate \/ TimerInterrupt \/ UNCHANGED vars
    BY <2>4 DEF Activate, TimerInterrupt, vars
  <2>5. CASE UserMode /\ \E prio \in Priorities \cup {Inherit} : Fork(prio, Here)
    <3>1. PICK prio \in Priorities \cup {Inherit} : ForkTask(prio, Here)
      BY <2>5 DEF Fork
    <3>2. \/ regs' = Return(Here, Failed)
          \/ regs' = [Return(Here, pidCounter) EXCEPT
                        ![numTasks] = [eip |-> Here, ecx |-> 0]]
      BY <3>1 DEF ForkTask
    <3>3. \A own, new : [[regs EXCEPT ![esp] = own]
                           EXCEPT ![numTasks] = new][i] = regs[i]
      BY <2>1
    <3>4. CASE regs' = Return(Here, Failed)
      BY <2>2, <3>4
    <3>5. CASE regs' = [Return(Here, pidCounter) EXCEPT
                          ![numTasks] = [eip |-> Here, ecx |-> 0]]
      BY <3>3, <3>5 DEF Return
    <3>. QED BY <3>2, <3>4, <3>5
  <2>6. CASE UserMode /\ \E target \in WaitTargets : Wait(target, Here)
    <3>1. \E value : regs' = Return(Here, value)
      BY <2>6 DEF Wait
    <3>. QED BY <2>2, <3>1
  <2>7. CASE \/ UserMode /\ MayExit /\ Exit(Here)
             \/ UserMode /\ UseDynamicPriority(Here)
    <3>1. regs' = [regs EXCEPT ![esp].eip = Here]
      BY <2>7 DEF Exit, UseDynamicPriority
    <3>. QED BY <2>1, <3>1
  <2>8. CASE \/ UserMode /\ \E program \in Programs : Exec(program)
             \/ UserMode /\ \E call \in Reports : Report(call, Here)
    <3>1. \E ret, value : regs' = Return(ret, value)
      BY <2>8 DEF Exec, Report
    <3>. QED BY <2>2, <3>1
  <2>. QED BY <1>1, <2>3, <2>4, <2>5, <2>6, <2>7, <2>8 DEF Next
<1>2. IndInv /\ [Next]_vars =>
        \A i \in Live : regs'[i] # regs[i] => i = currentTask
  BY <1>1
<1>. QED BY <1>2, Invariance, PTL DEF Spec, FramesArePrivate

(* Without the boost, a wait() that has something to wait for leaves its   *)
(* caller BLOCKED, off the CPU.                                            *)
THEOREM WaitAlwaysBlocks ==
  ASSUME ~InitExits, "PREEMPTIVE_DYNAMIC_PRIORITY" \notin Schedulers
  PROVE  Spec => WaitBlocks
<1>1. IndInv => WaitTakesEffect
  <2>. SUFFICES ASSUME IndInv, NEW target \in WaitTargets, UserMode,
                       Awaitable(target), Wait(target, Here)
                PROVE  state'[currentTask] = "BLOCKED"
    BY DEF WaitTakesEffect
  <2>1. currentTask \in Slots
    BY MaxTasksAssumption DEF IndInv, TableInv, TableTypes, UserMode, Slots
  <2>2. ~Dynamic
    BY DEF IndInv, Kinds, Dynamic
  <2>. QED BY <2>1, <2>2, AwaitFinished DEF Finished, IndInv, MayBeBoosted
<1>. QED BY <1>1, Invariance, PTL DEF Spec, WaitBlocks

(* Without the boost, wait() returns only after the children it was called *)
(* for have exited; with it the run BlockedTaskBoosted refutes this.       *)
THEOREM WaitsEndWithTheChildren ==
  ASSUME ~InitExits, "PREEMPTIVE_DYNAMIC_PRIORITY" \notin Schedulers
  PROVE  Spec => WaitEndsWithTheChildren
<1>1. IndInv /\ [Next]_vars =>
        \A i \in Slots : state[i] = "BLOCKED" /\ state'[i] # "BLOCKED" =>
          \A j \in Awaited(i) : state'[j] = "ZOMBIE"
  <2>1. IndInv => ~Dynamic
    BY DEF IndInv, Kinds, Dynamic
  <2>. QED BY <2>1, NextEndsWaits DEF MayBeBoosted
<1>. QED BY <1>1, Invariance, PTL DEF Spec, WaitEndsWithTheChildren

(* The boost is the only thing that ever cuts a wait short: under all      *)
(* three schedulers, a wait() of any task but the one that asked for a     *)
(* dynamic priority returns only after the children it was for.            *)
OtherWaitsEndWithTheChildren ==
  [][\A i \in Slots :
       /\ state[i] = "BLOCKED" /\ state'[i] # "BLOCKED"
       /\ i # taskWithDynamicPriority
       => \A j \in Awaited(i) : state'[j] = "ZOMBIE"]_vars

THEOREM OnlyTheBoostCutsWaitsShort ==
  ASSUME ~InitExits
  PROVE  Spec => OtherWaitsEndWithTheChildren
<1>1. IndInv /\ [Next]_vars =>
        \A i \in Slots :
          /\ state[i] = "BLOCKED" /\ state'[i] # "BLOCKED"
          /\ i # taskWithDynamicPriority
          => \A j \in Awaited(i) : state'[j] = "ZOMBIE"
  BY NextEndsWaits DEF MayBeBoosted
<1>. QED BY <1>1, Invariance, PTL DEF Spec, OtherWaitsEndWithTheChildren

-----------------------------------------------------------------------------
(* TaskManager implements ProcessTree: whatever the order of the calls and *)
(* of the timer, programs see a tree of processes, waits that end with the *)
(* children and a CPU that belongs to somebody who can use it.  The        *)
(* scheduler must be one of the two without the boost, which resumes tasks *)
(* that still wait.                                                        *)

(* What the tree needs beyond the invariant of the table: only the first   *)
(* task has no parent, so that any other may exit.                         *)
OnlyFirstIsOrphan == \A i \in Live : i # 0 => ppid[i] # 0

TreeInv == TableInv /\ OnlyFirstIsOrphan

-----------------------------------------------------------------------------
(* What a handler that ends in Schedule makes of the tree.                 *)

(* Schedule takes nobody into or out of ZOMBIE and BLOCKED, except out of  *)
(* BLOCKED the task that it may boost.                                     *)
LEMMA ScheduleKeepsWhoWaits ==
  ASSUME NEW n, NEW st, NEW pp, NEW bp, Finished(n, st, pp, bp)
  PROVE  \A i \in Slots : /\ state'[i] = "ZOMBIE" <=> st[i] = "ZOMBIE"
                          /\ state'[i] = "BLOCKED" => st[i] = "BLOCKED"
                          /\ ~MayBeBoosted(i) => (state'[i] = "BLOCKED" <=> st[i] = "BLOCKED")
<1>1. /\ st[currentTask'] \in {"RUNNING", "READY"} \/ MayBeBoosted(currentTask')
      /\ st[currentTask'] # "ZOMBIE"
      /\ state'[currentTask'] \in {"RUNNING", "READY"}
      /\ \A i \in Slots : i # currentTask' =>
           state'[i] = IF st[i] = "RUNNING" THEN "READY" ELSE st[i]
  BY DEF Finished, Chosen, Switched
<1>. QED BY <1>1

(* The tasks of a table that has no more than MaxTasks are slots.          *)
LEMMA IndexIsSlot ==
  ASSUME NEW n \in 0 .. MaxTasks, NEW i \in 0 .. n-1
  PROVE  i \in Slots /\ i >= 0
  BY MaxTasksAssumption DEF Slots

(* The facts about a sound table that the mapping rests on.                *)
LEMMA TableFacts ==
  ASSUME TableInv
  PROVE  /\ numTasks \in 0 .. MaxTasks /\ MaxTasks \in Nat \ {0}
         /\ Live = 0 .. numTasks - 1 /\ Live \subseteq Slots /\ Slots \subseteq Nat
         /\ state \in [Slots -> TaskState]
         /\ pid \in [Slots -> Nat] /\ ppid \in [Slots -> Nat]
         /\ blocking_pid \in [Slots -> BlockingPids]
         /\ \A i \in Live : pid[i] = i + 1
         /\ \A i \in Slots : state[i] = "EMPTY" <=> i \notin Live
<1>1. numTasks \in 0 .. MaxTasks /\ Live = 0 .. numTasks - 1
  BY DEF TableInv, TableTypes, Live
<1>2. Live \subseteq Slots /\ Slots \subseteq Nat
  BY <1>1, MaxTasksAssumption DEF Slots
<1>. QED BY <1>1, <1>2, MaxTasksAssumption DEF TableInv, TableTypes, Numbered, BlockingPids

(* The CPU is handed to a process that can run.                            *)
LEMMA HandsOver ==
  ASSUME TableInv', currentTask' \in Live'
  PROVE  Tree!HandOver
<1>1. state'[currentTask'] \in {"RUNNING", "READY"}
  <2>1. currentTask' >= 0
    BY DEF Live
  <2>. QED BY <2>1 DEF TableInv, CpuOwnerCanRun
<1>2. currentTask' \in Slots
  <2>1. numTasks' \in 0 .. MaxTasks
    BY DEF TableInv, TableTypes
  <2>2. currentTask' \in 0 .. numTasks' - 1
    BY DEF Live
  <2>. QED BY <2>1, <2>2, IndexIsSlot
<1>3. Awaited(currentTask)' = {}
  BY <1>1 DEF Awaited
<1>. QED BY <1>1, <1>2, <1>3 DEF Tree!HandOver, Tree!Runnable, Awaited

(* A handler that changes neither the family nor who waits and who has     *)
(* exited only hands the CPU over.                                         *)
LEMMA PreemptsTree ==
  ASSUME TableInv, TableInv', currentTask' \in Live',
         UNCHANGED <<numTasks, pid, ppid, blocking_pid>>,
         \A i \in Slots : /\ state'[i] = "ZOMBIE" <=> state[i] = "ZOMBIE"
                          /\ state'[i] = "BLOCKED" <=> state[i] = "BLOCKED"
  PROVE  Tree!Preempt
<1>1. Live' = Live /\ Live \subseteq Slots
  BY TableFacts DEF Live
<1>2. UNCHANGED [i \in Slots |-> ppid[i] - 1]
  OBVIOUS
<1>3. UNCHANGED {i \in Live : state[i] = "ZOMBIE"}
  BY <1>1
<1>4. \A i \in Slots : Awaited(i)' = Awaited(i)
  BY <1>1 DEF Awaited
<1>5. UNCHANGED [i \in Slots |-> Awaited(i)]
  BY <1>4
<1>6. Tree!HandOver
  BY HandsOver
<1>. QED BY <1>1, <1>2, <1>3, <1>5, <1>6 DEF Tree!Preempt

-----------------------------------------------------------------------------
(* One step of the table is one step of the tree.                          *)

(* The empty table is the empty tree.                                      *)
LEMMA InitIsTreeInit == Init => Tree!Init
<1>. SUFFICES ASSUME Init PROVE Tree!Init
  OBVIOUS
<1>1. Live = {} /\ currentTask = -1
  BY DEF Init, Live
<1>2. [i \in Slots |-> ppid[i] - 1] = [i \in Slots |-> -1]
  BY DEF Init
<1>. QED BY <1>1, <1>2 DEF Tree!Init, Awaited

(* The task that kernelMain adds is the root.                              *)
LEMMA AddInitBoots ==
  ASSUME TreeInv, AddInit
  PROVE  Tree!Boot(0) /\ 0 \in Slots /\ OnlyFirstIsOrphan'
<1>1. /\ numTasks = 0 /\ numTasks' = 1 /\ Live = {} /\ Live' = {0} /\ 0 \in Slots
      /\ UNCHANGED <<currentTask, ppid>>
      /\ state' = [state EXCEPT ![0] = "READY"]
  BY MaxTasksAssumption DEF AddInit, AddTask, Live, Slots
<1>2. \A i \in Slots : state'[i] \in {"READY", "EMPTY"}
  BY <1>1, TableFacts DEF TreeInv
<1>3. \A i \in Slots : Awaited(i) = {} /\ Awaited(i)' = {}
  BY <1>1, <1>2 DEF Awaited
<1>4. {i \in Live : state[i] = "ZOMBIE"}' = {} /\ {i \in Live : state[i] = "ZOMBIE"} = {}
  BY <1>1, <1>2
<1>. QED BY <1>1, <1>3, <1>4 DEF Tree!Boot, OnlyFirstIsOrphan

(* Activate and the calls that return without scheduling are not seen.     *)
LEMMA QuietStep ==
  ASSUME TreeInv, UNCHANGED <<numTasks, currentTask, pid, ppid, blocking_pid, state>>
  PROVE  UNCHANGED Tree!vars /\ OnlyFirstIsOrphan'
<1>1. Live' = Live
  BY DEF Live
<1>2. \A i : Awaited(i)' = Awaited(i)
  BY <1>1 DEF Awaited
<1>. QED BY <1>1, <1>2 DEF Tree!vars, OnlyFirstIsOrphan, TreeInv

(* The timer, and a fork or a wait that is refused.                        *)
LEMMA RefusedCallPreempts ==
  ASSUME TreeInv, ~Dynamic, TableInv',
         UNCHANGED <<numTasks, pid, ppid, blocking_pid>>,
         Finished(numTasks, state, ppid, blocking_pid)
  PROVE  Tree!Preempt /\ OnlyFirstIsOrphan'
<1>1. currentTask' \in Live'
  BY DEF Finished, Chosen, Live
<1>2. \A i \in Slots : /\ state'[i] = "ZOMBIE" <=> state[i] = "ZOMBIE"
                       /\ state'[i] = "BLOCKED" <=> state[i] = "BLOCKED"
  BY ScheduleKeepsWhoWaits DEF MayBeBoosted
<1>. QED BY <1>1, <1>2, PreemptsTree DEF TreeInv, OnlyFirstIsOrphan, Live

(* Before kernelMain has added a task the timer finds nobody to switch to. *)
LEMMA TimerInterruptPreempts ==
  ASSUME TreeInv, ~Dynamic, TableInv', TimerInterrupt
  PROVE  (Tree!Preempt \/ UNCHANGED Tree!vars) /\ OnlyFirstIsOrphan'
<1>1. CASE numTasks = 0
  <2>1. UNCHANGED <<numTasks, currentTask, pid, ppid, blocking_pid, state>>
    BY <1>1 DEF TimerInterrupt, Schedule
  <2>. QED BY <2>1, QuietStep
<1>2. CASE numTasks > 0
  <2>1. Finished(numTasks, state, ppid, blocking_pid)
    BY <1>2, InvHandled, ScheduleKeepsSound DEF TimerInterrupt, TreeInv
  <2>. QED BY <2>1, RefusedCallPreempts DEF TimerInterrupt
<1>. QED BY <1>1, <1>2, TableFacts DEF TreeInv

(* A fork that finds a free slot spawns a child of the task on the CPU.    *)
LEMMA ForkSpawns ==
  ASSUME TreeInv, ~Dynamic, TableInv', NEW prio \in Nat \cup {Inherit},
         NEW ret, Fork(prio, ret)
  PROVE  (Tree!Preempt \/ \E child \in Slots : Tree!Spawn(child)) /\ OnlyFirstIsOrphan'
<1>1. /\ TableInv
      /\ currentTask \in Live /\ currentTask \in Slots /\ numTasks > 0
      /\ UNCHANGED blocking_pid
  BY CallerIsLive DEF TreeInv, Fork
<1>2. ASSUME numTasks >= MaxTasks
      PROVE  Tree!Preempt /\ OnlyFirstIsOrphan'
  <2>1. /\ Schedule(numTasks, state, priority, cpustate)
        /\ UNCHANGED <<numTasks, pidCounter, pid, ppid>>
    BY <1>1, <1>2, TableFacts DEF Fork, ForkTask
  <2>2. Finished(numTasks, state, ppid, blocking_pid)
    BY <1>1, <2>1, InvHandled, ScheduleKeepsSound
  <2>. QED BY <1>1, <2>1, <2>2, RefusedCallPreempts
<1>3. ASSUME numTasks < MaxTasks
      PROVE  numTasks \in Slots /\ Tree!Spawn(numTasks) /\ OnlyFirstIsOrphan'
  <2>. DEFINE child == numTasks
  <2>1. /\ child \in Slots /\ child \notin Live /\ child > 0
        /\ numTasks' = numTasks + 1 /\ Live' = Live \cup {child}
        /\ Live' = 0 .. numTasks
    <3>1. /\ numTasks \in Nat /\ MaxTasks \in Nat /\ Live = 0 .. numTasks - 1
          /\ numTasks' = numTasks + 1
      BY <1>1, <1>3, ForkFinished, TableFacts
    <3>2. Live' = 0 .. numTasks
      BY <3>1 DEF Live
    <3>3. child \in Slots /\ child \notin Live /\ child > 0
      BY <1>1, <1>3, <3>1 DEF Slots
    <3>4. 0 .. numTasks = (0 .. numTasks - 1) \cup {child}
      BY <3>1
    <3>. QED BY <3>1, <3>2, <3>3, <3>4
  <2>2. /\ Finished(numTasks', ForkedTable, ppid', blocking_pid')
        /\ \A i \in Slots : ForkedTable[i] = IF i = child THEN "READY" ELSE state[i]
        /\ ppid' = [ppid EXCEPT ![child] = currentTask + 1]
        /\ \A i \in Live' : pid'[i] = i + 1
    BY <1>1, <1>3, <2>1, ForkFinished
  <2>3. /\ state[child] = "EMPTY" /\ state[currentTask] \in {"RUNNING", "READY"}
        /\ \A i \in Slots : i \notin Live => state[i] = "EMPTY"
    BY <1>1, <2>1, TableFacts DEF UserMode, TableInv, CpuOwnerCanRun
  <2>4. \A i \in Slots : /\ state'[i] = "ZOMBIE" <=> state[i] = "ZOMBIE"
                         /\ state'[i] = "BLOCKED" <=> state[i] = "BLOCKED"
    BY <2>2, <2>3, ScheduleKeepsWhoWaits DEF MayBeBoosted
  <2>5. [i \in Slots |-> ppid[i] - 1]' = [[i \in Slots |-> ppid[i] - 1]
                                             EXCEPT ![child] = currentTask]
    <3>. DEFINE spawned == [i \in Slots |-> IF i = child THEN currentTask ELSE ppid[i] - 1]
    <3>1. \A i \in Slots : ppid'[i] - 1 = IF i = child THEN currentTask ELSE ppid[i] - 1
      BY <1>1, <2>1, <2>2, TableFacts
    <3>. HIDE DEF child
    <3>2. [i \in Slots |-> ppid[i] - 1]' = spawned
      BY <3>1
    <3>3. [[i \in Slots |-> ppid[i] - 1] EXCEPT ![child] = currentTask] = spawned
      BY <2>1
    <3>. QED BY <3>2, <3>3
  <2>6. UNCHANGED {i \in Live : state[i] = "ZOMBIE"}
    BY <1>1, <2>1, <2>3, <2>4, TableFacts
  <2>7. \A i \in Slots : Awaited(i)' = Awaited(i)
    <3>. SUFFICES ASSUME NEW i \in Slots PROVE Awaited(i)' = Awaited(i)
      OBVIOUS
    <3>1. CASE state[i] # "BLOCKED"
      BY <2>4, <3>1 DEF Awaited
    <3>2. CASE state[i] = "BLOCKED"
      <4>1. i \in Live /\ i # currentTask /\ pid'[i] = i + 1 /\ pid[i] = i + 1
            /\ state'[i] = "BLOCKED"
        BY <1>1, <2>1, <2>2, <2>3, <2>4, <3>2, TableFacts
      <4>2. ppid'[child] # i + 1
        BY <1>1, <2>1, <2>2, <4>1, TableFacts
      <4>3. ASSUME NEW j \in Live
            PROVE  /\ ppid'[j] = ppid[j] /\ pid'[j] = pid[j]
                   /\ state'[j] = "ZOMBIE" <=> state[j] = "ZOMBIE"
        BY <1>1, <2>1, <2>2, <2>4, TableFacts
      <4>. QED BY <1>1, <2>1, <3>2, <4>1, <4>2, <4>3 DEF Awaited
    <3>. QED BY <3>1, <3>2
  <2>8. UNCHANGED [i \in Slots |-> Awaited(i)]
    BY <2>7
  <2>9. Tree!HandOver
    BY <2>2, HandsOver DEF Finished, Chosen, Live
  <2>10. currentTask # -1
    BY DEF Fork, UserMode
  <2>11. Tree!Spawn(child)
    BY <2>1, <2>5, <2>6, <2>8, <2>9, <2>10 DEF Tree!Spawn
  <2>12. OnlyFirstIsOrphan'
    <3>. SUFFICES ASSUME NEW i \in Live', i # 0 PROVE ppid'[i] # 0
      BY DEF OnlyFirstIsOrphan
    <3>1. CASE i = child
      <4>1. ppid'[child] = currentTask + 1
        BY <1>1, <2>1, <2>2, TableFacts
      <4>. QED BY <1>1, <3>1, <4>1, TableFacts
    <3>2. CASE i \in Live /\ i # child
      <4>1. ppid'[i] = ppid[i]
        BY <1>1, <2>2, <3>2, TableFacts
      <4>. QED BY <3>2, <4>1 DEF TreeInv, OnlyFirstIsOrphan
    <3>. QED BY <2>1, <3>1, <3>2
  <2>. QED BY <2>1, <2>11, <2>12
<1>4. numTasks < MaxTasks \/ numTasks >= MaxTasks
  BY <1>1, TableFacts
<1>. QED BY <1>2, <1>3, <1>4 DEF Tree!Spawn

(* An exit finishes the task on the CPU: whoever waited for it waits for   *)
(* one process less, and a parent is woken just when that was the last.    *)
LEMMA ExitFinishes ==
  ASSUME TreeInv, ~Dynamic, TableInv', NEW ret, currentTask # 0, Exit(ret)
  PROVE  Tree!Finish /\ OnlyFirstIsOrphan'
<1>1. /\ TableInv
      /\ currentTask \in Live /\ currentTask \in Slots /\ numTasks > 0
      /\ UNCHANGED <<numTasks, pid, ppid>> /\ Live' = Live
      /\ state[currentTask] \in {"RUNNING", "READY"}
  BY CallerIsLive DEF TreeInv, Exit, Live, TableInv, CpuOwnerCanRun, UserMode
<1>2. /\ Finished(numTasks, WokenTable, ppid, blocking_pid')
      /\ WokenTable[currentTask] = "ZOMBIE"
      /\ \A i \in Slots : state[i] = "ZOMBIE" => WokenTable[i] = "ZOMBIE"
      /\ \A i \in Slots : WokenTable[i] # state[i] =>
           i = currentTask \/ (i \in Woken(ExitedTable) /\ state[i] = "BLOCKED")
  BY <1>1, ExitHandled, ExitFinished
<1>3. \A i \in Slots : /\ state'[i] = "ZOMBIE" <=> WokenTable[i] = "ZOMBIE"
                       /\ state'[i] = "BLOCKED" <=> WokenTable[i] = "BLOCKED"
  BY <1>2, ScheduleKeepsWhoWaits DEF MayBeBoosted
<1>4. \A i \in Slots : i \in Woken(ExitedTable) => WokenTable[i] = "READY"
  BY DEF WokenTable
<1>5. \A i \in Slots : i \notin Woken(ExitedTable) => blocking_pid'[i] = blocking_pid[i]
  BY DEF Exit, ExitedTable
<1>6. \A i \in Slots : state'[i] = "ZOMBIE" <=> state[i] = "ZOMBIE" \/ i = currentTask
  BY <1>2, <1>3, <1>4
<1>7. {i \in Live : state[i] = "ZOMBIE"}'
        = {i \in Live : state[i] = "ZOMBIE"} \cup {currentTask}
  BY <1>1, <1>6, TableFacts
<1>8. ASSUME NEW i \in Slots
      PROVE  Awaited(i)' = Awaited(i) \ {currentTask}
  <2>1. CASE state[i] # "BLOCKED"
    <3>1. state'[i] # "BLOCKED"
      BY <1>1, <1>2, <1>3, <2>1
    <3>. QED BY <2>1, <3>1 DEF Awaited
  <2>2. CASE state[i] = "BLOCKED" /\ state'[i] # "BLOCKED"
    <3>1. \A j \in Awaited(i) : state'[j] = "ZOMBIE"
      BY <1>1, <2>2, ExitEndsWaits DEF MayBeBoosted
    <3>2. \A j \in Awaited(i) : j \in Slots /\ state[j] # "ZOMBIE"
      BY <1>1, TableFacts DEF Awaited
    <3>3. \A j \in Awaited(i) : j = currentTask
      BY <1>6, <3>1, <3>2
    <3>4. Awaited(i)' = {}
      BY <2>2 DEF Awaited
    <3>. QED BY <3>3, <3>4
  <2>3. CASE state[i] = "BLOCKED" /\ state'[i] = "BLOCKED"
    <3>1. blocking_pid'[i] = blocking_pid[i]
      BY <1>3, <1>4, <1>5, <2>3
    <3>2. \A j \in Live : state'[j] # "ZOMBIE" <=> state[j] # "ZOMBIE" /\ j # currentTask
      BY <1>1, <1>6, TableFacts
    <3>. QED BY <1>1, <2>3, <3>1, <3>2 DEF Awaited
  <2>. QED BY <2>1, <2>2, <2>3
<1>9. [i \in Slots |-> Awaited(i)]'
        = [p \in Slots |-> [i \in Slots |-> Awaited(i)][p] \ {currentTask}]
  BY <1>8
<1>10. Tree!HandOver
  BY <1>1, <1>2, HandsOver DEF Finished, Chosen, Live
<1>11. currentTask # -1 /\ ppid[currentTask] - 1 # -1
  BY <1>1, TableFacts DEF TreeInv, OnlyFirstIsOrphan
<1>. QED BY <1>1, <1>7, <1>9, <1>10, <1>11 DEF Tree!Finish, TreeInv, OnlyFirstIsOrphan

(* A wait that has something to wait for blocks its caller on one          *)
(* unfinished child or on all there are.                                   *)
LEMMA WaitAwaits ==
  ASSUME TreeInv, ~Dynamic, TableInv', NEW target \in WaitTargets,
         NEW ret, Wait(target, ret)
  PROVE  (Tree!Await \/ Tree!Preempt) /\ OnlyFirstIsOrphan'
<1>1. /\ TableInv
      /\ currentTask \in Live /\ currentTask \in Slots /\ numTasks > 0
      /\ UNCHANGED <<numTasks, pid, ppid>> /\ Live' = Live
      /\ state[currentTask] \in {"RUNNING", "READY"}
  BY CallerIsLive DEF TreeInv, Wait, Live, TableInv, CpuOwnerCanRun, UserMode
<1>2. CASE ~Awaitable(target)
  <2>1. UNCHANGED blocking_pid /\ Schedule(numTasks, state, priority, cpustate)
    BY <1>2 DEF Wait
  <2>2. Finished(numTasks, state, ppid, blocking_pid)
    BY <1>1, <2>1, InvHandled, ScheduleKeepsSound
  <2>. QED BY <1>1, <2>1, <2>2, RefusedCallPreempts
<1>3. CASE Awaitable(target)
  <2>. DEFINE unfinished == {c \in Live : ppid[c] = currentTask + 1 /\ state[c] # "ZOMBIE"}
              children == {c \in unfinished : target \in {c + 1, WAIT_ALL_CHILDREN}}
  <2>1. /\ Finished(numTasks, BlockedTable, ppid, blocking_pid')
        /\ BlockedTable[currentTask] = "BLOCKED"
        /\ \A i \in Slots : i # currentTask => BlockedTable[i] = state[i]
    BY <1>1, <1>3, AwaitFinished
  <2>2. /\ state'[currentTask] = "BLOCKED"
        /\ \A i \in Slots : state'[i] = "ZOMBIE" <=> state[i] = "ZOMBIE"
        /\ \A i \in Slots : i # currentTask =>
             (state'[i] = "BLOCKED" <=> state[i] = "BLOCKED")
    BY <1>1, <2>1, ScheduleKeepsWhoWaits DEF MayBeBoosted
  <2>3. blocking_pid' = [blocking_pid EXCEPT ![currentTask] = target]
    BY <1>3 DEF Wait
  <2>4. /\ blocking_pid'[currentTask] = target
        /\ \A i \in Slots : i # currentTask => blocking_pid'[i] = blocking_pid[i]
    BY <1>1, <2>3, TableFacts
  <2>5. ASSUME NEW i \in Slots, i # currentTask
        PROVE  Awaited(i)' = Awaited(i)
    BY <1>1, <2>2, <2>4, <2>5, TableFacts DEF Awaited
  <2>6. ASSUME NEW i \in Slots, i = currentTask
        PROVE  Awaited(i)' = children
    <3>1. /\ ppid' = ppid /\ pid'[i] = currentTask + 1
          /\ \A j \in Live : pid'[j] = j + 1 /\ (state'[j] = "ZOMBIE" <=> state[j] = "ZOMBIE")
      BY <1>1, <2>2, <2>6, TableFacts
    <3>. QED BY <1>1, <2>2, <2>4, <2>6, <3>1 DEF Awaited
  <2>. HIDE DEF children
  <2>7. [i \in Slots |-> Awaited(i)]'
          = [[i \in Slots |-> Awaited(i)] EXCEPT ![currentTask] = children]
    BY <1>1, <2>5, <2>6
  <2>8. Tree!UnfinishedChildren(currentTask) = unfinished
    <3>1. \A c \in Live : ppid[c] - 1 = currentTask <=> ppid[c] = currentTask + 1
      BY <1>1, TableFacts
    <3>2. \A c \in Live : [i \in Slots |-> ppid[i] - 1][c] = ppid[c] - 1
      BY <1>1, TableFacts
    <3>. QED BY <3>1, <3>2 DEF Tree!UnfinishedChildren
  <2>. USE DEF children
  <2>9. children # {} /\ children \in {unfinished} \cup {{c} : c \in unfinished}
    <3>1. CASE target = WAIT_ALL_CHILDREN
      <4>1. children = unfinished
        BY <3>1
      <4>2. unfinished # {}
        BY <1>1, <1>3, <3>1, TableFacts DEF Awaitable, IsThereAliveChild
      <4>. QED BY <4>1, <4>2
    <3>2. CASE target # WAIT_ALL_CHILDREN
      <4>1. PICK c \in Live : c + 1 = target /\ ppid[c] = pid[currentTask]
                              /\ state[c] # "ZOMBIE"
        BY <1>1, <1>3, <3>2, FindTaskFindsSlot DEF Awaitable
      <4>2. c \in unfinished
        BY <1>1, <4>1, TableFacts
      <4>3. \A d \in Live : d + 1 = target <=> d = c
        BY <1>1, <4>1, TableFacts
      <4>4. children = {c}
        BY <3>2, <4>2, <4>3
      <4>. QED BY <4>2, <4>4
    <3>. QED BY <3>1, <3>2
  <2>10. UNCHANGED {i \in Live : state[i] = "ZOMBIE"}
    BY <1>1, <2>2, TableFacts
  <2>11. Tree!HandOver
    BY <1>1, <2>1, HandsOver DEF Finished, Chosen, Live
  <2>12. currentTask # -1
    BY DEF Wait, UserMode
  <2>. HIDE DEF unfinished, children
  <2>13. Tree!Await
    BY <1>1, <2>7, <2>8, <2>9, <2>10, <2>11, <2>12 DEF Tree!Await
  <2>. QED BY <1>1, <2>13 DEF TreeInv, OnlyFirstIsOrphan
<1>. QED BY <1>2, <1>3

-----------------------------------------------------------------------------
(* Every step of the table is a step of the tree or unseen by it.          *)
LEMMA NextIsTreeNext ==
  ASSUME ~InitExits, ~Dynamic, IndInv, TreeInv, [Next]_vars
  PROVE  [Tree!Next]_(Tree!vars) /\ TreeInv'
<1>. USE DEF Tree!Next
<1>1. TableInv'
  BY NextKeeps DEF IndInv
<1>2. CASE AddInit
  BY <1>1, <1>2, AddInitBoots DEF TreeInv
<1>3. CASE TimerInterrupt
  BY <1>1, <1>3, TimerInterruptPreempts DEF TreeInv
<1>4. CASE UserMode /\ \E prio \in Priorities \cup {Inherit} : Fork(prio, Here)
  BY <1>1, <1>4, ForkSpawns, PriorityAssumption DEF TreeInv
<1>5. CASE UserMode /\ MayExit /\ Exit(Here)
  BY <1>1, <1>5, ExitFinishes DEF TreeInv, MayExit
<1>6. CASE UserMode /\ \E target \in WaitTargets : Wait(target, Here)
  BY <1>1, <1>6, WaitAwaits DEF TreeInv
<1>7. CASE \/ Activate
           \/ UserMode /\ \E program \in Programs : Exec(program)
           \/ UserMode /\ \E call \in Reports : Report(call, Here)
           \/ UserMode /\ UseDynamicPriority(Here)
           \/ UNCHANGED vars
  <2>1. UNCHANGED <<numTasks, currentTask, pid, ppid, blocking_pid, state>>
    BY <1>7 DEF Activate, Exec, Report, UseDynamicPriority, NoSchedule, vars, tableVars
  <2>. QED BY <1>1, <2>1, QuietStep DEF TreeInv
<1>. QED BY <1>2, <1>3, <1>4, <1>5, <1>6, <1>7 DEF Next

(* Programs can rely on the tree: fork adds a child of the caller, exit is *)
(* final and ends exactly the waits for it, wait is over only then, and    *)
(* the CPU is never given to a process that waits or has finished.         *)
THEOREM TableIsProcessTree ==
  ASSUME ~InitExits, "PREEMPTIVE_DYNAMIC_PRIORITY" \notin Schedulers
  PROVE  Spec => ImplementsProcessTree
<1>1. Init => TreeInv /\ Tree!Init
  <2>1. Init => OnlyFirstIsOrphan
    BY DEF Init, OnlyFirstIsOrphan, Live
  <2>. QED BY <2>1, InitEstablishes, InitIsTreeInit DEF TreeInv
<1>2. IndInv => ~Dynamic
  BY DEF IndInv, Kinds, Dynamic
<1>3. IndInv /\ TreeInv /\ [Next]_vars => [Tree!Next]_(Tree!vars) /\ TreeInv'
  BY <1>2, NextIsTreeNext
<1>. QED BY <1>1, <1>3, Invariance, PTL DEF Spec, ImplementsProcessTree, Tree!Spec
=============================================================================
