------------------------- MODULE InputProgramsProofs -------------------------
(***************************************************************************)
(* Theorems about InputPrograms: what the shell and its user may rely on,  *)
(* for every size of the table, every user and every mouse, as long as the *)
(* timer keeps out of the windows between the store of a fork's result and *)
(* its last use.                                                           *)
(***************************************************************************)
EXTENDS InputPrograms, InitProgramsProofs, SequenceTheorems

-----------------------------------------------------------------------------
(* Editing, which is defined by recursion over the keys.                   *)

Blank == [line |-> <<>>, commands |-> <<>>]

(* What the first keys make of an empty line, up to the n-th.              *)
EditsUpTo(keys, n, after) ==
  after = [m \in 0 .. n |->
             IF m = 0 THEN Blank ELSE ShellOfUser!Edit(after[m - 1], keys[m])]

LEMMA EditsExist ==
  ASSUME NEW keys, NEW n \in Nat
  PROVE  \E after : EditsUpTo(keys, n, after)
<1>. DEFINE Missing == {m \in Nat : ~ \E after : EditsUpTo(keys, m, after)}
<1>1. ASSUME Missing # {} PROVE FALSE
  <2>1. PICK m \in Missing : \A e \in Missing : m <= e
    <3>1. Missing \in SUBSET Nat
      OBVIOUS
    <3>. HIDE DEF Missing
    <3>. QED BY <1>1, <3>1, NatSetHasMin
  <2>2. CASE m = 0
    <3>. DEFINE after == [k \in 0 .. 0 |-> Blank]
    <3>1. EditsUpTo(keys, 0, after)
      <4>1. \A k \in 0 .. 0 : k = 0
        OBVIOUS
      <4>. QED BY <4>1 DEF EditsUpTo
    <3>. QED BY <2>2, <3>1
  <2>3. CASE m # 0
    <3>1. m - 1 \in Nat /\ m - 1 \notin Missing
      BY <2>1, <2>3
    <3>2. PICK before : EditsUpTo(keys, m - 1, before)
      BY <3>1
    <3>. DEFINE after == [k \in 0 .. m |-> IF k = 0 THEN Blank
                                           ELSE ShellOfUser!Edit(before[k - 1], keys[k])]
    <3>3. \A k \in 0 .. m - 1 : after[k] = before[k]
      BY <3>1, <3>2 DEF EditsUpTo
    <3>4. \A k \in 0 .. m : k # 0 => k - 1 \in 0 .. m - 1
      BY <3>1
    <3>5. EditsUpTo(keys, m, after)
      BY <3>3, <3>4 DEF EditsUpTo
    <3>. QED BY <2>1, <3>5
  <2>. QED BY <2>2, <2>3
<1>. QED BY <1>1

(* They depend on nothing but the keys so far.                             *)
LEMMA EditsAgree ==
  ASSUME NEW keys, NEW n \in Nat, NEW after, EditsUpTo(keys, n, after),
         NEW keys2, NEW n2 \in Nat, NEW after2, EditsUpTo(keys2, n2, after2),
         NEW last \in Nat, last <= n, last <= n2,
         \A k \in 1 .. last : keys[k] = keys2[k]
  PROVE  after[last] = after2[last]
<1>. DEFINE Wrong == {m \in 0 .. last : after[m] # after2[m]}
<1>1. ASSUME Wrong # {} PROVE FALSE
  <2>1. PICK m \in Wrong : \A e \in Wrong : m <= e
    <3>1. Wrong \in SUBSET Nat
      OBVIOUS
    <3>. HIDE DEF Wrong
    <3>. QED BY <1>1, <3>1, NatSetHasMin
  <2>2. m \in 0 .. n /\ m \in 0 .. n2 /\ after[m] # after2[m]
    BY <2>1
  <2>3. /\ after[m] = IF m = 0 THEN Blank ELSE ShellOfUser!Edit(after[m - 1], keys[m])
        /\ after2[m] = IF m = 0 THEN Blank ELSE ShellOfUser!Edit(after2[m - 1], keys2[m])
    BY <2>2 DEF EditsUpTo
  <2>4. CASE m # 0
    <3>1. m - 1 \in 0 .. last /\ m - 1 \notin Wrong /\ m \in 1 .. last
      BY <2>1, <2>4
    <3>2. after[m - 1] = after2[m - 1] /\ keys[m] = keys2[m]
      BY <3>1
    <3>. QED BY <2>2, <2>3, <3>2
  <2>. QED BY <2>2, <2>3, <2>4
<1>. QED BY <1>1

LEMMA EditedIs ==
  ASSUME NEW keys, Len(keys) \in Nat, NEW after, EditsUpTo(keys, Len(keys), after)
  PROVE  ShellOfUser!Edited(keys) = after[Len(keys)]
<1>. DEFINE chosen == CHOOSE f : EditsUpTo(keys, Len(keys), f)
<1>1. EditsUpTo(keys, Len(keys), chosen)
  OBVIOUS
<1>2. ShellOfUser!Edited(keys) = chosen[Len(keys)]
  BY DEF ShellOfUser!Edited, EditsUpTo, Blank
<1>. HIDE DEF chosen
<1>3. chosen[Len(keys)] = after[Len(keys)]
  BY <1>1, EditsAgree
<1>. QED BY <1>2, <1>3

LEMMA EditedEmpty == ShellOfUser!Edited(<<>>) = Blank
<1>1. PICK after : EditsUpTo(<<>>, 0, after)
  BY EditsExist
<1>2. after[0] = Blank
  BY <1>1 DEF EditsUpTo
<1>. QED BY <1>1, <1>2, EditedIs

(* One key more is one more edit.                                          *)
LEMMA EditedNext ==
  ASSUME NEW keys, NEW keys2, NEW n \in Nat, Len(keys) = n, Len(keys2) = n + 1,
         \A k \in 1 .. n : keys[k] = keys2[k]
  PROVE  ShellOfUser!Edited(keys2) = ShellOfUser!Edit(ShellOfUser!Edited(keys), keys2[n + 1])
<1>1. PICK after : EditsUpTo(keys, n, after)
  BY EditsExist
<1>2. PICK after2 : EditsUpTo(keys2, n + 1, after2)
  <2>1. n + 1 \in Nat
    OBVIOUS
  <2>. QED BY <2>1, EditsExist
<1>3. after[n] = after2[n]
  BY <1>1, <1>2, EditsAgree
<1>4. after2[n + 1] = ShellOfUser!Edit(after2[n], keys2[n + 1])
  <2>1. n + 1 \in 0 .. n + 1 /\ n + 1 # 0 /\ n + 1 - 1 = n
    OBVIOUS
  <2>. QED BY <1>2, <2>1 DEF EditsUpTo
<1>5. ShellOfUser!Edited(keys) = after[n] /\ ShellOfUser!Edited(keys2) = after2[n + 1]
  BY <1>1, <1>2, EditedIs
<1>. QED BY <1>3, <1>4, <1>5

(* The shell's loop edits its buffer as the user expects.                  *)
IsEdited(edited) == edited = [line |-> edited.line, commands |-> edited.commands]

LEMMA BufferIsLine ==
  ASSUME NEW edited, IsEdited(edited), NEW key
  PROVE  /\ IsEdited(ShellOfUser!Edit(edited, key))
         /\ ShellOfUser!Edit(edited, key).line = Buffer(edited.line, key)
<1>1. Backspace # Enter
  BY KeysAssumption
<1>2. ASSUME NEW line
      PROVE  [edited EXCEPT !.line = line] = [line |-> line, commands |-> edited.commands]
  BY DEF IsEdited
<1>3. CASE key = Backspace
  <2>. DEFINE line == IF edited.line = <<>> THEN edited.line
                      ELSE SubSeq(edited.line, 1, Len(edited.line) - 1)
  <2>1. ShellOfUser!Edit(edited, key) = [line |-> line, commands |-> edited.commands]
    <3>1. ShellOfUser!Edit(edited, key) = [edited EXCEPT !.line = line]
      BY <1>1, <1>3 DEF ShellOfUser!Edit
    <3>. QED BY <1>2, <3>1
  <2>2. Buffer(edited.line, key) = line
    <3>1. CASE edited.line = <<>>
      BY <1>1, <1>3, <3>1 DEF Buffer
    <3>2. CASE edited.line # <<>>
      BY <1>1, <1>3, <3>2 DEF Buffer
    <3>. QED BY <3>1, <3>2
  <2>. HIDE DEF line
  <2>. QED BY <2>1, <2>2 DEF IsEdited
<1>4. CASE key = Enter
  BY <1>1, <1>4 DEF ShellOfUser!Edit, Buffer, IsEdited
<1>5. CASE key # Backspace /\ key # Enter
  <2>1. ShellOfUser!Edit(edited, key)
          = [line |-> Append(edited.line, key), commands |-> edited.commands]
    BY <1>2, <1>5 DEF ShellOfUser!Edit
  <2>2. Buffer(edited.line, key) = Append(edited.line, key)
    BY <1>5 DEF Buffer
  <2>. QED BY <2>1, <2>2 DEF IsEdited
<1>. QED BY <1>3, <1>4, <1>5

LEMMA EditedHasLine ==
  ASSUME NEW keys, Len(keys) \in Nat
  PROVE  IsEdited(ShellOfUser!Edited(keys))
<1>1. PICK after : EditsUpTo(keys, Len(keys), after)
  BY EditsExist
<1>. DEFINE Wrong == {m \in 0 .. Len(keys) : ~IsEdited(after[m])}
<1>2. ASSUME Wrong # {} PROVE FALSE
  <2>1. PICK m \in Wrong : \A e \in Wrong : m <= e
    <3>1. Wrong \in SUBSET Nat
      OBVIOUS
    <3>. HIDE DEF Wrong
    <3>. QED BY <1>2, <3>1, NatSetHasMin
  <2>2. after[m] = IF m = 0 THEN Blank ELSE ShellOfUser!Edit(after[m - 1], keys[m])
    BY <1>1, <2>1 DEF EditsUpTo
  <2>3. CASE m = 0
    BY <2>1, <2>2, <2>3 DEF IsEdited, Blank
  <2>4. CASE m # 0
    <3>1. m - 1 \in 0 .. Len(keys) /\ m - 1 \notin Wrong
      BY <2>1, <2>4
    <3>. QED BY <2>1, <2>2, <2>4, <3>1, BufferIsLine
  <2>. QED BY <2>3, <2>4
<1>3. Len(keys) \notin Wrong
  BY <1>2
<1>4. IsEdited(after[Len(keys)])
  BY <1>3
<1>. QED BY <1>1, <1>4, EditedIs
-----------------------------------------------------------------------------
(* The inductive invariant.                                                *)

InputBuilds == {InputPriority} \cup {RandomProcessSpawn(p) : p \in ProgramNames}

(* The points of the texts: init's, its children's before they exec, the   *)
(* shell's, and those that a child of the shell passes before it execs.    *)
InitPoints  == {"fork", "forked", "test", "wait", "waited"}
ChildPoints == {"await_key", "await_click", "count_clicks", "exec"}
ShellPoints == {"shell", "edit", "launch", "launched", "launch_test", "launch_wait"}

InputPoints ==
  InitPoints \cup ChildPoints \cup ShellPoints \cup {"launch_exec", "exited"} \cup ProgramNames

InputText == [at : InputPoints, k : Nat]

ShellLocals ==
  [buffer : Seq(Keyboard), input : Seq(Keyboard),
   program : ProgramNames \cup {"none"}, pid : Int]

InputTypes ==
  /\ build \in Builds \cap InputBuilds
  /\ frame \in [pid : Int, pid2 : Int, initial_count : Int]
  /\ regs \in [Slots -> [eip : InputText, ecx : Int]]
  /\ shell \in ShellLocals
  /\ typed \in Seq(Keyboard) /\ pressedKeys \in Seq(Keyboard)

(* What fork returned to task i, which has not tested it yet.              *)
InitsResult(i) == IF At(i, "forked") THEN regs[i].ecx ELSE frame.pid
ShellsResult(i) == IF At(i, "launched") THEN regs[i].ecx ELSE shell.pid

(* Init, which has a child when it comes to its second entry.              *)
InitsText ==
  \/ At(0, "fork") /\ regs[0].eip.k = 1 /\ numTasks = 1
  \/ At(0, "fork") /\ regs[0].eip.k = 2 /\ numTasks > 1
  \/ /\ regs[0].eip.at \in {"forked", "test"} /\ regs[0].eip.k \in {1, 2}
     /\ numTasks > 1 /\ InitsResult(0) # 0
  \/ regs[0].eip.at \in {"wait", "waited"} /\ numTasks > 1

(* A child of init, the first of which is in slot 1, and which is the      *)
(* shell in one of the builds.                                             *)
Entered(i) == regs[i].eip.k \in {1, 2} /\ (regs[i].eip.k = 1 <=> i = 1)

BranchPoints ==
  IF HasShell THEN {"count_clicks", "exec"} ELSE {"await_key", "await_click", "exec"}

ShellsText ==
  /\ regs[1].eip.at \in ShellPoints
  /\ regs[1].eip.at \in {"launched", "launch_test"} => ShellsResult(1) # 0
  /\ regs[1].eip.at \in {"launch", "launched", "launch_test"} => shell.program # "none"

InitsChildText(i) ==
  \/ regs[i].eip.at \in {"forked", "test"} /\ Entered(i) /\ InitsResult(i) = 0
  \/ regs[i].eip.at \in BranchPoints /\ Entered(i) /\ (HasShell => (At(i, "exec") <=> i = 1))
  \/ ~HasShell /\ regs[i].eip.at \in ProgramNames \cup {"exited"}
  \/ HasShell /\ i = 1 /\ ShellsText

(* A child of the shell.                                                   *)
ShellsChildText(i) ==
  \/ At(i, "launched") /\ regs[i].ecx = 0 /\ shell.program # "none"
  \/ At(i, "launch_test") /\ shell.pid = 0 /\ shell.program # "none"
  \/ At(i, "launch_exec") /\ shell.program # "none"
  \/ regs[i].eip.at \in ProgramNames \cup {"exited"}

TaskText(i) ==
  \/ i = 0 /\ InitsText
  \/ i # 0 /\ ppid[i] = 1 /\ InitsChildText(i)
  \/ i > 1 /\ HasShell /\ ppid[i] = 2 /\ ShellsChildText(i)

(* Only the current task is ever about to use a result that it has stored  *)
(* where others store theirs.                                              *)
InWindow(i) == regs[i].eip.at \in {"test", "launch_test", "launch_wait"}
Windows == \A i \in Live : InWindow(i) => i = currentTask

(* Of the shell's children only the one that it is about to wait for, or   *)
(* waits for, has not exited.                                              *)
LastChild(i) ==
  \/ At(1, "launched") /\ regs[1].ecx = i + 1
  \/ regs[1].eip.at \in {"launch_test", "launch_wait"} /\ shell.pid = i + 1
  \/ At(1, "edit") /\ state[1] = "BLOCKED" /\ blocking_pid[1] = i + 1

OneAtATime == \A i \in Live : ppid[i] = 2 /\ state[i] # "ZOMBIE" => LastChild(i)

(* The input is what was read last: nothing of it is left when the shell   *)
(* reads again.                                                            *)
NothingLeft ==
  shell.input # <<>> => numTasks > 1 /\ regs[1].eip.at \in ShellPoints \ {"shell"}

(* If fresh memory is zero, the keys that are still in input and in        *)
(* pressedKeys are the last ones typed, and the line is what the others    *)
(* have made of it.                                                        *)
KeysHandled == Len(typed) - Len(shell.input) - Len(pressedKeys)

KeysInOrder ==
  /\ KeysHandled \in Nat
  /\ \A n \in 1 .. Len(shell.input) : typed[KeysHandled + n] = shell.input[n]
  /\ \A n \in 1 .. Len(pressedKeys) :
       typed[KeysHandled + Len(shell.input) + n] = pressedKeys[n]
  /\ shell.buffer = ShellOfUser!Edited(SubSeq(typed, 1, KeysHandled)).line

KeysHeld == Junk \subseteq {<<>>} => KeysInOrder

TextsInv == (\A i \in Live : TaskText(i)) /\ Windows

InputInv ==
  /\ InputTypes
  /\ TableInv /\ schedulerType = "ROUNDROBIN"
  /\ TextsInv
  /\ HasShell => OneAtATime /\ NothingLeft /\ KeysHeld

-----------------------------------------------------------------------------
(* The scripts, and the task that takes a step.                            *)

LEMMA ScriptIs ==
  ASSUME InputTypes
  PROVE  /\ Len(Script) = 2 /\ MaxTasks > 2
         /\ build.scheduler = "ROUNDROBIN" /\ build.ending = "spin"
         /\ \A k \in {1, 2} : /\ Script[k].local = "pid"
                              /\ Script[k].priority \in Nat \cup {Inherit}
                              /\ ~Script[k].pause
         /\ HasShell => /\ Script[1].branch = "exec" /\ Script[1].program = "shell"
                        /\ Script[2].branch = "count_clicks"
         /\ ~HasShell => /\ Script[1].branch = "await_key"
                         /\ Script[2].branch = "await_click"
                         /\ Script[1].program \in ProgramNames
                         /\ Script[2].program \in ProgramNames
<1>1. MaxTasks \in Nat /\ Len(build.script) \in 1 .. MaxTasks - 1
  BY MaxTasksAssumption, BuildAssumption DEF InputTypes
<1>2. CASE HasShell
  <2>1. build = InputPriority
    BY <1>2 DEF HasShell
  <2>2. /\ build.scheduler = "ROUNDROBIN" /\ build.ending = "spin"
        /\ build.script = <<[Start EXCEPT !.program = "shell"],
                            [Start EXCEPT !.priority = 1, !.branch = "count_clicks"]>>
    BY <2>1 DEF InputPriority
  <2>3. Len(Script) = 2 /\ Script[1] = [Start EXCEPT !.program = "shell"]
        /\ Script[2] = [Start EXCEPT !.priority = 1, !.branch = "count_clicks"]
    BY <2>2 DEF Script
  <2>4. /\ Script[1].local = "pid" /\ Script[2].local = "pid"
        /\ Script[1].priority = Inherit /\ Script[2].priority = 1
        /\ ~Script[1].pause /\ ~Script[2].pause
        /\ Script[1].branch = "exec" /\ Script[1].program = "shell"
        /\ Script[2].branch = "count_clicks"
    BY <2>3 DEF Start
  <2>. QED BY <1>1, <1>2, <2>2, <2>3, <2>4 DEF Script
<1>3. CASE ~HasShell
  <2>1. PICK p \in ProgramNames : build = RandomProcessSpawn(p)
    BY <1>3 DEF HasShell, InputTypes, InputBuilds
  <2>2. /\ build.scheduler = "ROUNDROBIN" /\ build.ending = "spin"
        /\ build.script = <<[Start EXCEPT !.branch = "await_key", !.program = p],
                            [Start EXCEPT !.branch = "await_click", !.program = p]>>
    BY <2>1 DEF RandomProcessSpawn
  <2>3. /\ Len(Script) = 2
        /\ Script[1] = [Start EXCEPT !.branch = "await_key", !.program = p]
        /\ Script[2] = [Start EXCEPT !.branch = "await_click", !.program = p]
    BY <2>2 DEF Script
  <2>4. /\ Script[1].local = "pid" /\ Script[2].local = "pid"
        /\ Script[1].priority = Inherit /\ Script[2].priority = Inherit
        /\ ~Script[1].pause /\ ~Script[2].pause
        /\ Script[1].branch = "await_key" /\ Script[2].branch = "await_click"
        /\ Script[1].program = p /\ Script[2].program = p
    BY <2>3 DEF Start
  <2>. QED BY <1>1, <1>3, <2>2, <2>3, <2>4 DEF Script
<1>. QED BY <1>2, <1>3

LEMMA InputLabels ==
  ASSUME NEW at \in InputPoints, NEW k \in Nat
  PROVE  Label(at, k) \in InputText /\ Label(at, k).at = at /\ Label(at, k).k = k
BY DEF Label, InputText

LEMMA InputEntries ==
  ASSUME InputTypes
  PROVE  Entry(1) = Label("fork", 1) /\ Entry(2) = Label("fork", 2) /\ Entry(3) = Label("wait", 0)
<1>1. Len(Script) = 2 /\ ~Script[1].pause /\ ~Script[2].pause
  BY ScriptIs
<1>. QED BY <1>1 DEF Entry

(* What the task that takes a step may rely on.                            *)
LEMMA CallerFacts ==
  ASSUME InputInv, UserMode
  PROVE  /\ currentTask \in Live /\ currentTask \in Slots /\ esp = currentTask
         /\ numTasks \in 1 .. MaxTasks /\ numTasks > 0 /\ 0 \in Live /\ 0 \in Slots /\ 1 \in Slots
         /\ state[currentTask] \in {"RUNNING", "READY"}
         /\ here \in InputText /\ here = regs[currentTask].eip
         /\ regs[currentTask].ecx \in Int /\ regs[esp].ecx = regs[currentTask].ecx
         /\ TaskText(currentTask)
         /\ \A i \in Live : i # currentTask => ~InWindow(i)
<1>1. TableInv /\ InputTypes /\ TextsInv
  BY DEF InputInv
<1>2. /\ numTasks \in 1 .. MaxTasks /\ currentTask \in Live /\ currentTask \in Slots
      /\ esp = currentTask /\ state[currentTask] \in {"RUNNING", "READY"} /\ numTasks > 0
  BY <1>1, CallerIsLive
<1>3. 0 \in Live /\ 0 \in Slots /\ 1 \in Slots
  BY <1>1, <1>2, ScriptIs, MaxTasksAssumption DEF Live, Slots
<1>4. regs[currentTask] \in [eip : InputText, ecx : Int]
  BY <1>1, <1>2 DEF InputTypes
<1>. QED BY <1>1, <1>2, <1>3, <1>4 DEF here, TextsInv, Windows

(* Whose point of the texts it is at.                                      *)
InitsFork(at, k) == at = "fork" => currentTask = 0 /\ (IF k = 1 THEN numTasks = 1
                                                       ELSE k = 2 /\ numTasks > 1)
InitsWait(at) == at \in {"wait", "waited"} => currentTask = 0 /\ numTasks > 1

AfterFork(at, k) ==
  at \in {"forked", "test"} =>
    /\ k \in {1, 2}
    /\ \/ currentTask = 0 /\ numTasks > 1 /\ InitsResult(0) # 0
       \/ /\ currentTask # 0 /\ ppid[currentTask] = 1 /\ (k = 1 <=> currentTask = 1)
          /\ InitsResult(currentTask) = 0

InBranch(at, k) ==
  at \in ChildPoints =>
    /\ k \in {1, 2} /\ at \in BranchPoints
    /\ currentTask # 0 /\ ppid[currentTask] = 1 /\ (k = 1 <=> currentTask = 1)
    /\ HasShell => (at = "exec" <=> currentTask = 1)

InProgram(at) ==
  at \in ProgramNames =>
    /\ currentTask # 0
    /\ HasShell => currentTask > 1 /\ ppid[currentTask] = 2
    /\ ~HasShell => ppid[currentTask] = 1

InShell(at) ==
  /\ at \in {"shell", "edit", "launch", "launch_wait"} =>
       HasShell /\ currentTask = 1 /\ ppid[1] = 1 /\ ShellsText
  /\ at \in {"launched", "launch_test"} =>
       /\ HasShell /\ shell.program # "none"
       /\ \/ currentTask = 1 /\ ppid[1] = 1 /\ ShellsText
          \/ currentTask > 1 /\ ppid[currentTask] = 2 /\ ShellsResult(currentTask) = 0
  /\ at = "launch_exec" =>
       HasShell /\ currentTask > 1 /\ ppid[currentTask] = 2 /\ shell.program # "none"

LEMMA CallerIsAt ==
  ASSUME InputInv, UserMode
  PROVE  /\ InitsFork(here.at, here.k) /\ InitsWait(here.at) /\ AfterFork(here.at, here.k)
         /\ InBranch(here.at, here.k) /\ InProgram(here.at) /\ InShell(here.at)
<1>. DEFINE at == here.at
            k == here.k
<1>1. /\ TaskText(currentTask) /\ currentTask \in Nat
      /\ at = regs[currentTask].eip.at /\ k = regs[currentTask].eip.k
  BY CallerFacts, MaxTasksAssumption DEF Slots
<1>. HIDE DEF at, k
<1>2. CASE currentTask = 0
  <2>1. InitsText
    BY <1>1, <1>2 DEF TaskText
  <2>2. at \in InitPoints
    BY <1>1, <1>2, <2>1 DEF InitsText, At, InitPoints
  <2>3. InitsFork(at, k) /\ InitsWait(at) /\ AfterFork(at, k)
    BY <1>1, <1>2, <2>1 DEF InitsText, At, InitsFork, InitsWait, AfterFork
  <2>4. InBranch(at, k) /\ InProgram(at) /\ InShell(at)
    BY <2>2 DEF InitPoints, InBranch, InProgram, InShell, ChildPoints, ProgramNames
  <2>. QED BY <2>3, <2>4 DEF at, k
<1>3. CASE currentTask # 0 /\ ppid[currentTask] = 1 /\ InitsChildText(currentTask)
  <2>1. CASE at \in {"forked", "test"} /\ Entered(currentTask) /\ InitsResult(currentTask) = 0
    BY <1>1, <1>3, <2>1 DEF Entered, InitsFork, InitsWait, AfterFork, InBranch, InProgram,
                            InShell, ChildPoints, ProgramNames, at, k
  <2>2. CASE /\ at \in BranchPoints /\ Entered(currentTask)
             /\ HasShell => (At(currentTask, "exec") <=> currentTask = 1)
    BY <1>1, <1>3, <2>2 DEF Entered, At, BranchPoints, InitsFork, InitsWait, AfterFork,
                            InBranch, InProgram, InShell, ChildPoints, ProgramNames, at, k
  <2>3. CASE ~HasShell /\ at \in ProgramNames \cup {"exited"}
    BY <1>1, <1>3, <2>3 DEF InitsFork, InitsWait, AfterFork, InBranch, InProgram, InShell,
                            ChildPoints, ProgramNames, at, k
  <2>4. CASE HasShell /\ currentTask = 1 /\ ShellsText
    BY <1>1, <1>3, <2>4 DEF ShellsText, ShellPoints, InitsFork, InitsWait, AfterFork,
                            InBranch, InProgram, InShell, ChildPoints, ProgramNames, at, k
  <2>. QED BY <1>1, <1>3, <2>1, <2>2, <2>3, <2>4 DEF InitsChildText
<1>4. CASE /\ currentTask > 1 /\ HasShell /\ ppid[currentTask] = 2
           /\ ShellsChildText(currentTask)
  BY <1>1, <1>4 DEF ShellsChildText, At, ShellsResult, InitsFork, InitsWait, AfterFork,
                    InBranch, InProgram, InShell, ChildPoints, ProgramNames, at, k
<1>. QED BY <1>1, <1>2, <1>3, <1>4 DEF TaskText


-----------------------------------------------------------------------------
(* What a step does not disturb.                                           *)

(* A task that is left alone outside the windows stays where it is, and so *)
(* does its text: it holds its own result of fork.                         *)
RoomStays == numTasks' = numTasks \/ (numTasks > 1 /\ numTasks' > 1)
ProgramStays == shell.program # "none" => shell'.program # "none"

LEMMA LeftAlone ==
  ASSUME UNCHANGED build, RoomStays, ProgramStays,
         NEW i, TaskText(i), ~InWindow(i), regs'[i] = regs[i], ppid'[i] = ppid[i]
  PROVE  TaskText(i)' /\ ~InWindow(i)'
<1>1. HasShell' = HasShell /\ BranchPoints' = BranchPoints
  BY DEF HasShell, BranchPoints
<1>2. /\ regs'[i].eip.at = regs[i].eip.at /\ regs'[i].eip.k = regs[i].eip.k
      /\ regs'[i].ecx = regs[i].ecx
  OBVIOUS
<1>3. \A at : At(i, at)' = At(i, at)
  BY <1>2 DEF At
<1>4. ~At(i, "test") /\ ~At(i, "launch_test") /\ ~InWindow(i)'
  BY <1>2 DEF At, InWindow
<1>5. /\ At(i, "forked") => InitsResult(i)' = InitsResult(i)
      /\ At(i, "launched") => ShellsResult(i)' = ShellsResult(i)
  BY <1>2, <1>3 DEF InitsResult, ShellsResult
<1>6. i = 0 /\ InitsText => InitsText'
  BY <1>2, <1>3, <1>4, <1>5 DEF InitsText, At, RoomStays
<1>7. i = 1 /\ ShellsText => ShellsText'
  BY <1>2, <1>3, <1>4, <1>5 DEF ShellsText, At, ProgramStays
<1>8. InitsChildText(i) => InitsChildText(i)'
  <2>1. Entered(i)' = Entered(i)
    BY <1>2 DEF Entered
  <2>. QED BY <1>1, <1>2, <1>3, <1>4, <1>5, <1>7, <2>1 DEF InitsChildText, At
<1>9. ShellsChildText(i) => ShellsChildText(i)'
  BY <1>2, <1>3, <1>4 DEF ShellsChildText, ProgramStays
<1>. QED BY <1>1, <1>4, <1>6, <1>8, <1>9 DEF TaskText

(* A step of the task on the CPU that adds no task.                        *)
LEMMA TextsGoOn ==
  ASSUME TextsInv, UNCHANGED <<build, numTasks, ppid>>, ProgramStays,
         \A i \in Live : i # currentTask => regs'[i] = regs[i],
         \A i \in Live : i = currentTask => TaskText(i)',
         \A i \in Live : i = currentTask /\ InWindow(i)' => currentTask' = i
  PROVE  TextsInv'
<1>1. Live' = Live
  BY DEF Live
<1>2. ASSUME NEW i \in Live, i # currentTask
      PROVE  TaskText(i)' /\ ~InWindow(i)'
  <2>1. TaskText(i) /\ ~InWindow(i) /\ regs'[i] = regs[i] /\ ppid'[i] = ppid[i]
    BY <1>2 DEF TextsInv, Windows
  <2>2. RoomStays
    BY DEF RoomStays
  <2>. QED BY <2>1, <2>2, LeftAlone
<1>. QED BY <1>1, <1>2 DEF TextsInv, Windows

(* The shell between two programs.                                         *)
Idle ==
  ~ \/ regs[1].eip.at \in {"launched", "launch_test", "launch_wait"}
    \/ At(1, "edit") /\ state[1] = "BLOCKED"

LEMMA IdleMeansFinished ==
  ASSUME OneAtATime, Idle, NEW i \in Live, ppid[i] = 2
  PROVE  state[i] = "ZOMBIE"
BY DEF OneAtATime, LastChild, Idle, At

(* As long as the shell starts nothing.                                    *)
LEMMA OnceIdle ==
  ASSUME OneAtATime, Idle,
         \A i \in Live' : ppid'[i] = 2 =>
           i \in Live /\ ppid[i] = 2 /\ (state[i] = "ZOMBIE" => state'[i] = "ZOMBIE")
  PROVE  OneAtATime'
BY IdleMeansFinished DEF OneAtATime

(* As long as the shell does nothing, or waits for the last it started.    *)
WaitGoesOn ==
  state[1] = "BLOCKED" =>
    \/ state'[1] = "BLOCKED" /\ blocking_pid'[1] = blocking_pid[1]
    \/ \A i \in Live : ppid[i] = 2 /\ blocking_pid[1] = i + 1 => state'[i] = "ZOMBIE"

LEMMA WaitUntouched ==
  ASSUME state'[1] = state[1], blocking_pid'[1] = blocking_pid[1]
  PROVE  WaitGoesOn
BY DEF WaitGoesOn

LEMMA OnceOthers ==
  ASSUME OneAtATime, regs'[1] = regs[1], shell'.pid = shell.pid \/ ~InWindow(1),
         \A i \in Live' : ppid'[i] = 2 =>
           i \in Live /\ ppid[i] = 2 /\ (state[i] = "ZOMBIE" => state'[i] = "ZOMBIE"),
         WaitGoesOn
  PROVE  OneAtATime'
<1>. SUFFICES ASSUME NEW i \in Live', ppid'[i] = 2, state'[i] # "ZOMBIE"
              PROVE  LastChild(i)'
  BY DEF OneAtATime
<1>1. i \in Live /\ ppid[i] = 2 /\ state[i] # "ZOMBIE"
  OBVIOUS
<1>2. LastChild(i)
  BY <1>1 DEF OneAtATime
<1>3. \A at : At(1, at)' = At(1, at)
  BY DEF At
<1>. QED BY <1>1, <1>2, <1>3 DEF LastChild, InWindow, At, WaitGoesOn

LEMMA KeysStay ==
  ASSUME KeysHeld, shell'.buffer = shell.buffer, shell'.input = shell.input,
         UNCHANGED <<typed, pressedKeys>>
  PROVE  KeysHeld'
<1>1. KeysHandled' = KeysHandled
  BY DEF KeysHandled
<1>2. ShellOfUser!Edited(SubSeq(typed, 1, KeysHandled))'
        = ShellOfUser!Edited(SubSeq(typed, 1, KeysHandled))
  BY <1>1 DEF ShellOfUser!Edited, ShellOfUser!Edit
<1>. QED BY <1>1, <1>2 DEF KeysHeld, KeysInOrder

-----------------------------------------------------------------------------
(* The steps that return without scheduling.                               *)

(* The frame of the caller, after a step that goes on at label.            *)
LEMMA InputCallerGoesOn ==
  ASSUME InputInv, UserMode, NEW label \in InputText,
         \/ regs' = [regs EXCEPT ![esp].eip = label]
         \/ \E value \in Int : regs' = Return(label, value)
  PROVE  /\ regs' \in [Slots -> [eip : InputText, ecx : Int]]
         /\ regs'[currentTask].eip = label
         /\ \A i \in Slots : i # currentTask => regs'[i] = regs[i]
<1>1. /\ regs \in [Slots -> [eip : InputText, ecx : Int]]
      /\ currentTask \in Slots /\ esp = currentTask
  BY CallerFacts DEF InputInv, InputTypes
<1>2. CASE regs' = [regs EXCEPT ![esp].eip = label]
  BY <1>1, <1>2
<1>3. ASSUME NEW value \in Int, regs' = Return(label, value)
      PROVE  /\ regs' \in [Slots -> [eip : InputText, ecx : Int]]
             /\ regs'[currentTask].eip = label
             /\ \A i \in Slots : i # currentTask => regs'[i] = regs[i]
  BY <1>1, <1>3 DEF Return
<1>. QED BY <1>2, <1>3

(* A child of the shell is not the shell.                                  *)
LEMMA ShellIsOlder ==
  ASSUME TableInv, NEW i \in Live, ppid[i] = 2
  PROVE  i > 1 /\ 1 \in Live
<1>1. ppid[i] \in 0 .. i /\ i \in Nat /\ numTasks \in Nat
  BY TableFacts DEF TableInv, Sound
<1>. QED BY <1>1 DEF Live

InputTypesStay ==
  /\ frame' \in [pid : Int, pid2 : Int, initial_count : Int]
  /\ shell' \in ShellLocals
  /\ typed' \in Seq(Keyboard) /\ pressedKeys' \in Seq(Keyboard)

(* Such a step keeps the invariant if it takes its task to a point of its  *)
(* own text and, when it is a step of the shell, loses no key.             *)
LEMMA QuietKeepsInput ==
  ASSUME InputInv, UserMode, NoSchedule, UNCHANGED <<taskWithDynamicPriority, build>>,
         InputTypesStay, ProgramStays, NEW label \in InputText,
         \/ regs' = [regs EXCEPT ![esp].eip = label]
         \/ \E value \in Int : regs' = Return(label, value),
         \A i : i = currentTask => TaskText(i)',
         HasShell => KeysHeld',
         HasShell /\ currentTask = 1 => Idle \/ OneAtATime',
         HasShell /\ currentTask = 1 => NothingLeft',
         currentTask # 1 => shell'.input = shell.input
  PROVE  InputInv'
<1>1. /\ regs' \in [Slots -> [eip : InputText, ecx : Int]]
      /\ \A i \in Slots : i # currentTask => regs'[i] = regs[i]
  BY InputCallerGoesOn
<1>2. /\ UNCHANGED <<numTasks, ppid, currentTask, state, blocking_pid, schedulerType>>
      /\ Live' = Live
  BY DEF NoSchedule, tableVars, Live
<1>3. TableInv /\ schedulerType = "ROUNDROBIN" /\ TextsInv /\ Live \subseteq Slots
      /\ 1 \in Slots
  BY CallerFacts, TableFacts DEF InputInv
<1>4. TableInv'
  BY <1>2, <1>3, NoScheduleKeeps DEF Kept, TableInv, TableTypes
<1>5. InputTypes'
  BY <1>1 DEF InputInv, InputTypes, InputTypesStay
<1>6. TextsInv'
  BY <1>1, <1>2, <1>3, TextsGoOn
<1>7. ASSUME HasShell
      PROVE  OneAtATime' /\ NothingLeft'
  <2>1. OneAtATime /\ NothingLeft
    BY <1>7 DEF InputInv
  <2>2. \A i \in Live' : ppid'[i] = 2 =>
          i \in Live /\ ppid[i] = 2 /\ (state[i] = "ZOMBIE" => state'[i] = "ZOMBIE")
    BY <1>2
  <2>3. CASE currentTask = 1
    BY <1>7, <2>1, <2>2, <2>3, OnceIdle
  <2>4. CASE currentTask # 1
    <3>1. regs'[1] = regs[1]
      BY <1>1, <1>3, <2>4
    <3>2. CASE 1 \in Live
      <4>1. ~InWindow(1)
        BY <1>3, <2>4, <3>2 DEF TextsInv, Windows
      <4>2. WaitGoesOn
        <5>1. state'[1] = state[1] /\ blocking_pid'[1] = blocking_pid[1]
          BY <1>2
        <5>. QED BY <5>1, WaitUntouched
      <4>3. OneAtATime'
        BY <2>1, <2>2, <3>1, <4>1, <4>2, OnceOthers
      <4>. QED BY <1>2, <2>1, <2>4, <3>1, <4>3 DEF NothingLeft
    <3>3. CASE 1 \notin Live
      <4>1. OneAtATime'
        BY <1>2, <1>3, <3>3, ShellIsOlder DEF OneAtATime
      <4>. QED BY <1>2, <2>1, <2>4, <3>1, <4>1 DEF NothingLeft
    <3>. QED BY <3>2, <3>3
  <2>. QED BY <2>3, <2>4
<1>8. HasShell' = HasShell
  BY DEF HasShell
<1>. QED BY <1>2, <1>3, <1>4, <1>5, <1>6, <1>7, <1>8 DEF InputInv

(* The kernel's own steps leave what the user has typed alone.             *)
LEMMA InputAlone ==
  ASSUME InputInv, UNCHANGED inputVars,
         frame' \in [pid : Int, pid2 : Int, initial_count : Int]
  PROVE  /\ InputTypesStay /\ ProgramStays /\ shell' = shell /\ shell'.input = shell.input
         /\ HasShell => KeysHeld'
         /\ HasShell /\ regs[1].eip.at \notin ShellPoints \ {"shell"} => NothingLeft'
<1>1. UNCHANGED <<pressedKeys, shell, typed>>
  BY DEF inputVars
<1>2. HasShell => KeysHeld'
  BY <1>1, KeysStay DEF InputInv
<1>. QED BY <1>1, <1>2 DEF InputInv, InputTypes, InputTypesStay, ProgramStays, NothingLeft

LEMMA CallerIsIdle ==
  ASSUME InputInv, UserMode, currentTask = 1,
         here.at \notin {"launched", "launch_test", "launch_wait"}
  PROVE  Idle
<1>1. regs[1].eip.at = here.at /\ state[1] # "BLOCKED"
  BY CallerFacts
<1>. QED BY <1>1 DEF Idle, At

(* A step of init's text, with what fork returned to it.                   *)
LEMMA StoreStepKeepsInput ==
  ASSUME InputInv, UserMode, UNCHANGED <<build, inputVars>>, StoreStep
  PROVE  InputInv'
<1>. DEFINE k == here.k
            label == Label("test", k)
            value == regs[currentTask].ecx
<1>1. /\ here.at = "forked" /\ esp = currentTask /\ regs[currentTask].eip = here
      /\ value \in Int /\ currentTask \in Slots /\ At(currentTask, "forked")
  BY CallerFacts DEF StoreStep, At
<1>2. /\ k \in {1, 2}
      /\ \/ currentTask = 0 /\ numTasks > 1 /\ value # 0
         \/ /\ currentTask # 0 /\ ppid[currentTask] = 1 /\ (k = 1 <=> currentTask = 1)
            /\ value = 0
  BY <1>1, CallerIsAt DEF AfterFork, InitsResult
<1>3. frame' = [frame EXCEPT !.pid = value]
  BY <1>1, <1>2, ScriptIs DEF StoreStep, k_, InputInv
<1>4. /\ frame' \in [pid : Int, pid2 : Int, initial_count : Int]
      /\ frame'.pid = value
  BY <1>1, <1>3 DEF InputInv, InputTypes
<1>5. /\ NoSchedule /\ UNCHANGED taskWithDynamicPriority
      /\ regs' = [regs EXCEPT ![esp].eip = label]
      /\ UNCHANGED <<numTasks, ppid>>
  BY DEF StoreStep, Goto, k_, NoSchedule, tableVars
<1>6. label \in InputText /\ label.at = "test" /\ label.k = k
  BY <1>2, InputLabels DEF InputPoints, InitPoints
<1>. HIDE DEF label, k, value
<1>7. regs'[currentTask].eip = label
  BY <1>5, <1>6, InputCallerGoesOn
<1>8. ASSUME NEW i, i = currentTask
      PROVE  TaskText(i)'
  <2>1. regs'[i].eip.at = "test" /\ regs'[i].eip.k = k
    BY <1>6, <1>7, <1>8
  <2>2. InitsResult(i)' = value
    BY <1>4, <2>1 DEF InitsResult, At
  <2>3. CASE currentTask = 0
    BY <1>2, <1>5, <1>8, <2>1, <2>2, <2>3 DEF TaskText, InitsText
  <2>4. CASE currentTask # 0
    BY <1>2, <1>5, <1>8, <2>1, <2>2, <2>4 DEF TaskText, InitsChildText, Entered
  <2>. QED BY <2>3, <2>4
<1>9. HasShell /\ currentTask = 1 => Idle /\ NothingLeft'
  BY <1>1, <1>4, CallerIsIdle, InputAlone DEF ShellPoints
<1>. QED BY <1>4, <1>5, <1>6, <1>8, <1>9, InputAlone, QuietKeepsInput

LEMMA TestStepKeepsInput ==
  ASSUME InputInv, UserMode, UNCHANGED <<build, inputVars>>, TestStep
  PROVE  InputInv'
<1>. DEFINE k == here.k
            label == Branch(k, frame.pid)
<1>1. /\ here.at = "test" /\ esp = currentTask /\ regs[currentTask].eip = here
      /\ currentTask \in Slots /\ ~At(currentTask, "forked")
  BY CallerFacts DEF TestStep, At
<1>2. /\ k \in {1, 2}
      /\ \/ currentTask = 0 /\ numTasks > 1 /\ frame.pid # 0
         \/ /\ currentTask # 0 /\ ppid[currentTask] = 1 /\ (k = 1 <=> currentTask = 1)
            /\ frame.pid = 0
  BY <1>1, CallerIsAt DEF AfterFork, InitsResult
<1>3. /\ NoSchedule /\ UNCHANGED <<taskWithDynamicPriority, frame>>
      /\ regs' = [regs EXCEPT ![esp].eip = label]
      /\ UNCHANGED <<numTasks, ppid>>
  BY <1>2, ScriptIs DEF TestStep, Goto, k_, NoSchedule, tableVars, InputInv
<1>4. frame' \in [pid : Int, pid2 : Int, initial_count : Int]
  BY <1>3 DEF InputInv, InputTypes
<1>5. HasShell' = HasShell
  BY DEF HasShell
<1>6. CASE currentTask = 0
  <2>1. label = IF k = 1 THEN Label("fork", 2) ELSE Label("wait", 0)
    BY <1>2, <1>6, InputEntries DEF Branch, InputInv
  <2>2. /\ label \in InputText
        /\ (label.at = "fork" /\ label.k = 2) \/ label.at = "wait"
    BY <2>1, InputLabels DEF InputPoints, InitPoints
  <2>. HIDE DEF label, k
  <2>3. regs'[0].eip = label
    BY <1>3, <1>6, <2>2, InputCallerGoesOn
  <2>4. ASSUME NEW i, i = currentTask
        PROVE  TaskText(i)'
    BY <1>2, <1>3, <1>6, <2>2, <2>3, <2>4 DEF TaskText, InitsText, At
  <2>5. HasShell /\ currentTask = 1 => Idle /\ NothingLeft'
    BY <1>6
  <2>. QED BY <1>3, <1>4, <2>2, <2>4, <2>5, InputAlone, QuietKeepsInput
<1>7. CASE currentTask # 0
  <2>1. label = Label(Script[k].branch, k)
    BY <1>2, <1>7 DEF Branch, ChildBranch
  <2>2. /\ Script[k].branch \in BranchPoints
        /\ HasShell => (Script[k].branch = "exec" <=> k = 1)
    BY <1>2, ScriptIs DEF BranchPoints, InputInv
  <2>3. Script[k].branch \in InputPoints
    BY <2>2 DEF BranchPoints, InputPoints, ChildPoints
  <2>4. label \in InputText /\ label.at = Script[k].branch /\ label.k = k
    BY <1>2, <2>1, <2>3, InputLabels
  <2>. HIDE DEF label, k
  <2>5. regs'[currentTask].eip = label
    BY <1>3, <2>4, InputCallerGoesOn
  <2>6. ASSUME NEW i, i = currentTask
        PROVE  TaskText(i)'
    <3>1. InitsChildText(i)'
      BY <1>2, <1>5, <1>7, <2>2, <2>4, <2>5, <2>6
         DEF InitsChildText, Entered, At, BranchPoints
    <3>. QED BY <1>2, <1>3, <1>7, <2>6, <3>1 DEF TaskText
  <2>7. HasShell /\ currentTask = 1 => Idle /\ NothingLeft'
    BY <1>1, <1>4, CallerIsIdle, InputAlone DEF ShellPoints
  <2>. QED BY <1>3, <1>4, <2>4, <2>6, <2>7, InputAlone, QuietKeepsInput
<1>. QED BY <1>6, <1>7

LEMMA ExecStepKeepsInput ==
  ASSUME InputInv, UserMode, UNCHANGED <<build, inputVars>>, ExecStep
  PROVE  InputInv'
<1>. DEFINE k == here.k
            label == ProgramLabel(k)
<1>1. /\ here.at = "exec" /\ esp = currentTask /\ regs[currentTask].eip = here
      /\ currentTask \in Slots
  BY CallerFacts DEF ExecStep
<1>2. /\ k \in {1, 2} /\ currentTask # 0 /\ ppid[currentTask] = 1
      /\ HasShell => currentTask = 1 /\ k = 1
  BY <1>1, CallerIsAt DEF InBranch, ChildPoints
<1>3. /\ NoSchedule /\ UNCHANGED <<taskWithDynamicPriority, frame>>
      /\ \E value \in Int : regs' = Return(label, value)
      /\ UNCHANGED <<numTasks, ppid>>
  BY DEF ExecStep, Exec, k_, NoSchedule, tableVars
<1>4. frame' \in [pid : Int, pid2 : Int, initial_count : Int]
  BY <1>3 DEF InputInv, InputTypes
<1>5. HasShell' = HasShell
  BY DEF HasShell
<1>6. /\ Script[k].program \in InputPoints
      /\ HasShell => Script[k].program = "shell"
      /\ ~HasShell => Script[k].program \in ProgramNames
  BY <1>2, ScriptIs DEF InputInv, InputPoints, ShellPoints
<1>7. label \in InputText /\ label.at = Script[k].program
  BY <1>6, InputLabels DEF ProgramLabel
<1>. HIDE DEF label, k
<1>8. regs'[currentTask].eip = label
  BY <1>3, <1>7, InputCallerGoesOn
<1>9. ASSUME NEW i, i = currentTask
      PROVE  TaskText(i)'
  <2>1. CASE HasShell
    <3>1. i = 1 /\ regs'[1].eip.at = "shell"
      BY <1>2, <1>6, <1>7, <1>8, <1>9, <2>1
    <3>2. ShellsText'
      BY <3>1 DEF ShellsText, ShellPoints
    <3>. QED BY <1>2, <1>3, <1>5, <1>9, <2>1, <3>1, <3>2 DEF TaskText, InitsChildText
  <2>2. CASE ~HasShell
    BY <1>2, <1>3, <1>5, <1>6, <1>7, <1>8, <1>9, <2>2 DEF TaskText, InitsChildText
  <2>. QED BY <2>1, <2>2
<1>10. HasShell /\ currentTask = 1 => Idle /\ NothingLeft'
  BY <1>1, <1>4, CallerIsIdle, InputAlone DEF ShellPoints
<1>. QED BY <1>3, <1>4, <1>7, <1>9, <1>10, InputAlone, QuietKeepsInput

(* The children that wait for a key and for a click.                       *)
LEMMA AwaitKeyKeeps ==
  ASSUME InputInv, UserMode, UNCHANGED <<build, typed>>, AwaitKey \/ AwaitClick
  PROVE  InputInv'
<1>. DEFINE k == here.k
            label == Label("exec", k)
<1>1. /\ here.at \in {"await_key", "await_click"} /\ esp = currentTask
      /\ regs[currentTask].eip = here /\ currentTask \in Slots
  BY CallerFacts DEF AwaitKey, AwaitClick
<1>2. /\ k \in {1, 2} /\ currentTask # 0 /\ ppid[currentTask] = 1
      /\ ~HasShell /\ (k = 1 <=> currentTask = 1)
  BY <1>1, CallerIsAt DEF InBranch, ChildPoints, BranchPoints
<1>3. /\ NoSchedule /\ UNCHANGED <<taskWithDynamicPriority, frame, shell>>
      /\ regs' = [regs EXCEPT ![esp].eip = label]
      /\ UNCHANGED <<numTasks, ppid>> /\ pressedKeys' \in {<<>>, pressedKeys}
  BY DEF AwaitKey, AwaitClick, ReadKeyPresses, Goto, k_, NoSchedule, tableVars
<1>4. InputTypesStay /\ ProgramStays
  <2>1. pressedKeys' \in Seq(Keyboard)
    <3>1. pressedKeys \in Seq(Keyboard) /\ <<>> \in Seq(Keyboard)
      BY DEF InputInv, InputTypes
    <3>. QED BY <1>3, <3>1
  <2>. QED BY <1>3, <2>1 DEF InputInv, InputTypes, InputTypesStay, ProgramStays
<1>5. HasShell' = HasShell
  BY DEF HasShell
<1>6. label \in InputText /\ label.at = "exec" /\ label.k = k
  BY <1>2, InputLabels DEF InputPoints, ChildPoints
<1>. HIDE DEF label, k
<1>7. regs'[currentTask].eip = label
  BY <1>3, <1>6, InputCallerGoesOn
<1>8. ASSUME NEW i, i = currentTask
      PROVE  TaskText(i)'
  BY <1>2, <1>3, <1>5, <1>6, <1>7, <1>8
     DEF TaskText, InitsChildText, Entered, BranchPoints
<1>9. shell'.input = shell.input
  BY <1>3
<1>. QED BY <1>2, <1>3, <1>4, <1>6, <1>8, <1>9, QuietKeepsInput

LEMMA CountClicksKeeps ==
  ASSUME InputInv, UserMode, UNCHANGED <<build, typed>>, CountClicks
  PROVE  InputInv'
<1>1. /\ here.at = "count_clicks" /\ esp = currentTask
      /\ regs[currentTask].eip = here /\ currentTask \in Slots /\ here \in InputText
  BY CallerFacts DEF CountClicks
<1>2. /\ here.k \in {1, 2} /\ currentTask # 0 /\ ppid[currentTask] = 1
      /\ HasShell /\ currentTask # 1 /\ here.k # 1
  BY <1>1, CallerIsAt DEF InBranch, ChildPoints, BranchPoints
<1>3. /\ NoSchedule /\ UNCHANGED <<taskWithDynamicPriority, frame, shell, pressedKeys>>
      /\ regs' = [regs EXCEPT ![esp].eip = here]
      /\ UNCHANGED <<numTasks, ppid>>
  BY DEF CountClicks, Goto, NoSchedule, tableVars
<1>4. InputTypesStay /\ ProgramStays /\ shell'.input = shell.input
  BY <1>3 DEF InputInv, InputTypes, InputTypesStay, ProgramStays
<1>5. HasShell' = HasShell
  BY DEF HasShell
<1>6. regs'[currentTask].eip = here
  BY <1>1, <1>3, InputCallerGoesOn
<1>7. ASSUME NEW i, i = currentTask
      PROVE  TaskText(i)'
  <2>1. regs'[i].eip.at = "count_clicks" /\ regs'[i].eip.k = here.k
    BY <1>1, <1>6, <1>7
  <2>. QED BY <1>2, <1>3, <1>5, <1>7, <2>1
           DEF TaskText, InitsChildText, Entered, BranchPoints, At
<1>8. KeysHeld'
  BY <1>2, <1>3, KeysStay DEF InputInv
<1>. QED BY <1>1, <1>2, <1>3, <1>4, <1>7, <1>8, QuietKeepsInput

-----------------------------------------------------------------------------
(* The steps of the shell that return without scheduling.                  *)

(* What was read is what had been typed since.                             *)
LEMMA ShellReadsKeeps ==
  ASSUME InputInv, UserMode, UNCHANGED <<build, typed>>, ShellReads
  PROVE  InputInv'
<1>. DEFINE label == Label("edit", 0)
<1>1. here.at = "shell" /\ regs[currentTask].eip = here
  BY CallerFacts DEF ShellReads
<1>2. HasShell /\ currentTask = 1 /\ ppid[1] = 1
  BY <1>1, CallerIsAt DEF InShell
<1>3. PICK keys \in Seq(Keyboard) :
        /\ shell' = [shell EXCEPT !.input = keys]
        /\ Junk \subseteq {<<>>} => keys = pressedKeys
  <2>1. PICK junk \in Junk : shell' = [shell EXCEPT !.input = pressedKeys \o junk]
    BY DEF ShellReads, KeysRead
  <2>2. pressedKeys \in Seq(Keyboard) /\ junk \in Seq(Keyboard)
    BY KeysAssumption DEF InputInv, InputTypes
  <2>3. pressedKeys \o <<>> = pressedKeys /\ pressedKeys \o junk \in Seq(Keyboard)
    BY <2>2
  <2>. QED BY <2>1, <2>3
<1>4. /\ NoSchedule /\ UNCHANGED <<taskWithDynamicPriority, frame>>
      /\ regs' = [regs EXCEPT ![esp].eip = label]
      /\ UNCHANGED <<numTasks, ppid>> /\ pressedKeys' = <<>>
  BY DEF ShellReads, ReadKeyPresses, Goto, NoSchedule, tableVars
<1>5. /\ shell'.input = keys /\ shell'.buffer = shell.buffer
      /\ shell'.program = shell.program /\ shell'.pid = shell.pid
  BY <1>3 DEF InputInv, InputTypes, ShellLocals
<1>6. InputTypesStay /\ ProgramStays
  <2>1. shell' \in ShellLocals
    BY <1>3 DEF InputInv, InputTypes, ShellLocals
  <2>2. pressedKeys' \in Seq(Keyboard)
    BY <1>4
  <2>. QED BY <1>4, <1>5, <2>1, <2>2 DEF InputInv, InputTypes, InputTypesStay, ProgramStays
<1>7. HasShell' = HasShell
  BY DEF HasShell
<1>8. label \in InputText /\ label.at = "edit"
  BY InputLabels DEF InputPoints, ShellPoints
<1>. HIDE DEF label
<1>9. regs'[1].eip = label
  BY <1>2, <1>4, <1>8, InputCallerGoesOn
<1>10. ASSUME NEW i, i = currentTask
       PROVE  TaskText(i)'
  <2>1. ShellsText'
    BY <1>8, <1>9 DEF ShellsText, ShellPoints
  <2>. QED BY <1>2, <1>4, <1>7, <1>10, <2>1 DEF TaskText, InitsChildText
<1>11. shell.input = <<>>
  BY <1>1, <1>2 DEF InputInv, NothingLeft
<1>12. KeysHeld'
  <2>. SUFFICES ASSUME Junk \subseteq {<<>>} PROVE KeysInOrder'
    BY DEF KeysHeld
  <2>0. shell'.input = pressedKeys
    BY <1>3, <1>5
  <2>1. KeysInOrder /\ typed \in Seq(Keyboard) /\ pressedKeys \in Seq(Keyboard)
    BY <1>2 DEF InputInv, InputTypes, KeysHeld
  <2>2. Len(shell.input) = 0 /\ Len(pressedKeys') = 0 /\ Len(shell'.input) = Len(pressedKeys)
    BY <1>4, <2>0, <1>11
  <2>3. KeysHandled' = KeysHandled /\ KeysHandled \in Nat
    <3>1. Len(typed) \in Nat /\ Len(pressedKeys) \in Nat
      BY <2>1
    <3>. QED BY <2>1, <2>2, <3>1 DEF KeysHandled, KeysInOrder
  <2>4. \A n \in 1 .. Len(shell'.input) : typed'[KeysHandled' + n] = shell'.input[n]
    <3>. SUFFICES ASSUME NEW n \in 1 .. Len(pressedKeys)
                  PROVE  typed[KeysHandled + n] = pressedKeys[n]
      BY <1>4, <2>0, <2>2, <2>3
    <3>1. typed[KeysHandled + 0 + n] = pressedKeys[n]
      BY <2>1, <2>2 DEF KeysInOrder
    <3>. QED BY <2>3, <3>1
  <2>5. ShellOfUser!Edited(SubSeq(typed, 1, KeysHandled))'
          = ShellOfUser!Edited(SubSeq(typed, 1, KeysHandled))
    BY <2>3 DEF ShellOfUser!Edited, ShellOfUser!Edit
  <2>6. \A n \in 1 .. Len(pressedKeys') :
          typed'[KeysHandled' + Len(shell'.input) + n] = pressedKeys'[n]
    BY <2>2
  <2>. QED BY <1>5, <2>1, <2>3, <2>4, <2>5, <2>6 DEF KeysInOrder
<1>13. Idle /\ NothingLeft'
  <2>1. numTasks > 1
    BY <1>2, CallerFacts DEF Live
  <2>. QED BY <1>1, <1>2, <1>4, <1>8, <1>9, <2>1, CallerIsIdle DEF NothingLeft, ShellPoints
<1>. QED BY <1>2, <1>4, <1>6, <1>8, <1>10, <1>12, <1>13, QuietKeepsInput

(* The key that the loop comes to is the next one the user typed.          *)
LEMMA NextEdit ==
  ASSUME InputTypes, KeysInOrder, shell.input # <<>>
  PROVE  /\ IsEdited(ShellOfUser!Edited(SubSeq(typed, 1, KeysHandled)))
         /\ ShellOfUser!Edited(SubSeq(typed, 1, KeysHandled + 1))
              = ShellOfUser!Edit(ShellOfUser!Edited(SubSeq(typed, 1, KeysHandled)),
                                 Head(shell.input))
<1>. DEFINE h     == KeysHandled
            keys  == SubSeq(typed, 1, h)
            keys2 == SubSeq(typed, 1, h + 1)
<1>1. /\ typed \in Seq(Keyboard) /\ shell.input \in Seq(Keyboard)
      /\ Len(typed) \in Nat /\ Len(pressedKeys) \in Nat /\ Len(shell.input) \in Nat \ {0}
      /\ Head(shell.input) = shell.input[1]
  BY DEF InputTypes, ShellLocals
<1>2. h \in Nat /\ Len(typed) = h + Len(shell.input) + Len(pressedKeys)
  BY <1>1 DEF KeysInOrder, KeysHandled
<1>3. h + 1 <= Len(typed)
  BY <1>1, <1>2
<1>4. /\ Len(keys) = h /\ Len(keys2) = h + 1
      /\ \A n \in 1 .. h : keys[n] = typed[n]
      /\ \A n \in 1 .. h + 1 : keys2[n] = typed[n]
  BY <1>1, <1>2, <1>3, SubSeqProperties
<1>5. keys2[h + 1] = Head(shell.input)
  <2>1. 1 \in 1 .. Len(shell.input) /\ h + 1 \in 1 .. h + 1
    BY <1>1, <1>2
  <2>2. typed[h + 1] = shell.input[1]
    BY <2>1 DEF KeysInOrder
  <2>. QED BY <1>1, <1>4, <2>1, <2>2
<1>6. \A n \in 1 .. h : keys[n] = keys2[n]
  BY <1>2, <1>4
<1>. HIDE DEF keys, keys2, h
<1>7. ShellOfUser!Edited(keys2) = ShellOfUser!Edit(ShellOfUser!Edited(keys), keys2[h + 1])
  BY <1>2, <1>4, <1>6, EditedNext
<1>8. IsEdited(ShellOfUser!Edited(keys))
  BY <1>2, <1>4, EditedHasLine
<1>. QED BY <1>5, <1>7, <1>8 DEF keys, keys2, h

LEMMA OneKeyOn ==
  ASSUME InputTypes, UNCHANGED <<typed, pressedKeys>>, shell.input # <<>>,
         shell'.input = Tail(shell.input), KeysHandled \in Nat
  PROVE  KeysHandled' = KeysHandled + 1
<1>. DEFINE nt == Len(typed)
            np == Len(pressedKeys)
            ni == Len(shell.input)
<1>1. /\ nt \in Nat /\ np \in Nat /\ ni \in Nat /\ Len(shell'.input) = ni - 1
      /\ KeysHandled = nt - ni - np
  BY DEF InputTypes, ShellLocals, KeysHandled
<1>2. KeysHandled' = nt - (ni - 1) - np
  BY <1>1 DEF KeysHandled
<1>. HIDE DEF nt, np, ni
<1>. QED BY <1>1, <1>2

LEMMA KeysMoveOn ==
  ASSUME InputTypes, KeysInOrder, shell.input # <<>>, UNCHANGED <<typed, pressedKeys>>,
         shell'.buffer = Buffer(shell.buffer, Head(shell.input)),
         shell'.input = Tail(shell.input)
  PROVE  KeysInOrder'
<1>. DEFINE h == KeysHandled
            rest == Tail(shell.input)
            nr == Len(rest)
            ni == Len(shell.input)
            np == Len(pressedKeys)
            nt == Len(typed)
<1>1. /\ typed \in Seq(Keyboard) /\ pressedKeys \in Seq(Keyboard) /\ shell.input \in Seq(Keyboard)
      /\ Len(typed) \in Nat /\ Len(pressedKeys) \in Nat /\ Len(shell.input) \in Nat \ {0}
  BY DEF InputTypes, ShellLocals
<1>2. /\ Len(rest) = Len(shell.input) - 1
      /\ \A n \in 1 .. Len(rest) : rest[n] = shell.input[n + 1]
      /\ Head(shell.input) = shell.input[1]
  BY <1>1
<1>3. shell'.input = rest /\ Len(rest) \in Nat
  BY <1>1, <1>2
<1>4. h \in Nat /\ Len(typed) = h + Len(shell.input) + Len(pressedKeys)
  BY <1>1 DEF KeysInOrder, KeysHandled
<1>5. KeysHandled' = nt - nr - np
  BY <1>3 DEF KeysHandled
<1>6. nr = ni - 1 /\ nr \in Nat /\ ni \in Nat /\ np \in Nat /\ h \in Nat /\ nt = h + ni + np
  BY <1>1, <1>2, <1>4, <1>3
<1>7. nt - nr - np = h + 1 /\ h + 1 + nr = h + ni
  <2>. HIDE DEF nr, ni, np, nt, h
  <2>. QED BY <1>6
<1>8. KeysHandled' = h + 1
  BY <1>5, <1>7
<1>9. \A n \in 1 .. Len(rest) : typed[h + 1 + n] = rest[n]
  <2>. SUFFICES ASSUME NEW n \in 1 .. Len(rest) PROVE typed[h + 1 + n] = rest[n]
    OBVIOUS
  <2>1. n + 1 \in 1 .. Len(shell.input) /\ h + (n + 1) = h + 1 + n
    BY <1>1, <1>2, <1>4
  <2>2. typed[h + (n + 1)] = shell.input[n + 1]
    BY <2>1 DEF KeysInOrder
  <2>. QED BY <1>2, <2>1, <2>2
<1>10. \A n \in 1 .. Len(pressedKeys) : typed[h + 1 + Len(rest) + n] = pressedKeys[n]
  BY <1>7 DEF KeysInOrder
<1>11. Buffer(shell.buffer, Head(shell.input)) = ShellOfUser!Edited(SubSeq(typed, 1, h + 1)).line
  <2>. DEFINE edited == ShellOfUser!Edited(SubSeq(typed, 1, h))
  <2>1. /\ IsEdited(edited) /\ shell.buffer = edited.line
        /\ ShellOfUser!Edited(SubSeq(typed, 1, h + 1))
             = ShellOfUser!Edit(edited, Head(shell.input))
    BY NextEdit DEF KeysInOrder
  <2>. HIDE DEF edited, h
  <2>. QED BY <2>1, BufferIsLine
<1>12. ShellOfUser!Edited(SubSeq(typed, 1, KeysHandled))'
        = ShellOfUser!Edited(SubSeq(typed, 1, h + 1))
  BY <1>8 DEF ShellOfUser!Edited, ShellOfUser!Edit
<1>13. h + 1 \in Nat
  BY <1>4
<1>. HIDE DEF h, rest
<1>. QED BY <1>8, <1>9, <1>10, <1>11, <1>12, <1>13, <1>3 DEF KeysInOrder

LEMMA ShellEditsKeeps ==
  ASSUME InputInv, UserMode, UNCHANGED <<build, typed>>, ShellEdits
  PROVE  InputInv'
<1>1. here.at = "edit" /\ regs[currentTask].eip = here
  BY CallerFacts DEF ShellEdits
<1>2. HasShell /\ currentTask = 1 /\ ppid[1] = 1
  BY <1>1, CallerIsAt DEF InShell
<1>3. /\ NoSchedule /\ UNCHANGED <<taskWithDynamicPriority, frame, pressedKeys>>
      /\ UNCHANGED <<numTasks, ppid>>
  BY DEF ShellEdits, Goto, NoSchedule, tableVars
<1>4. HasShell' = HasShell
  BY DEF HasShell
<1>5. Idle /\ numTasks > 1
  BY <1>1, <1>2, CallerIsIdle, CallerFacts DEF Live
<1>6. CASE shell.input = <<>>
  <2>. DEFINE label == Label("shell", 0)
  <2>1. regs' = [regs EXCEPT ![esp].eip = label] /\ shell' = shell
    BY <1>6 DEF ShellEdits, Goto
  <2>2. InputTypesStay /\ ProgramStays
    BY <1>3, <2>1 DEF InputInv, InputTypes, InputTypesStay, ProgramStays
  <2>3. label \in InputText /\ label.at = "shell"
    BY InputLabels DEF InputPoints, ShellPoints
  <2>. HIDE DEF label
  <2>4. regs'[1].eip = label
    BY <1>2, <2>1, <2>3, InputCallerGoesOn
  <2>5. ASSUME NEW i, i = currentTask
        PROVE  TaskText(i)'
    <3>1. ShellsText'
      BY <2>3, <2>4 DEF ShellsText, ShellPoints
    <3>. QED BY <1>2, <1>3, <1>4, <2>5, <3>1 DEF TaskText, InitsChildText
  <2>6. KeysHeld'
    BY <1>2, <1>3, <2>1, KeysStay DEF InputInv
  <2>7. NothingLeft'
    BY <1>6, <2>1 DEF NothingLeft
  <2>. QED BY <1>2, <1>3, <1>5, <2>1, <2>2, <2>3, <2>5, <2>6, <2>7, QuietKeepsInput
<1>7. CASE shell.input # <<>>
  <2>. DEFINE at      == IF Found THEN "launch" ELSE "edit"
              label   == Label(at, 0)
              key     == Head(shell.input)
              buffer  == Buffer(shell.buffer, key)
              program == IF Found THEN ProgramOf[shell.buffer] ELSE shell.program
  <2>1. /\ regs' = [regs EXCEPT ![esp].eip = label]
        /\ shell' = [shell EXCEPT !.buffer = buffer, !.input = Tail(shell.input),
                                  !.program = program]
    BY <1>7 DEF ShellEdits, Goto
  <2>2. /\ shell \in ShellLocals
        /\ shell.input \in Seq(Keyboard) /\ shell.buffer \in Seq(Keyboard)
        /\ shell.program \in ProgramNames \cup {"none"}
    BY DEF InputInv, InputTypes, ShellLocals
  <2>3. key \in Keyboard /\ Tail(shell.input) \in Seq(Keyboard)
    BY <1>7, <2>2
  <2>4. buffer \in Seq(Keyboard)
    <3>1. buffer \in {<<>>, SubSeq(shell.buffer, 1, Len(shell.buffer) - 1),
                      Append(shell.buffer, key)}
      <4>. HIDE DEF key
      <4>1. Backspace # Enter
        BY KeysAssumption
      <4>2. CASE key = Backspace
        BY <4>1, <4>2 DEF Buffer
      <4>3. CASE key = Enter
        BY <4>1, <4>3 DEF Buffer
      <4>4. CASE key # Backspace /\ key # Enter
        BY <4>4 DEF Buffer
      <4>. QED BY <4>2, <4>3, <4>4
    <3>2. SubSeq(shell.buffer, 1, Len(shell.buffer) - 1) \in Seq(Keyboard)
      <4>1. \A n \in 1 .. Len(shell.buffer) - 1 : n \in 1 .. Len(shell.buffer)
        BY <2>2
      <4>. QED BY <2>2, <4>1
    <3>3. Append(shell.buffer, key) \in Seq(Keyboard) /\ <<>> \in Seq(Keyboard)
      BY <2>2, <2>3
    <3>. HIDE DEF buffer, key
    <3>. QED BY <3>1, <3>2, <3>3
  <2>5. /\ program \in ProgramNames \cup {"none"}
        /\ Found => program # "none"
        /\ ~Found => program = shell.program
    <3>1. CASE Found
      <4>1. ProgramOf[shell.buffer] \in ProgramNames
        BY <3>1, ProgramAssumption DEF Found
      <4>. QED BY <3>1, <4>1 DEF ProgramNames
    <3>2. CASE ~Found
      BY <2>2, <3>2
    <3>. QED BY <3>1, <3>2
  <2>6. at \in {"launch", "edit"} /\ (at = "launch" <=> Found)
    OBVIOUS
  <2>7. label \in InputText /\ label.at = at
    BY <2>6, InputLabels DEF InputPoints, ShellPoints
  <2>. HIDE DEF key, buffer, program, at, label
  <2>8. /\ shell'.buffer = buffer /\ shell'.input = Tail(shell.input)
        /\ shell'.program = program /\ shell'.pid = shell.pid
        /\ shell' \in ShellLocals
    BY <2>1, <2>2, <2>3, <2>4, <2>5 DEF ShellLocals
  <2>9. InputTypesStay
    BY <1>3, <2>8 DEF InputInv, InputTypes, InputTypesStay
  <2>10. ProgramStays
    BY <2>5, <2>8 DEF ProgramStays
  <2>11. regs'[1].eip = label
    BY <1>2, <2>1, <2>7, InputCallerGoesOn
  <2>12. ASSUME NEW i, i = currentTask
         PROVE  TaskText(i)'
    <3>1. ShellsText'
      BY <2>5, <2>6, <2>7, <2>8, <2>11 DEF ShellsText, ShellPoints
    <3>. QED BY <1>2, <1>3, <1>4, <2>12, <3>1 DEF TaskText, InitsChildText
  <2>13. KeysHeld'
    BY <1>2, <1>3, <1>7, <2>8, KeysMoveOn DEF InputInv, KeysHeld, buffer, key
  <2>14. NothingLeft'
    BY <1>3, <1>5, <2>6, <2>7, <2>11 DEF NothingLeft, ShellPoints
  <2>. QED BY <1>2, <1>3, <1>5, <2>1, <2>7, <2>9, <2>10, <2>12, <2>13, <2>14, QuietKeepsInput
<1>. QED BY <1>6, <1>7

(* The shell and the child that it has just forked store and test what     *)
(* fork has returned.                                                      *)
LEMMA ShellStoresKeeps ==
  ASSUME InputInv, UserMode, UNCHANGED <<build, typed>>, ShellStores
  PROVE  InputInv'
<1>. DEFINE label == Label("launch_test", 0)
            value == regs[currentTask].ecx
<1>1. /\ here.at = "launched" /\ regs[currentTask].eip = here /\ esp = currentTask
      /\ value \in Int /\ At(currentTask, "launched")
  BY CallerFacts DEF ShellStores, At
<1>2. /\ HasShell /\ shell.program # "none"
      /\ \/ currentTask = 1 /\ ppid[1] = 1 /\ value # 0
         \/ currentTask > 1 /\ ppid[currentTask] = 2 /\ value = 0
  BY <1>1, CallerIsAt DEF InShell, ShellsText, ShellsResult
<1>3. /\ NoSchedule /\ UNCHANGED <<taskWithDynamicPriority, frame, pressedKeys>>
      /\ regs' = [regs EXCEPT ![esp].eip = label]
      /\ UNCHANGED <<numTasks, ppid, state>>
      /\ shell' = [shell EXCEPT !.pid = value]
  BY <1>1 DEF ShellStores, Goto, NoSchedule, tableVars
<1>4. /\ shell'.buffer = shell.buffer /\ shell'.input = shell.input
      /\ shell'.program = shell.program /\ shell'.pid = value
      /\ shell' \in ShellLocals
  BY <1>1, <1>3 DEF InputInv, InputTypes, ShellLocals
<1>5. InputTypesStay /\ ProgramStays
  BY <1>3, <1>4 DEF InputInv, InputTypes, InputTypesStay, ProgramStays
<1>6. HasShell' = HasShell /\ Live' = Live
  BY <1>3 DEF HasShell, Live
<1>7. label \in InputText /\ label.at = "launch_test"
  BY InputLabels DEF InputPoints, ShellPoints
<1>. HIDE DEF label, value
<1>8. regs'[currentTask].eip = label
  BY <1>3, <1>7, InputCallerGoesOn
<1>9. ASSUME NEW i, i = currentTask
      PROVE  TaskText(i)'
  <2>1. regs'[i].eip.at = "launch_test"
    BY <1>7, <1>8, <1>9
  <2>2. ShellsResult(i)' = value
    BY <1>4, <2>1 DEF ShellsResult, At
  <2>3. CASE currentTask = 1
    <3>1. ShellsText'
      BY <1>2, <1>4, <1>9, <2>1, <2>2, <2>3 DEF ShellsText, ShellPoints
    <3>. QED BY <1>2, <1>3, <1>6, <1>9, <2>3, <3>1 DEF TaskText, InitsChildText
  <2>4. CASE currentTask # 1
    BY <1>2, <1>3, <1>4, <1>6, <1>9, <2>1, <2>4 DEF TaskText, ShellsChildText, At
  <2>. QED BY <2>3, <2>4
<1>10. KeysHeld'
  BY <1>2, <1>3, <1>4, KeysStay DEF InputInv
<1>11. ASSUME currentTask = 1
       PROVE  OneAtATime' /\ NothingLeft'
  <2>1. At(1, "launched") /\ regs[1].ecx = value /\ regs'[1].eip.at = "launch_test"
    BY <1>1, <1>7, <1>8, <1>11 DEF value
  <2>2. NothingLeft'
    BY <1>2, <1>3, <1>4, <1>11, <2>1, CallerFacts DEF NothingLeft, ShellPoints, Live
  <2>3. ASSUME NEW i \in Live, ppid[i] = 2, state[i] # "ZOMBIE"
        PROVE  LastChild(i)'
    <3>1. LastChild(i)
      BY <1>2, <2>3 DEF InputInv, OneAtATime
    <3>2. value = i + 1
      BY <2>1, <3>1 DEF LastChild, At
    <3>. QED BY <1>4, <2>1, <3>2 DEF LastChild
  <2>. QED BY <1>3, <1>6, <2>2, <2>3 DEF OneAtATime
<1>. QED BY <1>3, <1>4, <1>5, <1>7, <1>9, <1>10, <1>11, QuietKeepsInput

LEMMA ShellTestsKeeps ==
  ASSUME InputInv, UserMode, UNCHANGED <<build, typed>>, ShellTests
  PROVE  InputInv'
<1>. DEFINE at    == IF shell.pid = 0 THEN "launch_exec" ELSE "launch_wait"
            label == Label(at, 0)
<1>1. /\ here.at = "launch_test" /\ regs[currentTask].eip = here
      /\ ~At(currentTask, "launched")
  BY CallerFacts DEF ShellTests, At
<1>2. /\ HasShell /\ shell.program # "none"
      /\ \/ currentTask = 1 /\ ppid[1] = 1 /\ shell.pid # 0
         \/ currentTask > 1 /\ ppid[currentTask] = 2 /\ shell.pid = 0
  BY <1>1, CallerIsAt DEF InShell, ShellsText, ShellsResult
<1>3. /\ NoSchedule /\ UNCHANGED <<taskWithDynamicPriority, frame, pressedKeys, shell>>
      /\ regs' = [regs EXCEPT ![esp].eip = label]
      /\ UNCHANGED <<numTasks, ppid, state>>
  BY DEF ShellTests, Goto, NoSchedule, tableVars
<1>4. InputTypesStay /\ ProgramStays /\ shell'.input = shell.input
  BY <1>3 DEF InputInv, InputTypes, InputTypesStay, ProgramStays
<1>5. HasShell' = HasShell /\ Live' = Live
  BY <1>3 DEF HasShell, Live
<1>6. /\ label \in InputText /\ label.at = at
      /\ currentTask = 1 => at = "launch_wait"
      /\ currentTask # 1 => at = "launch_exec"
  BY <1>2, InputLabels DEF InputPoints, ShellPoints
<1>. HIDE DEF label, at
<1>7. regs'[currentTask].eip = label
  BY <1>3, <1>6, InputCallerGoesOn
<1>8. ASSUME NEW i, i = currentTask
      PROVE  TaskText(i)'
  <2>1. CASE currentTask = 1
    <3>1. ShellsText'
      BY <1>6, <1>7, <2>1 DEF ShellsText, ShellPoints
    <3>. QED BY <1>2, <1>3, <1>5, <1>8, <2>1, <3>1 DEF TaskText, InitsChildText
  <2>2. CASE currentTask # 1
    BY <1>2, <1>3, <1>5, <1>6, <1>7, <1>8, <2>2 DEF TaskText, ShellsChildText, At
  <2>. QED BY <2>1, <2>2
<1>9. KeysHeld'
  BY <1>2, <1>3, KeysStay DEF InputInv
<1>10. ASSUME currentTask = 1
       PROVE  OneAtATime' /\ NothingLeft'
  <2>1. regs[1].eip.at = "launch_test" /\ regs'[1].eip.at = "launch_wait"
    BY <1>1, <1>6, <1>7, <1>10
  <2>2. NothingLeft'
    BY <1>2, <1>3, <1>10, <2>1, CallerFacts DEF NothingLeft, ShellPoints, Live
  <2>3. ASSUME NEW i \in Live, ppid[i] = 2, state[i] # "ZOMBIE"
        PROVE  LastChild(i)'
    <3>1. LastChild(i)
      BY <1>2, <2>3 DEF InputInv, OneAtATime
    <3>2. shell.pid = i + 1
      BY <2>1, <3>1 DEF LastChild, At
    <3>. QED BY <1>3, <2>1, <3>2 DEF LastChild
  <2>. QED BY <1>3, <1>5, <2>2, <2>3 DEF OneAtATime
<1>. QED BY <1>3, <1>4, <1>6, <1>8, <1>9, <1>10, QuietKeepsInput

(* The child goes its own way.                                             *)
LEMMA ShellExecsKeeps ==
  ASSUME InputInv, UserMode, UNCHANGED <<build, typed>>, ShellExecs
  PROVE  InputInv'
<1>. DEFINE label == Label(shell.program, 0)
<1>1. here.at = "launch_exec"
  BY DEF ShellExecs
<1>2. HasShell /\ currentTask > 1 /\ ppid[currentTask] = 2 /\ shell.program # "none"
  BY <1>1, CallerIsAt DEF InShell
<1>3. /\ NoSchedule /\ UNCHANGED <<taskWithDynamicPriority, frame, pressedKeys, shell>>
      /\ \E value \in Int : regs' = Return(label, value)
      /\ UNCHANGED <<numTasks, ppid>>
  BY DEF ShellExecs, Exec, NoSchedule, tableVars
<1>4. InputTypesStay /\ ProgramStays /\ shell'.input = shell.input
  BY <1>3 DEF InputInv, InputTypes, InputTypesStay, ProgramStays
<1>5. HasShell' = HasShell
  BY DEF HasShell
<1>6. shell.program \in ProgramNames
  BY <1>2 DEF InputInv, InputTypes, ShellLocals
<1>7. label \in InputText /\ label.at \in ProgramNames
  BY <1>6, InputLabels DEF InputPoints
<1>. HIDE DEF label
<1>8. regs'[currentTask].eip = label
  BY <1>3, <1>7, InputCallerGoesOn
<1>9. ASSUME NEW i, i = currentTask
      PROVE  TaskText(i)'
  BY <1>2, <1>3, <1>5, <1>7, <1>8, <1>9 DEF TaskText, ShellsChildText
<1>10. KeysHeld'
  BY <1>2, <1>3, KeysStay DEF InputInv
<1>11. currentTask # 1
  BY <1>2
<1>. QED BY <1>3, <1>4, <1>7, <1>9, <1>10, <1>11, QuietKeepsInput

-----------------------------------------------------------------------------
(* The steps that end in the scheduler.                                    *)

(* Round robin takes nobody into or out of BLOCKED.                        *)
LEMMA RoundRobinKeepsWhoWaits ==
  ASSUME schedulerType = "ROUNDROBIN", NEW n, NEW st, NEW pp, NEW bp, Finished(n, st, pp, bp)
  PROVE  /\ schedulerType' = "ROUNDROBIN"
         /\ \A i \in Slots : /\ state'[i] = "ZOMBIE" <=> st[i] = "ZOMBIE"
                             /\ state'[i] = "BLOCKED" <=> st[i] = "BLOCKED"
<1>1. schedulerType' = "ROUNDROBIN"
  BY DEF Finished
<1>2. \A i \in Slots : ~MayBeBoosted(i)
  BY DEF MayBeBoosted, Dynamic
<1>. QED BY <1>1, <1>2, ScheduleKeepsWhoWaits

(* A step that ends in the scheduler, adds no task and leaves none in a    *)
(* window keeps the invariant if it takes its task to a point of its own   *)
(* text.                                                                   *)
LEMMA ScheduledKeepsInput ==
  ASSUME InputInv, TableInv', schedulerType' = "ROUNDROBIN",
         UNCHANGED <<build, numTasks, ppid, frame, inputVars>>,
         regs' \in [Slots -> [eip : InputText, ecx : Int]],
         \A i \in Slots : i # currentTask => regs'[i] = regs[i],
         \A i \in Live : i = currentTask => TaskText(i)' /\ ~InWindow(i)',
         \A i \in Slots : state[i] = "ZOMBIE" => state'[i] = "ZOMBIE",
         HasShell => \/ regs'[1] = regs[1] /\ WaitGoesOn
                     \/ OneAtATime' /\ NothingLeft'
  PROVE  InputInv'
<1>1. /\ TableInv /\ TextsInv /\ Live \subseteq Slots /\ Live' = Live
      /\ frame \in [pid : Int, pid2 : Int, initial_count : Int]
  BY TableFacts DEF InputInv, InputTypes, Live
<1>2. /\ InputTypesStay /\ ProgramStays /\ shell' = shell
      /\ HasShell => KeysHeld'
  <2>1. UNCHANGED inputVars /\ frame' \in [pid : Int, pid2 : Int, initial_count : Int]
    BY <1>1
  <2>. QED BY <2>1, InputAlone
<1>3. InputTypes'
  BY <1>2 DEF InputInv, InputTypes, InputTypesStay
<1>4. TextsInv'
  BY <1>1, <1>2, TextsGoOn
<1>5. ASSUME HasShell, regs'[1] = regs[1], WaitGoesOn
      PROVE  OneAtATime' /\ NothingLeft'
  <2>1. OneAtATime /\ NothingLeft
    BY <1>5 DEF InputInv
  <2>2. \A i \in Live' : ppid'[i] = 2 =>
          i \in Live /\ ppid[i] = 2 /\ (state[i] = "ZOMBIE" => state'[i] = "ZOMBIE")
    BY <1>1
  <2>3. OneAtATime'
    BY <1>2, <1>5, <2>1, <2>2, OnceOthers
  <2>. QED BY <1>2, <1>5, <2>1, <2>3 DEF NothingLeft
<1>6. HasShell' = HasShell
  BY DEF HasShell
<1>. QED BY <1>2, <1>3, <1>4, <1>5, <1>6 DEF InputInv

(* The timer strikes when nobody is in a window.                           *)
LEMMA InputTimerKeeps ==
  ASSUME ~TimerInWindow, InputInv, InputTimer
  PROVE  InputInv'
<1>1. /\ TimerInterrupt /\ active /\ UNCHANGED <<build, frame, inputVars, regs>>
      /\ UNCHANGED <<numTasks, ppid, taskWithDynamicPriority, blocking_pid>>
      /\ ~(UserMode /\ here.at \in {"test", "launch_test", "launch_wait"})
  BY DEF InputTimer, Timer, TimerInterrupt, ShellWindow
<1>2. /\ TableInv /\ TableInv' /\ TextsInv /\ schedulerType = "ROUNDROBIN"
      /\ \A i \in Slots : state[i] = "ZOMBIE" => state'[i] = "ZOMBIE"
  BY <1>1, TimerInterruptKeeps DEF InputInv, Kept, ZombieStaysZombie
<1>3. /\ numTasks \in Nat /\ currentTask \in -1 .. numTasks - 1 /\ esp = currentTask
      /\ Live \subseteq Slots /\ 1 \in Slots
  <2>1. numTasks \in Nat /\ currentTask \in -1 .. numTasks - 1 /\ esp = currentTask
    BY <1>2 DEF TableInv, TableTypes, OwnStack
  <2>2. Live \subseteq Slots
    BY <1>2, TableFacts
  <2>3. 1 \in Slots
    <3>1. MaxTasks > 2
      BY ScriptIs DEF InputInv
    <3>. QED BY <3>1, MaxTasksAssumption DEF Slots
  <2>. QED BY <2>1, <2>2, <2>3
<1>4. \A i \in Live : ~InWindow(i)
  <2>. SUFFICES ASSUME NEW i \in Live, InWindow(i) PROVE FALSE
    OBVIOUS
  <2>1. i = currentTask /\ currentTask >= 0
    BY <1>2, <1>3 DEF TextsInv, Windows, Live
  <2>. QED BY <1>1, <1>3, <2>1 DEF UserMode, here, InWindow
<1>5. ASSUME NEW i \in Live
      PROVE  TaskText(i)' /\ ~InWindow(i)'
  <2>1. TaskText(i) /\ ~InWindow(i) /\ regs'[i] = regs[i] /\ ppid'[i] = ppid[i]
    BY <1>1, <1>2, <1>4 DEF TextsInv
  <2>2. RoomStays /\ ProgramStays /\ UNCHANGED build
    BY <1>1 DEF RoomStays, ProgramStays, inputVars
  <2>. QED BY <2>1, <2>2, LeftAlone
<1>6. schedulerType' = "ROUNDROBIN" /\ WaitGoesOn
  <2>1. CASE numTasks > 0
    <3>1. Finished(numTasks, state, ppid, blocking_pid)
      BY <1>1, <1>2, <2>1, InvHandled, ScheduleKeepsSound DEF TimerInterrupt
    <3>2. /\ schedulerType' = "ROUNDROBIN"
          /\ state'[1] = "BLOCKED" <=> state[1] = "BLOCKED"
      BY <1>2, <1>3, <3>1, RoundRobinKeepsWhoWaits
    <3>. QED BY <1>1, <3>2 DEF WaitGoesOn
  <2>2. CASE ~(numTasks > 0)
    <3>1. schedulerType' = schedulerType /\ state'[1] = state[1]
      BY <1>1, <1>3, <2>2 DEF TimerInterrupt, Schedule
    <3>. QED BY <1>1, <1>2, <3>1 DEF WaitGoesOn
  <2>. QED BY <2>1, <2>2
<1>7. regs' \in [Slots -> [eip : InputText, ecx : Int]] /\ regs' = regs
  BY <1>1 DEF InputInv, InputTypes
<1>8. /\ \A i \in Slots : i # currentTask => regs'[i] = regs[i]
      /\ regs'[1] = regs[1]
  BY <1>7
<1>. QED BY <1>1, <1>2, <1>5, <1>6, <1>7, <1>8, ScheduledKeepsInput

(* Init comes to its wait, and may have to wait.                           *)
LEMMA WaitStepKeepsInput ==
  ASSUME InputInv, UserMode, UNCHANGED <<build, inputVars>>, WaitStep
  PROVE  InputInv'
<1>. DEFINE label == Label("waited", 0)
<1>1. here.at = "wait" /\ TableInv /\ schedulerType = "ROUNDROBIN" /\ numTasks > 0
      /\ 0 \in Slots /\ 1 \in Slots
  BY CallerFacts DEF WaitStep, InputInv
<1>2. currentTask = 0 /\ numTasks > 1
  BY <1>1, CallerIsAt DEF InitsWait
<1>3. /\ Wait(WAIT_ALL_CHILDREN, label)
      /\ UNCHANGED <<frame, numTasks, ppid>>
      /\ WAIT_ALL_CHILDREN \in WaitTargets
  BY DEF WaitStep, Wait, WaitTargets
<1>4. TableInv' /\ \A i \in Slots : state[i] = "ZOMBIE" => state'[i] = "ZOMBIE"
  BY <1>1, <1>3, WaitKeeps DEF Kept, ZombieStaysZombie
<1>5. label \in InputText /\ label.at = "waited"
  BY InputLabels DEF InputPoints, InitPoints
<1>6. /\ regs' \in [Slots -> [eip : InputText, ecx : Int]]
      /\ regs'[currentTask].eip = label
      /\ \A i \in Slots : i # currentTask => regs'[i] = regs[i]
  <2>1. \E value \in Int : regs' = Return(label, value)
    BY <1>3 DEF Wait, Failed
  <2>. HIDE DEF label
  <2>. QED BY <1>5, <2>1, InputCallerGoesOn
<1>7. schedulerType' = "ROUNDROBIN" /\ WaitGoesOn
  <2>1. CASE Awaitable(WAIT_ALL_CHILDREN)
    <3>1. /\ Finished(numTasks, BlockedTable, ppid, blocking_pid')
          /\ \A i \in Slots : i # 0 => BlockedTable[i] = state[i]
      BY <1>1, <1>2, <1>3, <2>1, AwaitFinished
    <3>2. blocking_pid'[1] = blocking_pid[1]
      <4>1. blocking_pid' = [blocking_pid EXCEPT ![0] = WAIT_ALL_CHILDREN]
        BY <1>2, <1>3, <2>1 DEF Wait
      <4>2. blocking_pid \in [Slots -> BlockingPids]
        BY <1>1, TableFacts
      <4>. QED BY <1>1, <4>1, <4>2
    <3>3. /\ schedulerType' = "ROUNDROBIN"
          /\ state'[1] = "BLOCKED" <=> state[1] = "BLOCKED"
      BY <1>1, <3>1, RoundRobinKeepsWhoWaits
    <3>. QED BY <3>2, <3>3 DEF WaitGoesOn
  <2>2. CASE ~Awaitable(WAIT_ALL_CHILDREN)
    <3>1. Schedule(numTasks, state, priority, cpustate) /\ UNCHANGED blocking_pid
      BY <1>3, <2>2 DEF Wait
    <3>2. Finished(numTasks, state, ppid, blocking_pid)
      BY <1>1, <3>1, InvHandled, ScheduleKeepsSound
    <3>3. /\ schedulerType' = "ROUNDROBIN"
          /\ state'[1] = "BLOCKED" <=> state[1] = "BLOCKED"
      BY <1>1, <3>2, RoundRobinKeepsWhoWaits
    <3>. QED BY <3>1, <3>3 DEF WaitGoesOn
  <2>. QED BY <2>1, <2>2
<1>. HIDE DEF label
<1>8. ASSUME NEW i \in Live, i = currentTask
      PROVE  TaskText(i)' /\ ~InWindow(i)'
  BY <1>2, <1>3, <1>5, <1>6, <1>8 DEF TaskText, InitsText, InWindow
<1>9. regs'[1] = regs[1]
  BY <1>1, <1>2, <1>6
<1>. QED BY <1>3, <1>4, <1>6, <1>7, <1>8, <1>9, ScheduledKeepsInput

(* The exit of a child ends the shell's wait if it is the one waited for.  *)
LEMMA ProgramStepKeepsInput ==
  ASSUME InputInv, UserMode, UNCHANGED <<build, inputVars>>, ProgramStep
  PROVE  InputInv'
<1>. DEFINE label == Label("exited", 0)
<1>1. /\ here.at \in ProgramNames /\ TableInv /\ schedulerType = "ROUNDROBIN" /\ numTasks > 0
      /\ 1 \in Slots /\ Live \subseteq Slots /\ \A i \in Live : pid[i] = i + 1
  BY CallerFacts, TableFacts DEF ProgramStep, InputInv
<1>2. /\ currentTask # 0
      /\ HasShell => currentTask > 1 /\ ppid[currentTask] = 2
      /\ ~HasShell => ppid[currentTask] = 1
  BY <1>1, CallerIsAt DEF InProgram
<1>3. Exit(label) /\ UNCHANGED <<frame, numTasks, ppid>>
  BY DEF ProgramStep, Exit
<1>4. TableInv' /\ \A i \in Slots : state[i] = "ZOMBIE" => state'[i] = "ZOMBIE"
  BY <1>1, <1>2, <1>3, ExitKeeps, ExitKeepsZombies DEF ZombieStaysZombie
<1>5. label \in InputText /\ label.at = "exited"
  BY InputLabels DEF InputPoints
<1>6. /\ regs' \in [Slots -> [eip : InputText, ecx : Int]]
      /\ regs'[currentTask].eip = label
      /\ \A i \in Slots : i # currentTask => regs'[i] = regs[i]
  <2>1. regs' = [regs EXCEPT ![esp].eip = label]
    BY <1>3 DEF Exit
  <2>. HIDE DEF label
  <2>. QED BY <1>5, <2>1, InputCallerGoesOn
<1>7. /\ Finished(numTasks, WokenTable, ppid, blocking_pid')
      /\ WokenTable[currentTask] = "ZOMBIE"
  BY <1>1, <1>2, <1>3, ExitHandled, ExitFinished
<1>8. /\ schedulerType' = "ROUNDROBIN"
      /\ state'[1] = "BLOCKED" <=> WokenTable[1] = "BLOCKED"
  BY <1>1, <1>7, RoundRobinKeepsWhoWaits
<1>9. HasShell => WaitGoesOn
  <2>. SUFFICES ASSUME HasShell, state[1] = "BLOCKED"
                PROVE  WaitGoesOn
    BY DEF WaitGoesOn
  <2>1. CASE state'[1] = "BLOCKED"
    <3>1. 1 \notin Woken(ExitedTable)
      BY <1>1, <1>8, <2>1 DEF WokenTable
    <3>2. blocking_pid'[1] = blocking_pid[1]
      BY <1>1, <1>3, <3>1 DEF Exit, ExitedTable
    <3>. QED BY <2>1, <3>2 DEF WaitGoesOn
  <2>2. CASE state'[1] # "BLOCKED"
    <3>1. ~MayBeBoosted(1)
      BY <1>1 DEF MayBeBoosted, Dynamic
    <3>2. ASSUME NEW i \in Live, ppid[i] = 2, blocking_pid[1] = i + 1
          PROVE  state'[i] = "ZOMBIE"
      <4>1. CASE state[i] = "ZOMBIE"
        BY <1>1, <1>4, <4>1
      <4>2. CASE state[i] # "ZOMBIE"
        <5>1. pid[1] = 2 /\ pid[i] = i + 1
          <6>1. 1 \in Live
            BY <1>1, <3>2, ShellIsOlder
          <6>. QED BY <1>1, <6>1
        <5>2. i \in Awaited(1)
          BY <3>2, <4>2, <5>1 DEF Awaited
        <5>. QED BY <1>1, <1>2, <1>3, <2>2, <3>1, <5>2, ExitEndsWaits
      <4>. QED BY <4>1, <4>2
    <3>. QED BY <3>2 DEF WaitGoesOn
  <2>. QED BY <2>1, <2>2
<1>. HIDE DEF label
<1>10. ASSUME NEW i \in Live, i = currentTask
       PROVE  TaskText(i)' /\ ~InWindow(i)'
  <2>1. HasShell' = HasShell
    BY DEF HasShell
  <2>2. regs'[i].eip.at = "exited" /\ ppid'[i] = ppid[i]
    BY <1>3, <1>5, <1>6, <1>10
  <2>3. InitsChildText(i)' \/ ShellsChildText(i)'
    BY <2>2 DEF InitsChildText, ShellsChildText
  <2>. QED BY <1>2, <1>10, <2>1, <2>2 DEF TaskText, InitsChildText, ShellsChildText, InWindow
<1>11. HasShell => regs'[1] = regs[1]
  BY <1>1, <1>2, <1>6
<1>. QED BY <1>3, <1>4, <1>6, <1>8, <1>9, <1>10, <1>11, ScheduledKeepsInput

(* The shell waits for the child whose pid fork has returned to it.        *)
LEMMA ShellWaitsKeeps ==
  ASSUME InputInv, UserMode, UNCHANGED <<build, typed, clicks>>, ShellWaits
  PROVE  InputInv'
<1>. DEFINE label == Label("edit", 0)
            target == shell.pid
<1>1. /\ here.at = "launch_wait" /\ regs[currentTask].eip = here
      /\ TableInv /\ schedulerType = "ROUNDROBIN" /\ numTasks > 0 /\ esp = currentTask
      /\ 1 \in Slots /\ Live \subseteq Slots /\ \A i \in Live : pid[i] = i + 1
      /\ numTasks \in 0 .. MaxTasks /\ MaxTasks \in Nat /\ Live = 0 .. numTasks - 1
  BY CallerFacts, TableFacts DEF ShellWaits, InputInv
<1>2. HasShell /\ currentTask = 1 /\ ppid[1] = 1 /\ OneAtATime /\ 1 \in Live
  BY <1>1, CallerIsAt, CallerFacts DEF InShell, InputInv
<1>3. /\ Wait(target, label)
      /\ UNCHANGED <<frame, pressedKeys, shell, numTasks, ppid, active, pidCounter, pid>>
      /\ UNCHANGED taskWithDynamicPriority
  BY DEF ShellWaits, ShellsWait, Wait
<1>4. label \in InputText /\ label.at = "edit"
  BY InputLabels DEF InputPoints, ShellPoints
<1>5. /\ regs' \in [Slots -> [eip : InputText, ecx : Int]]
      /\ regs'[currentTask].eip = label
      /\ \A i \in Slots : i # currentTask => regs'[i] = regs[i]
  <2>1. \E value \in Int : regs' = Return(label, value)
    BY <1>3 DEF Wait, Failed
  <2>. HIDE DEF label
  <2>. QED BY <1>4, <2>1, InputCallerGoesOn
<1>. HIDE DEF label
<1>6. ASSUME NEW i \in Live, ppid[i] = 2, state[i] # "ZOMBIE"
      PROVE  target = i + 1 /\ Awaitable(target)
  <2>1. LastChild(i)
    BY <1>2, <1>6 DEF OneAtATime
  <2>2. target = i + 1
    BY <1>1, <1>2, <2>1 DEF LastChild, At
  <2>3. target # WAIT_ALL_CHILDREN
    BY <1>1, <2>2, SentinelAssumption
  <2>4. i \in FindTask(target) /\ pid[currentTask] = 2
    BY <1>1, <1>2, <2>2, FindTaskFindsSlot
  <2>. QED BY <1>6, <2>2, <2>3, <2>4 DEF Awaitable
<1>7. Awaitable(target) => target \in WaitTargets
  <2>1. CASE target = WAIT_ALL_CHILDREN
    BY <2>1 DEF WaitTargets
  <2>2. CASE target # WAIT_ALL_CHILDREN
    <3>. SUFFICES ASSUME Awaitable(target) PROVE target \in WaitTargets
      OBVIOUS
    <3>1. PICK i \in Live : i + 1 = target
      BY <1>1, <2>2, FindTaskFindsSlot DEF Awaitable
    <3>. QED BY <1>1, <3>1 DEF WaitTargets
  <2>. QED BY <2>1, <2>2
<1>. HIDE DEF target
<1>. DEFINE Stays == \A i \in Slots : state[i] = "ZOMBIE" => state'[i] = "ZOMBIE"
            After == TableInv' /\ schedulerType' = "ROUNDROBIN" /\ OneAtATime' /\ Stays
<1>8. ASSUME Awaitable(target) PROVE After
  <2>1. /\ Finished(numTasks, BlockedTable, ppid, blocking_pid')
        /\ BlockedTable[1] = "BLOCKED"
        /\ \A i \in Slots : i # 1 => BlockedTable[i] = state[i]
        /\ state[1] # "ZOMBIE"
    BY <1>1, <1>2, <1>3, <1>7, <1>8, AwaitFinished
  <2>2. TableInv' /\ \A i \in Slots : state[i] = "ZOMBIE" => state'[i] = "ZOMBIE"
    BY <1>1, <1>3, <1>7, <1>8, WaitKeeps DEF Kept, ZombieStaysZombie
  <2>3. schedulerType' = "ROUNDROBIN" /\ state'[1] = "BLOCKED"
    BY <1>1, <2>1, RoundRobinKeepsWhoWaits
  <2>4. blocking_pid'[1] = target
    <3>1. blocking_pid' = [blocking_pid EXCEPT ![1] = target]
      BY <1>2, <1>3, <1>8 DEF Wait
    <3>2. blocking_pid \in [Slots -> BlockingPids]
      BY <1>1, TableFacts
    <3>. QED BY <1>1, <3>1, <3>2
  <2>5. OneAtATime'
    <3>. SUFFICES ASSUME NEW i \in Live', ppid'[i] = 2, state'[i] # "ZOMBIE"
                  PROVE  LastChild(i)'
      BY DEF OneAtATime
    <3>1. i \in Live /\ ppid[i] = 2 /\ state[i] # "ZOMBIE"
      BY <1>1, <1>3, <2>2 DEF Live
    <3>2. blocking_pid'[1] = i + 1
      BY <1>6, <2>4, <3>1
    <3>3. At(1, "edit")'
      BY <1>2, <1>4, <1>5 DEF At
    <3>. QED BY <2>3, <3>2, <3>3 DEF LastChild
  <2>. QED BY <2>2, <2>3, <2>5
<1>9. ASSUME ~Awaitable(target) PROVE After
  <2>1. Schedule(numTasks, state, priority, cpustate) /\ UNCHANGED blocking_pid
    BY <1>3, <1>9 DEF Wait
  <2>2. Finished(numTasks, state, ppid, blocking_pid)
    BY <1>1, <2>1, InvHandled, ScheduleKeepsSound
  <2>3. /\ schedulerType' = "ROUNDROBIN"
        /\ \A i \in Slots : state[i] = "ZOMBIE" => state'[i] = "ZOMBIE"
    BY <1>1, <2>2, RoundRobinKeepsWhoWaits
  <2>4. TableInv'
    BY <1>1, <1>3, <2>1, <2>2, InvHandled, FinishedHandlerKeepsInv
  <2>5. OneAtATime'
    BY <1>1, <1>3, <1>6, <1>9, <2>3 DEF OneAtATime, Live
  <2>. QED BY <2>3, <2>4, <2>5
<1>10. After
  BY <1>8, <1>9
<1>11. UNCHANGED inputVars
  BY <1>3 DEF ShellWaits, inputVars
<1>12. HasShell' = HasShell /\ numTasks > 1
  BY <1>1, <1>2 DEF HasShell
<1>13. NothingLeft'
  BY <1>2, <1>3, <1>4, <1>5, <1>12 DEF NothingLeft, ShellPoints
<1>14. ASSUME NEW i \in Live, i = currentTask
       PROVE  TaskText(i)' /\ ~InWindow(i)'
  <2>1. i = 1 /\ regs'[1].eip.at = "edit" /\ ppid'[1] = 1
    BY <1>2, <1>3, <1>4, <1>5, <1>14
  <2>2. ShellsText'
    BY <2>1 DEF ShellsText, ShellPoints
  <2>. QED BY <1>2, <1>12, <2>1, <2>2 DEF TaskText, InitsChildText, InWindow
<1>15. /\ \A i \in Slots : state[i] = "ZOMBIE" => state'[i] = "ZOMBIE"
       /\ TableInv' /\ schedulerType' = "ROUNDROBIN" /\ OneAtATime'
  BY <1>10
<1>. HIDE DEF After, Stays
<1>. QED BY <1>3, <1>5, <1>11, <1>13, <1>14, <1>15, ScheduledKeepsInput

-----------------------------------------------------------------------------
(* The forks, of init and of the shell.                                    *)

LEMMA ForkedFacts ==
  ASSUME InputInv, UserMode, NEW prio \in Nat \cup {Inherit}, NEW label \in InputText,
         Fork(prio, label)
  PROVE  /\ TableInv' /\ schedulerType' = "ROUNDROBIN" /\ blocking_pid' = blocking_pid
         /\ \A i \in Live : /\ ppid'[i] = ppid[i]
                            /\ state'[i] = "ZOMBIE" <=> state[i] = "ZOMBIE"
                            /\ state'[i] = "BLOCKED" <=> state[i] = "BLOCKED"
         /\ regs' \in [Slots -> [eip : InputText, ecx : Int]]
         /\ \A i \in Live : i # currentTask => regs'[i] = regs[i]
         /\ regs'[currentTask].eip = label /\ regs'[currentTask].ecx # 0
         /\ \/ numTasks' = numTasks /\ numTasks >= MaxTasks
            \/ /\ numTasks < MaxTasks /\ numTasks' = numTasks + 1
               /\ Live' = Live \cup {numTasks} /\ numTasks \notin Live
               /\ ppid'[numTasks] = currentTask + 1
               /\ regs'[currentTask].ecx = numTasks + 1
               /\ regs'[numTasks].eip = label /\ regs'[numTasks].ecx = 0
               /\ state'[numTasks] # "ZOMBIE"
<1>1. /\ TableInv /\ schedulerType = "ROUNDROBIN" /\ numTasks > 0 /\ esp = currentTask
      /\ currentTask \in Live /\ currentTask \in Slots /\ Live \subseteq Slots
      /\ numTasks \in 0 .. MaxTasks /\ MaxTasks \in Nat /\ Live = 0 .. numTasks - 1
      /\ ppid \in [Slots -> Nat]
      /\ regs \in [Slots -> [eip : InputText, ecx : Int]]
  BY CallerFacts, TableFacts DEF InputInv, InputTypes
<1>2. TableInv' /\ blocking_pid' = blocking_pid
  BY <1>1, ForkKeeps DEF Kept, Fork
<1>3. CASE numTasks >= MaxTasks
  <2>1. /\ Schedule(numTasks, state, priority, cpustate)
        /\ UNCHANGED <<numTasks, ppid, blocking_pid>>
        /\ regs' = Return(label, Failed)
    BY <1>1, <1>3 DEF Fork, ForkTask
  <2>2. Finished(numTasks, state, ppid, blocking_pid)
    BY <1>1, <2>1, InvHandled, ScheduleKeepsSound
  <2>3. /\ schedulerType' = "ROUNDROBIN"
        /\ \A i \in Slots : /\ state'[i] = "ZOMBIE" <=> state[i] = "ZOMBIE"
                            /\ state'[i] = "BLOCKED" <=> state[i] = "BLOCKED"
    BY <1>1, <2>2, RoundRobinKeepsWhoWaits
  <2>4. regs' = [regs EXCEPT ![currentTask] = [eip |-> label, ecx |-> Failed]]
    BY <1>1, <2>1 DEF Return
  <2>5. [eip |-> label, ecx |-> Failed] \in [eip : InputText, ecx : Int] /\ Failed # 0
    BY DEF Failed
  <2>6. /\ regs' \in [Slots -> [eip : InputText, ecx : Int]]
        /\ \A i \in Live : i # currentTask => regs'[i] = regs[i]
        /\ regs'[currentTask].eip = label /\ regs'[currentTask].ecx # 0
    BY <1>1, <2>4, <2>5
  <2>. QED BY <1>1, <1>2, <1>3, <2>1, <2>3, <2>6
<1>4. CASE numTasks < MaxTasks
  <2>1. /\ Finished(numTasks + 1, ForkedTable, ppid', blocking_pid')
        /\ numTasks' = numTasks + 1
        /\ \A i \in Slots : ForkedTable[i] = IF i = numTasks THEN "READY" ELSE state[i]
        /\ ppid' = [ppid EXCEPT ![numTasks] = currentTask + 1]
    BY <1>1, <1>4, ForkFinished
  <2>2. /\ numTasks \in Slots /\ Live' = Live \cup {numTasks} /\ numTasks \notin Live
        /\ numTasks # currentTask
    BY <1>1, <1>4, <2>1 DEF Slots, Live
  <2>3. /\ schedulerType' = "ROUNDROBIN"
        /\ \A i \in Slots : /\ state'[i] = "ZOMBIE" <=> ForkedTable[i] = "ZOMBIE"
                            /\ state'[i] = "BLOCKED" <=> ForkedTable[i] = "BLOCKED"
    BY <1>1, <2>1, RoundRobinKeepsWhoWaits
  <2>4. \A i \in Live : /\ i \in Slots /\ i # numTasks
                        /\ ForkedTable[i] = state[i] /\ ppid'[i] = ppid[i]
    BY <1>1, <2>1, <2>2
  <2>5. regs' = [[regs EXCEPT ![currentTask] = [eip |-> label, ecx |-> numTasks + 1]]
                   EXCEPT ![numTasks] = [eip |-> label, ecx |-> 0]]
    <3>1. pidCounter = numTasks + 1
      BY <1>1 DEF TableInv, Numbered
    <3>2. ~ (numTasks >= MaxTasks)
      BY <1>1, <1>4
    <3>3. regs' = [Return(label, pidCounter) EXCEPT
                     ![numTasks] = [eip |-> label, ecx |-> 0]]
      BY <3>2 DEF Fork, ForkTask
    <3>. QED BY <1>1, <3>1, <3>3 DEF Return
  <2>6. numTasks + 1 \in Int /\ numTasks + 1 # 0 /\ 0 \in Int
    BY <1>1
  <2>7. /\ [eip |-> label, ecx |-> numTasks + 1] \in [eip : InputText, ecx : Int]
        /\ [eip |-> label, ecx |-> 0] \in [eip : InputText, ecx : Int]
    BY <2>6
  <2>8. /\ regs' \in [Slots -> [eip : InputText, ecx : Int]]
        /\ regs'[currentTask] = [eip |-> label, ecx |-> numTasks + 1]
        /\ regs'[numTasks] = [eip |-> label, ecx |-> 0]
        /\ \A i \in Live : i # currentTask => regs'[i] = regs[i]
    BY <1>1, <2>2, <2>4, <2>5, <2>7
  <2>9. ppid'[numTasks] = currentTask + 1
    BY <1>1, <2>1, <2>2
  <2>10. /\ regs'[currentTask].eip = label /\ regs'[currentTask].ecx = numTasks + 1
         /\ regs'[numTasks].eip = label /\ regs'[numTasks].ecx = 0
    BY <2>8
  <2>11. \A i \in Live : /\ ppid'[i] = ppid[i]
                         /\ state'[i] = "ZOMBIE" <=> state[i] = "ZOMBIE"
                         /\ state'[i] = "BLOCKED" <=> state[i] = "BLOCKED"
    BY <2>3, <2>4
  <2>12. state'[numTasks] # "ZOMBIE"
    <3>1. ForkedTable[numTasks] = "READY"
      BY <2>1, <2>2
    <3>. QED BY <2>2, <2>3, <3>1
  <2>. QED BY <1>2, <1>4, <2>1, <2>2, <2>3, <2>6, <2>8, <2>9, <2>10, <2>11, <2>12
<1>5. numTasks >= MaxTasks \/ numTasks < MaxTasks
  BY <1>1
<1>. QED BY <1>3, <1>4, <1>5, Zenon

(* A fork keeps the invariant if caller and child come out of it at a      *)
(* point of their texts.                                                   *)
LEMMA ForkKeepsInput ==
  ASSUME InputInv, UserMode, UNCHANGED <<build, frame, inputVars>>,
         NEW prio \in Nat \cup {Inherit}, NEW label \in InputText,
         label.at \in {"forked", "launched"}, Fork(prio, label),
         \A i \in Live' : i = currentTask \/ i \notin Live => TaskText(i)',
         HasShell => OneAtATime' /\ NothingLeft'
  PROVE  InputInv'
<1>1. /\ TextsInv /\ currentTask \in Live /\ Live = 0 .. numTasks - 1 /\ numTasks \in Nat
      /\ frame \in [pid : Int, pid2 : Int, initial_count : Int]
      /\ TableInv /\ schedulerType = "ROUNDROBIN"
  BY CallerFacts, TableFacts DEF InputInv, InputTypes
<1>2. /\ TableInv' /\ schedulerType' = "ROUNDROBIN"
      /\ regs' \in [Slots -> [eip : InputText, ecx : Int]]
      /\ \A i \in Live : ppid'[i] = ppid[i] /\ (i # currentTask => regs'[i] = regs[i])
      /\ regs'[currentTask].eip = label
      /\ numTasks' = numTasks \/ /\ numTasks' = numTasks + 1
                                 /\ Live' = Live \cup {numTasks}
                                 /\ regs'[numTasks].eip = label
  BY ForkedFacts
<1>3. InputTypesStay /\ ProgramStays /\ (HasShell => KeysHeld')
  <2>1. frame' \in [pid : Int, pid2 : Int, initial_count : Int]
    BY <1>1
  <2>. QED BY <2>1, InputAlone
<1>4. InputTypes'
  BY <1>2, <1>3 DEF InputInv, InputTypes, InputTypesStay
<1>5. ASSUME NEW i \in Live'
      PROVE  TaskText(i)' /\ ~InWindow(i)'
  <2>1. CASE i = currentTask \/ i \notin Live
    <3>1. i = currentTask \/ (i = numTasks /\ regs'[numTasks].eip = label)
      BY <1>1, <1>2, <1>5, <2>1 DEF Live
    <3>2. regs'[i].eip = label
      BY <1>2, <3>1
    <3>. QED BY <2>1, <3>2 DEF InWindow
  <2>2. CASE i \in Live /\ i # currentTask
    <3>1. TaskText(i) /\ ~InWindow(i) /\ regs'[i] = regs[i] /\ ppid'[i] = ppid[i]
      BY <1>1, <1>2, <2>2 DEF TextsInv, Windows
    <3>2. RoomStays
      BY <1>1, <1>2, <2>2 DEF RoomStays
    <3>. QED BY <1>3, <3>1, <3>2, LeftAlone
  <2>. QED BY <2>1, <2>2
<1>6. TextsInv'
  BY <1>5 DEF TextsInv, Windows
<1>7. HasShell' = HasShell
  BY DEF HasShell
<1>. QED BY <1>2, <1>3, <1>4, <1>6, <1>7 DEF InputInv

(* Init forks a child that knows its entry by the entry's label.           *)
LEMMA ForkStepKeepsInput ==
  ASSUME InputInv, UserMode, UNCHANGED <<build, inputVars>>, ForkStep
  PROVE  InputInv'
<1>. DEFINE k == here.k
            label == Label("forked", k)
            prio == Script[k].priority
<1>1. /\ here.at = "fork" /\ TableInv /\ numTasks \in 1 .. MaxTasks /\ MaxTasks \in Nat
      /\ Live = 0 .. numTasks - 1 /\ InputTypes /\ 1 \in Slots
  BY CallerFacts, TableFacts DEF ForkStep, InputInv
<1>2. /\ currentTask = 0 /\ k \in {1, 2} /\ k \in Nat
      /\ k = 1 => numTasks = 1
      /\ k = 2 => numTasks > 1
  BY <1>1, CallerIsAt DEF InitsFork
<1>3. prio \in Nat \cup {Inherit} /\ MaxTasks > 2
  BY <1>1, <1>2, ScriptIs
<1>4. label \in InputText /\ label.at = "forked" /\ label.k = k
  BY <1>2, InputLabels DEF InputPoints, InitPoints
<1>5. Fork(prio, label) /\ UNCHANGED frame /\ shell' = shell
  BY DEF ForkStep, k_, inputVars
<1>. HIDE DEF k, label, prio
<1>6. /\ TableInv' /\ blocking_pid' = blocking_pid
      /\ \A i \in Live : /\ ppid'[i] = ppid[i]
                         /\ state'[i] = "ZOMBIE" <=> state[i] = "ZOMBIE"
                         /\ state'[i] = "BLOCKED" <=> state[i] = "BLOCKED"
      /\ \A i \in Live : i # currentTask => regs'[i] = regs[i]
      /\ regs'[currentTask].eip = label /\ regs'[currentTask].ecx # 0
  BY <1>3, <1>4, <1>5, ForkedFacts
<1>7. \/ numTasks' = numTasks /\ numTasks >= MaxTasks
      \/ /\ numTasks' = numTasks + 1
         /\ Live' = Live \cup {numTasks} /\ numTasks \notin Live
         /\ ppid'[numTasks] = currentTask + 1
         /\ regs'[numTasks].eip = label /\ regs'[numTasks].ecx = 0
  BY <1>3, <1>4, <1>5, ForkedFacts
<1>8. numTasks' > 1
  BY <1>1, <1>2, <1>3, <1>7
<1>9. TaskText(0)'
  <2>1. InitsResult(0)' # 0
    BY <1>2, <1>4, <1>6 DEF InitsResult, At
  <2>2. InitsText'
    BY <1>2, <1>4, <1>6, <1>8, <2>1 DEF InitsText
  <2>. QED BY <2>2 DEF TaskText
<1>10. ASSUME NEW i \in Live', i \notin Live
       PROVE  TaskText(i)' /\ ppid'[i] = 1
  <2>1. /\ i = numTasks /\ ppid'[i] = 1 /\ regs'[i].eip = label /\ regs'[i].ecx = 0 /\ i # 0
        /\ k = 1 <=> i = 1
    BY <1>1, <1>2, <1>7, <1>10 DEF Live
  <2>2. Entered(i)' /\ InitsResult(i)' = 0
    BY <1>2, <1>4, <2>1 DEF Entered, InitsResult, At
  <2>3. InitsChildText(i)'
    BY <1>4, <2>1, <2>2 DEF InitsChildText
  <2>. QED BY <2>1, <2>3 DEF TaskText
<1>11. ASSUME HasShell
       PROVE  OneAtATime' /\ NothingLeft'
  <2>1. OneAtATime /\ NothingLeft
    BY <1>11 DEF InputInv
  <2>2. \A i \in Live' : ppid'[i] = 2 =>
          i \in Live /\ ppid[i] = 2 /\ (state[i] = "ZOMBIE" => state'[i] = "ZOMBIE")
    <3>1. Live \subseteq Live'
      BY <1>1, <1>7 DEF Live
    <3>. QED BY <1>6, <1>10, <3>1
  <2>3. CASE 1 \in Live
    <3>1. regs'[1] = regs[1] /\ WaitGoesOn
      BY <1>2, <1>6, <2>3 DEF WaitGoesOn
    <3>2. OneAtATime'
      BY <1>5, <2>1, <2>2, <3>1, OnceOthers
    <3>. QED BY <1>5, <1>8, <2>1, <3>1, <3>2 DEF NothingLeft
  <2>4. CASE 1 \notin Live
    <3>1. OneAtATime'
      BY <1>1, <2>2, <2>4, ShellIsOlder DEF OneAtATime
    <3>2. shell'.input = <<>>
      BY <1>1, <1>5, <2>1, <2>4 DEF NothingLeft
    <3>. QED BY <3>1, <3>2 DEF NothingLeft
  <2>. QED BY <2>3, <2>4
<1>12. \A i \in Live' : i = currentTask \/ i \notin Live => TaskText(i)'
  BY <1>2, <1>9, <1>10
<1>. QED BY <1>3, <1>4, <1>5, <1>11, <1>12, ForkKeepsInput

(* The shell forks when no child of it runs any more.                      *)
LEMMA ShellForksKeeps ==
  ASSUME InputInv, UserMode, UNCHANGED <<build, typed, clicks>>, ShellForks
  PROVE  InputInv'
<1>. DEFINE label == Label("launched", 0)
<1>1. /\ here.at = "launch" /\ here = regs[currentTask].eip /\ TableInv
      /\ numTasks \in 1 .. MaxTasks /\ MaxTasks \in Nat
      /\ Live = 0 .. numTasks - 1 /\ currentTask \in Live
  BY CallerFacts, TableFacts DEF ShellForks, InputInv
<1>2. HasShell /\ currentTask = 1 /\ ppid[1] = 1 /\ ShellsText /\ OneAtATime /\ numTasks > 1
  BY <1>1, CallerIsAt DEF InShell, InputInv
<1>3. Idle /\ shell.program # "none"
  BY <1>1, <1>2 DEF Idle, At, ShellsText
<1>4. label \in InputText /\ label.at = "launched"
  BY InputLabels DEF InputPoints, ShellPoints
<1>5. Fork(Inherit, label) /\ UNCHANGED <<frame, inputVars>> /\ shell' = shell
  BY DEF ShellForks, inputVars
<1>6. Inherit \in Nat \cup {Inherit}
  OBVIOUS
<1>. HIDE DEF label
<1>7. /\ \A i \in Live : /\ ppid'[i] = ppid[i]
                         /\ state'[i] = "ZOMBIE" <=> state[i] = "ZOMBIE"
      /\ regs'[1].eip = label /\ regs'[1].ecx # 0
  BY <1>2, <1>4, <1>5, <1>6, ForkedFacts
<1>8. \/ numTasks' = numTasks
      \/ /\ numTasks' = numTasks + 1
         /\ Live' = Live \cup {numTasks} /\ numTasks \notin Live
         /\ ppid'[numTasks] = 2
         /\ regs'[1].ecx = numTasks + 1
         /\ regs'[numTasks].eip = label /\ regs'[numTasks].ecx = 0
  <2>1. \/ numTasks' = numTasks
        \/ /\ numTasks' = numTasks + 1
           /\ Live' = Live \cup {numTasks} /\ numTasks \notin Live
           /\ ppid'[numTasks] = currentTask + 1
           /\ regs'[currentTask].ecx = numTasks + 1
           /\ regs'[numTasks].eip = label /\ regs'[numTasks].ecx = 0
    BY <1>4, <1>5, <1>6, ForkedFacts
  <2>2. currentTask + 1 = 2 /\ currentTask = 1
    BY <1>2
  <2>. QED BY <2>1, <2>2
<1>9. HasShell' = HasShell /\ ppid'[1] = 1
  BY <1>1, <1>2, <1>7 DEF HasShell
<1>10. TaskText(1)'
  <2>1. ShellsResult(1)' # 0
    BY <1>4, <1>7 DEF ShellsResult, At
  <2>2. ShellsText'
    BY <1>3, <1>4, <1>5, <1>7, <2>1 DEF ShellsText, ShellPoints
  <2>. QED BY <1>2, <1>9, <2>2 DEF TaskText, InitsChildText
<1>11. ASSUME NEW i \in Live', i \notin Live
       PROVE  /\ TaskText(i)' /\ i = numTasks /\ regs'[1].ecx = i + 1
  <2>1. /\ i = numTasks /\ ppid'[i] = 2 /\ regs'[i].eip = label /\ regs'[i].ecx = 0 /\ i > 1
        /\ regs'[1].ecx = i + 1
    BY <1>1, <1>2, <1>8, <1>11 DEF Live
  <2>2. ShellsChildText(i)'
    BY <1>3, <1>4, <1>5, <2>1 DEF ShellsChildText, At
  <2>. QED BY <1>2, <1>9, <2>1, <2>2 DEF TaskText
<1>12. OneAtATime'
  <2>. SUFFICES ASSUME NEW i \in Live', ppid'[i] = 2, state'[i] # "ZOMBIE"
                PROVE  LastChild(i)'
    BY DEF OneAtATime
  <2>1. i \notin Live
    BY <1>2, <1>3, <1>7, IdleMeansFinished
  <2>2. At(1, "launched")' /\ regs'[1].ecx = i + 1
    BY <1>4, <1>7, <1>11, <2>1 DEF At
  <2>. QED BY <2>2 DEF LastChild
<1>13. NothingLeft'
  <2>1. numTasks' > 1
    BY <1>1, <1>2, <1>8
  <2>. QED BY <1>4, <1>7, <2>1 DEF NothingLeft, ShellPoints
<1>14. \A i \in Live' : i = currentTask \/ i \notin Live => TaskText(i)'
  BY <1>2, <1>10, <1>11
<1>. QED BY <1>4, <1>5, <1>6, <1>12, <1>13, <1>14, ForkKeepsInput

-----------------------------------------------------------------------------
(* The steps of the kernel and of the user, that no task takes.            *)

(* What moves no task keeps the texts.                                     *)
LEMMA InputStays ==
  ASSUME InputInv, TableInv', InputTypesStay, shell' = shell,
         UNCHANGED <<build, frame, schedulerType, numTasks, currentTask, regs, ppid, state,
                     blocking_pid>>,
         HasShell => KeysHeld'
  PROVE  InputInv'
<1>1. HasShell' = HasShell /\ Live' = Live /\ BranchPoints' = BranchPoints
  BY DEF HasShell, Live, BranchPoints
<1>2. InputTypes'
  BY DEF InputInv, InputTypes, InputTypesStay
<1>3. /\ \A i, at : At(i, at)' = At(i, at)
      /\ \A i : InWindow(i)' = InWindow(i) /\ Entered(i)' = Entered(i)
  BY DEF At, InWindow, Entered
<1>4. \A i : InitsResult(i)' = InitsResult(i) /\ ShellsResult(i)' = ShellsResult(i)
  BY <1>3 DEF InitsResult, ShellsResult
<1>5. InitsText => InitsText'
  BY <1>3, <1>4 DEF InitsText
<1>6. ShellsText => ShellsText'
  BY <1>4 DEF ShellsText
<1>7. ASSUME NEW i PROVE TaskText(i) => TaskText(i)'
  <2>1. InitsChildText(i) => InitsChildText(i)'
    BY <1>1, <1>3, <1>4, <1>6 DEF InitsChildText
  <2>2. ShellsChildText(i) => ShellsChildText(i)'
    BY <1>3 DEF ShellsChildText
  <2>. QED BY <1>1, <1>5, <2>1, <2>2 DEF TaskText
<1>8. TextsInv'
  BY <1>1, <1>3, <1>7 DEF InputInv, TextsInv, Windows
<1>9. HasShell => OneAtATime' /\ NothingLeft'
  <2>1. HasShell => OneAtATime /\ NothingLeft
    BY DEF InputInv
  <2>2. \A i : LastChild(i)' = LastChild(i)
    BY <1>3 DEF LastChild
  <2>. QED BY <1>1, <2>1, <2>2 DEF OneAtATime, NothingLeft
<1>. QED BY <1>1, <1>2, <1>8, <1>9 DEF InputInv

(* Boot adds init, at its first entry.                                     *)
LEMMA InputBootKeeps ==
  ASSUME InputInv, Boot, UNCHANGED inputVars
  PROVE  InputInv'
<1>1. /\ TableInv /\ schedulerType = "ROUNDROBIN" /\ TextsInv /\ InputTypes
      /\ UNCHANGED <<build, frame>> /\ HasShell' = HasShell
      /\ frame' \in [pid : Int, pid2 : Int, initial_count : Int]
  BY DEF InputInv, InputTypes, Boot, HasShell
<1>2. InputTypesStay /\ ProgramStays /\ shell' = shell /\ (HasShell => KeysHeld')
  BY <1>1, InputAlone
<1>3. CASE ~active /\ numTasks = 0 /\ AddTask /\ SetSchedulerType(build.scheduler)
  <2>1. schedulerType' = "ROUNDROBIN"
    BY <1>1, <1>3, ScriptIs DEF SetSchedulerType
  <2>2. TableInv'
    BY <1>1, <1>3, <2>1, AddTaskKeeps DEF Kept, SchedulerTypes
  <2>3. 0 \in Slots /\ Live' = {0} /\ numTasks' = 1
    BY <1>3, MaxTasksAssumption DEF AddTask, Live, Slots
  <2>4. Label("fork", 1) \in InputText /\ Label("fork", 1).at = "fork" /\ Label("fork", 1).k = 1
    BY InputLabels DEF InputPoints, InitPoints
  <2>5. /\ regs' \in [Slots -> [eip : InputText, ecx : Int]]
        /\ regs'[0].eip.at = "fork" /\ regs'[0].eip.k = 1
    <3>. DEFINE label == Label("fork", 1)
    <3>1. regs' = [regs EXCEPT ![0] = [eip |-> label, ecx |-> 0]]
      BY <1>3, EntryAssumption DEF AddTask
    <3>2. regs \in [Slots -> [eip : InputText, ecx : Int]] /\ 0 \in Int
      BY <1>1 DEF InputTypes
    <3>3. label \in InputText /\ label.at = "fork" /\ label.k = 1
      BY <2>4
    <3>. HIDE DEF label
    <3>4. [eip |-> label, ecx |-> 0] \in [eip : InputText, ecx : Int]
      BY <3>2, <3>3
    <3>. QED BY <2>3, <3>1, <3>2, <3>3, <3>4
  <2>6. TextsInv'
    <3>1. TaskText(0)'
      BY <2>3, <2>5 DEF TaskText, InitsText, At
    <3>. QED BY <2>3, <2>5, <3>1 DEF TextsInv, Windows, InWindow
  <2>7. HasShell => OneAtATime' /\ NothingLeft'
    <3>. SUFFICES ASSUME HasShell PROVE OneAtATime' /\ NothingLeft'
      OBVIOUS
    <3>1. shell'.input = <<>>
      BY <1>2, <1>3 DEF InputInv, NothingLeft
    <3>2. ppid'[0] # 2
      <4>1. ppid'[0] \in 0 .. 0
        BY <2>2, <2>3 DEF TableInv, Sound
      <4>. QED BY <4>1
    <3>. QED BY <2>3, <3>1, <3>2 DEF OneAtATime, NothingLeft
  <2>8. InputTypes'
    BY <1>1, <1>2, <2>5 DEF InputTypes, InputTypesStay
  <2>. QED BY <1>1, <1>2, <2>1, <2>2, <2>6, <2>7, <2>8 DEF InputInv
<1>4. CASE numTasks > 0 /\ Activate
  <2>1. /\ UNCHANGED <<schedulerType, numTasks, currentTask, regs, ppid, state, blocking_pid>>
        /\ Live' = Live /\ TableInv'
    BY <1>1, <1>4, ActivateKeeps DEF Activate, tableVars, Live, Kept
  <2>. QED BY <1>1, <1>2, <2>1, InputStays
<1>. QED BY <1>3, <1>4 DEF Boot

LEMMA SamePrefix ==
  ASSUME NEW S, NEW s \in Seq(S), NEW t \in Seq(S), NEW n \in Nat,
         n <= Len(s), n <= Len(t), \A k \in 1 .. n : s[k] = t[k]
  PROVE  SubSeq(s, 1, n) = SubSeq(t, 1, n)
<1>1. /\ Len(SubSeq(s, 1, n)) = n /\ Len(SubSeq(t, 1, n)) = n
      /\ SubSeq(s, 1, n) \in Seq(S) /\ SubSeq(t, 1, n) \in Seq(S)
      /\ \A k \in 1 .. n : SubSeq(s, 1, n)[k] = s[k] /\ SubSeq(t, 1, n)[k] = t[k]
  OBVIOUS
<1>2. \A k \in 1 .. Len(SubSeq(s, 1, n)) : SubSeq(s, 1, n)[k] = SubSeq(t, 1, n)[k]
  BY <1>1
<1>. QED BY <1>1, <1>2, SeqEqual

(* A key goes to the end of pressedKeys, whoever is on the CPU.            *)
LEMMA KeyPressKeeps ==
  ASSUME InputInv, NEW key \in Keyboard, KeyPress(key)
  PROVE  InputInv'
<1>1. /\ typed \in Seq(Keyboard) /\ pressedKeys \in Seq(Keyboard) /\ shell \in ShellLocals
      /\ TableInv /\ InputTypes
  BY DEF InputInv, InputTypes
<1>2. /\ typed' = Append(typed, key) /\ pressedKeys' = Append(pressedKeys, key)
      /\ shell' = shell
      /\ UNCHANGED <<build, frame, schedulerType, numTasks, currentTask, regs, ppid, state,
                     blocking_pid>>
      /\ NoSchedule /\ UNCHANGED taskWithDynamicPriority
  BY DEF KeyPress, allVars, vars, tableVars, NoSchedule
<1>3. TableInv'
  <2>1. taskWithDynamicPriority' \in -1 .. numTasks - 1
    BY <1>1, <1>2 DEF TableInv, TableTypes
  <2>. QED BY <1>1, <1>2, <2>1, NoScheduleKeeps DEF Kept
<1>4. InputTypesStay
  BY <1>1, <1>2 DEF InputTypes, InputTypesStay
<1>5. ASSUME HasShell
      PROVE  KeysHeld'
  <2>. SUFFICES ASSUME Junk \subseteq {<<>>} PROVE KeysInOrder'
    BY DEF KeysHeld
  <2>. DEFINE nt == Len(typed)
              np == Len(pressedKeys)
              ni == Len(shell.input)
              h  == KeysHandled
  <2>1. KeysInOrder
    BY <1>5 DEF InputInv, KeysHeld
  <2>2. nt \in Nat /\ np \in Nat /\ ni \in Nat
    BY <1>1 DEF ShellLocals
  <2>3. /\ Len(typed') = nt + 1 /\ Len(pressedKeys') = np + 1 /\ Len(shell'.input) = ni
        /\ \A n \in 1 .. nt : typed'[n] = typed[n]
        /\ \A n \in 1 .. np : pressedKeys'[n] = pressedKeys[n]
        /\ typed'[nt + 1] = key /\ pressedKeys'[np + 1] = key
    BY <1>1, <1>2
  <2>4. h = nt - ni - np /\ KeysHandled' = (nt + 1) - ni - (np + 1) /\ h \in Nat
    BY <2>1, <2>3 DEF KeysHandled, KeysInOrder
  <2>5. /\ \A n \in 1 .. ni : typed[h + n] = shell.input[n]
        /\ \A n \in 1 .. np : typed[h + ni + n] = pressedKeys[n]
    BY <2>1 DEF KeysInOrder
  <2>6. SubSeq(typed', 1, h) = SubSeq(typed, 1, h)
    <3>1. h <= nt
      <4>. HIDE DEF nt, np, ni, h
      <4>. QED BY <2>2, <2>4
    <3>2. typed' \in Seq(Keyboard) /\ \A n \in 1 .. h : typed[n] = typed'[n]
      <4>1. \A n \in 1 .. h : n \in 1 .. nt
        <5>. HIDE DEF nt, np, ni, h
        <5>. QED BY <2>2, <2>4, <3>1
      <4>. QED BY <1>4, <2>3, <4>1 DEF InputTypesStay
    <3>3. h \in Nat /\ h <= Len(typed) /\ h <= Len(typed')
      <4>. HIDE DEF np, ni, h
      <4>. QED BY <2>2, <2>3, <2>4, <3>1
    <3>. HIDE DEF h
    <3>. QED BY <1>1, <3>2, <3>3, SamePrefix
  <2>. HIDE DEF nt, np, ni, h
  <2>7. KeysHandled' = h /\ h + ni + np = nt /\ h + ni <= nt
    BY <2>2, <2>4
  <2>8. \A n \in 1 .. ni : typed'[h + n] = shell'.input[n]
    <3>. SUFFICES ASSUME NEW n \in 1 .. ni PROVE typed'[h + n] = shell.input[n]
      BY <1>2
    <3>1. h + n \in 1 .. nt
      BY <2>2, <2>4, <2>7
    <3>. QED BY <2>3, <2>5, <3>1
  <2>9. \A n \in 1 .. np + 1 : typed'[h + ni + n] = pressedKeys'[n]
    <3>. SUFFICES ASSUME NEW n \in 1 .. np + 1 PROVE typed'[h + ni + n] = pressedKeys'[n]
      OBVIOUS
    <3>1. CASE n = np + 1
      <4>1. h + ni + n = nt + 1
        BY <2>2, <2>4, <2>7, <3>1
      <4>. QED BY <2>3, <3>1, <4>1
    <3>2. CASE n # np + 1
      <4>1. n \in 1 .. np /\ h + ni + n \in 1 .. nt
        BY <2>2, <2>4, <2>7, <3>2
      <4>. QED BY <2>3, <2>5, <4>1
    <3>. QED BY <3>1, <3>2
  <2>10. ShellOfUser!Edited(SubSeq(typed, 1, KeysHandled))'
           = ShellOfUser!Edited(SubSeq(typed, 1, h))
    <3>1. ShellOfUser!Edited(SubSeq(typed, 1, KeysHandled))'
            = ShellOfUser!Edited(SubSeq(typed', 1, KeysHandled'))
      BY Zenon DEF ShellOfUser!Edited, ShellOfUser!Edit
    <3>. QED BY <2>6, <2>7, <3>1
  <2>11. shell'.buffer = ShellOfUser!Edited(SubSeq(typed, 1, h)).line
    BY <1>2, <2>1 DEF KeysInOrder, h
  <2>. QED BY <2>3, <2>4, <2>7, <2>8, <2>9, <2>10, <2>11 DEF KeysInOrder
<1>. QED BY <1>2, <1>3, <1>4, <1>5, InputStays

(* The mouse button, and steps of other parts of the system.               *)
LEMMA KeysAndTasksStay ==
  ASSUME InputInv, UNCHANGED allVars, UNCHANGED <<pressedKeys, shell, typed>>
  PROVE  InputInv'
<1>1. /\ UNCHANGED <<build, frame, schedulerType, numTasks, currentTask, regs, ppid, state,
                     blocking_pid>>
      /\ NoSchedule /\ UNCHANGED taskWithDynamicPriority
  BY DEF allVars, vars, tableVars, NoSchedule
<1>2. TableInv'
  <2>1. taskWithDynamicPriority' \in -1 .. numTasks - 1
    BY <1>1 DEF InputInv, TableInv, TableTypes
  <2>. QED BY <1>1, <2>1, NoScheduleKeeps DEF InputInv, Kept
<1>3. InputTypesStay
  BY <1>1 DEF InputInv, InputTypes, InputTypesStay
<1>4. HasShell => KeysHeld'
  BY KeysStay DEF InputInv
<1>. QED BY <1>1, <1>2, <1>3, <1>4, InputStays

LEMMA InputInitHasInv ==
  ASSUME Builds \subseteq InputBuilds, InputInit
  PROVE  InputInv
<1>1. TableInv /\ numTasks = 0 /\ Live = {} /\ schedulerType = "ROUNDROBIN"
  BY InitEstablishes DEF InputInit, InitInit, Init, Live
<1>2. /\ typed = <<>> /\ pressedKeys = <<>>
      /\ shell = [buffer |-> <<>>, input |-> <<>>, program |-> "none", pid |-> 0]
  BY DEF InputInit
<1>3. regs \in [Slots -> [eip : InputText, ecx : Int]]
  <2>1. InitProgram \in InputText /\ 0 \in Int
    BY EntryAssumption, InputLabels DEF InputPoints, InitPoints
  <2>2. [eip |-> InitProgram, ecx |-> 0] \in [eip : InputText, ecx : Int]
    BY <2>1
  <2>. QED BY <2>2 DEF InputInit, InitInit, Init
<1>4. InputTypes
  <2>1. build \in Builds \cap InputBuilds
    BY DEF InputInit, InitInit
  <2>2. frame \in [pid : Int, pid2 : Int, initial_count : Int]
    BY DEF InputInit, InitInit
  <2>3. shell \in ShellLocals
    BY <1>2 DEF ShellLocals
  <2>4. typed \in Seq(Keyboard) /\ pressedKeys \in Seq(Keyboard)
    BY <1>2
  <2>. QED BY <1>3, <2>1, <2>2, <2>3, <2>4 DEF InputTypes
<1>5. OneAtATime /\ NothingLeft
  BY <1>1, <1>2 DEF OneAtATime, NothingLeft
<1>6. KeysInOrder
  <2>1. shell.input = <<>> /\ shell.buffer = <<>>
    BY <1>2
  <2>2. Len(typed) = 0 /\ Len(shell.input) = 0 /\ Len(pressedKeys) = 0
    BY <1>2, <2>1
  <2>3. KeysHandled = 0
    BY <2>2 DEF KeysHandled
  <2>4. SubSeq(typed, 1, 0) = <<>>
    BY <1>2
  <2>5. ShellOfUser!Edited(SubSeq(typed, 1, KeysHandled)).line = <<>>
    <3>1. SubSeq(typed, 1, KeysHandled) = <<>>
      BY <2>3, <2>4
    <3>2. ShellOfUser!Edited(SubSeq(typed, 1, KeysHandled)) = Blank
      BY <3>1, EditedEmpty, Zenon
    <3>3. Blank.line = <<>>
      BY DEF Blank
    <3>. QED BY <3>2, <3>3, Zenon
  <2>. QED BY <2>1, <2>2, <2>3, <2>5 DEF KeysInOrder
<1>. QED BY <1>1, <1>4, <1>5, <1>6 DEF InputInv, TextsInv, Windows, KeysHeld

-----------------------------------------------------------------------------
(* The induction.                                                          *)

LEMMA InputStepKeeps ==
  ASSUME InputInv, NEW i, InputStep(i)
  PROVE  InputInv'
<1>1. CASE Step(i) /\ UNCHANGED inputVars
  <2>1. UserMode /\ UNCHANGED <<build, inputVars>> /\ here.at \in InputPoints
    <3>1. UserMode /\ UNCHANGED <<build, inputVars>>
      BY <1>1 DEF Step
    <3>2. here \in InputText
      BY <3>1, CallerFacts
    <3>. QED BY <3>1, <3>2 DEF InputText
  <2>2. build.ending = "spin"
    BY ScriptIs DEF InputInv
  <2>3. here.at \notin {"dynamic", "count", "counted", "poll", "polled"}
    BY <2>1 DEF InputPoints, InitPoints, ChildPoints, ShellPoints, ProgramNames
  <2>4. ~DynamicStep /\ ~CountStep /\ ~PollStep
    BY <2>3 DEF DynamicStep, CountStep, PollStep
  <2>5. ~EndStep
    BY <2>2 DEF EndStep
  <2>6. ForkStep \/ StoreStep \/ TestStep \/ ExecStep \/ ProgramStep \/ WaitStep
    BY <1>1, <2>4, <2>5 DEF Step
  <2>. QED BY <2>1, <2>6, ForkStepKeepsInput, StoreStepKeepsInput, TestStepKeepsInput,
              ExecStepKeepsInput, ProgramStepKeepsInput, WaitStepKeepsInput
<1>2. CASE /\ UserMode /\ UNCHANGED <<build, typed, clicks>>
           /\ AwaitKey \/ AwaitClick \/ CountClicks \/ ShellStep
  <2>1. UNCHANGED <<build, typed>>
    BY <1>2
  <2>. QED BY <1>2, <2>1, AwaitKeyKeeps, CountClicksKeeps, ShellReadsKeeps, ShellEditsKeeps,
              ShellForksKeeps, ShellStoresKeeps, ShellTestsKeeps, ShellExecsKeeps,
              ShellWaitsKeeps DEF ShellStep
<1>. QED BY <1>1, <1>2 DEF InputStep

LEMMA InputNextKeeps ==
  ASSUME ~TimerInWindow, InputInv, [InputNext]_systemVars
  PROVE  InputInv'
<1>1. CASE Boot /\ UNCHANGED inputVars
  BY <1>1, InputBootKeeps
<1>2. CASE InputTimer
  BY <1>2, InputTimerKeeps
<1>3. ASSUME NEW keys \in Typing, Len(typed) < Len(keys), KeyPress(keys[Len(typed) + 1])
      PROVE  InputInv'
  <2>1. keys \in Seq(Keyboard) /\ Len(typed) \in Nat
    BY <1>3, KeysAssumption DEF InputInv, InputTypes
  <2>2. keys[Len(typed) + 1] \in Keyboard
    BY <1>3, <2>1
  <2>. QED BY <1>3, <2>2, KeyPressKeeps
<1>4. CASE MouseClick
  BY <1>4, KeysAndTasksStay DEF MouseClick
<1>5. ASSUME NEW i \in Slots, InputStep(i)
      PROVE  InputInv'
  BY <1>5, InputStepKeeps
<1>6. CASE UNCHANGED systemVars
  BY <1>6, KeysAndTasksStay DEF systemVars, inputVars
<1>. QED BY <1>1, <1>2, <1>3, <1>4, <1>5, <1>6 DEF InputNext

(* The inductive invariant of the builds that react to input: where every  *)
(* task is in its text, who holds which result of fork, that the shell     *)
(* runs one program at a time, and where the keys are.                     *)
THEOREM InputKeepInv ==
  ASSUME ~TimerInWindow, Builds \subseteq InputBuilds
  PROVE  InputSpec => []InputInv
<1>1. InputInit => InputInv
  BY InputInitHasInv
<1>2. InputInv /\ [InputNext]_systemVars => InputInv'
  BY InputNextKeeps
<1>. QED BY <1>1, <1>2, PTL DEF InputSpec

LEMMA InvPrompt == InputInv => PromptMeansFinished
<1>. SUFFICES ASSUME InputInv, UserMode, here.at \in {"shell", "edit"},
                     NEW i \in Live, ppid[i] = pid[currentTask]
              PROVE  state[i] = "ZOMBIE"
  BY DEF PromptMeansFinished
<1>1. HasShell /\ currentTask = 1
  BY CallerIsAt DEF InShell
<1>2. ppid[i] = 2
  BY <1>1, CallerFacts, TableFacts DEF InputInv
<1>3. Idle /\ OneAtATime
  BY <1>1, CallerIsIdle DEF InputInv
<1>. QED BY <1>2, <1>3, IdleMeansFinished

LEMMA InvKeys ==
  ASSUME Junk \subseteq {<<>>}
  PROVE  InputInv => KeysReachTheLine
<1>. DEFINE nt == Len(typed)
            np == Len(pressedKeys)
            ni == Len(shell.input)
            h  == KeysHandled
            waiting == shell.input \o pressedKeys
            handled == SubSeq(typed, 1, nt - Len(waiting))
<1>. SUFFICES ASSUME InputInv, HasShell
              PROVE  typed = handled \o waiting /\ shell.buffer = ShellOfUser!Edited(handled).line
  BY DEF KeysReachTheLine
<1>1. /\ typed \in Seq(Keyboard) /\ pressedKeys \in Seq(Keyboard) /\ shell.input \in Seq(Keyboard)
      /\ nt \in Nat /\ np \in Nat /\ ni \in Nat
  BY DEF InputInv, InputTypes, ShellLocals
<1>2. /\ h \in Nat
      /\ \A n \in 1 .. ni : typed[h + n] = shell.input[n]
      /\ \A n \in 1 .. np : typed[h + ni + n] = pressedKeys[n]
      /\ shell.buffer = ShellOfUser!Edited(SubSeq(typed, 1, h)).line
  BY DEF InputInv, KeysHeld, KeysInOrder
<1>3. h = nt - ni - np
  BY DEF KeysHandled
<1>4. /\ waiting \in Seq(Keyboard) /\ Len(waiting) = ni + np
      /\ \A n \in 1 .. ni + np :
           waiting[n] = IF n <= ni THEN shell.input[n] ELSE pressedKeys[n - ni]
  BY <1>1, ConcatProperties
<1>. HIDE DEF nt, np, ni, h, waiting
<1>5. h + ni + np = nt /\ h <= nt /\ nt - Len(waiting) = h
  <2>1. nt \in Nat /\ np \in Nat /\ ni \in Nat /\ h \in Nat /\ Len(waiting) = ni + np
    BY <1>1, <1>2, <1>4
  <2>2. h + ni + np = nt /\ h <= nt /\ nt - (ni + np) = h
    BY <1>3, <2>1
  <2>. QED BY <2>1, <2>2
<1>6. \A n \in 1 .. ni + np : waiting[n] = typed[h + n]
  <2>. SUFFICES ASSUME NEW n \in 1 .. ni + np PROVE waiting[n] = typed[h + n]
    OBVIOUS
  <2>1. CASE n <= ni
    <3>1. n \in 1 .. ni
      BY <1>1, <2>1
    <3>2. waiting[n] = shell.input[n]
      BY <1>4, <2>1
    <3>. QED BY <1>2, <3>1, <3>2
  <2>2. CASE ~(n <= ni)
    <3>1. n - ni \in 1 .. np /\ h + ni + (n - ni) = h + n
      BY <1>1, <1>2, <2>2
    <3>2. typed[h + ni + (n - ni)] = pressedKeys[n - ni]
      BY <1>2, <3>1
    <3>. QED BY <1>4, <2>2, <3>1, <3>2
  <2>. QED BY <2>1, <2>2
<1>7. handled = SubSeq(typed, 1, h)
  BY <1>5
<1>8. /\ handled \in Seq(Keyboard) /\ Len(handled) = h
      /\ \A n \in 1 .. h : handled[n] = typed[n]
  <2>1. h <= Len(typed)
    BY <1>5 DEF nt
  <2>. QED BY <1>1, <1>2, <1>7, <2>1
<1>. HIDE DEF handled
<1>9. /\ handled \o waiting \in Seq(Keyboard) /\ Len(handled \o waiting) = nt
      /\ \A n \in 1 .. nt :
           (handled \o waiting)[n] = IF n <= h THEN handled[n] ELSE waiting[n - h]
  <2>1. Len(handled) + Len(waiting) = nt
    BY <1>1, <1>2, <1>4, <1>5, <1>8
  <2>. QED BY <1>4, <1>8, <2>1, ConcatProperties
<1>10. \A n \in 1 .. nt : typed[n] = (handled \o waiting)[n]
  <2>. SUFFICES ASSUME NEW n \in 1 .. nt PROVE typed[n] = (handled \o waiting)[n]
    OBVIOUS
  <2>1. CASE n <= h
    BY <1>2, <1>8, <1>9, <2>1
  <2>2. CASE ~(n <= h)
    <3>1. n - h \in 1 .. ni + np /\ h + (n - h) = n
      BY <1>1, <1>2, <1>5, <2>2
    <3>. QED BY <1>6, <1>9, <2>2, <3>1
  <2>. QED BY <2>1, <2>2
<1>11. typed = handled \o waiting
  BY <1>1, <1>9, <1>10, SeqEqual DEF nt
<1>. QED BY <1>2, <1>7, <1>11

(* The prompt is back, and the shell reads or edits, only when every       *)
(* program it has started has finished, for any keys, lines, programs and  *)
(* size of the table, and whatever fresh memory holds.                     *)
THEOREM PromptFollowsTheProgram ==
  ASSUME ~TimerInWindow, Builds \subseteq InputBuilds
  PROVE  InputSpec => []PromptMeansFinished
<1>. QED BY InvPrompt, InputKeepInv, PTL

(* On its way through pressedKeys and the shell's copy no key is lost,     *)
(* doubled or overtaken by another one, and the line is what the keys      *)
(* before them make of it, if the copy's memory is zero where it ends.     *)
THEOREM EveryKeyReachesTheLine ==
  ASSUME ~TimerInWindow, Builds \subseteq InputBuilds, Junk \subseteq {<<>>}
  PROVE  InputSpec => []KeysReachTheLine
<1>1. InputInv => KeysReachTheLine
  BY InvKeys
<1>. QED BY <1>1, InputKeepInv, PTL

-----------------------------------------------------------------------------
(* The shell and its user: every step is one of LineShell, or none.        *)

(* The commands that keys have entered.  More keys only add to them.       *)
CommandsOf(keys) == ShellOfUser!Edited(keys).commands

Begins(first, all) ==
  Len(first) <= Len(all) /\ \A n \in 1 .. Len(first) : first[n] = all[n]

LEMMA EditAddsCommand ==
  ASSUME NEW edited, IsEdited(edited), NEW key
  PROVE  ShellOfUser!Edit(edited, key).commands
           = IF key = Enter /\ edited.line \in DOMAIN ProgramOf
             THEN Append(edited.commands, ProgramOf[edited.line])
             ELSE edited.commands
<1>1. Backspace # Enter
  BY KeysAssumption
<1>2. ASSUME NEW line
      PROVE  [edited EXCEPT !.line = line].commands = edited.commands
  BY DEF IsEdited
<1>3. CASE key = Backspace
  <2>1. \E line : ShellOfUser!Edit(edited, key) = [edited EXCEPT !.line = line]
    BY <1>1, <1>3 DEF ShellOfUser!Edit
  <2>. QED BY <1>1, <1>2, <1>3, <2>1
<1>4. CASE key = Enter
  BY <1>1, <1>4 DEF ShellOfUser!Edit
<1>5. CASE key # Backspace /\ key # Enter
  <2>1. \E line : ShellOfUser!Edit(edited, key) = [edited EXCEPT !.line = line]
    BY <1>5 DEF ShellOfUser!Edit
  <2>. QED BY <1>2, <1>5, <2>1
<1>. QED BY <1>3, <1>4, <1>5

LEMMA AddingKeeps ==
  ASSUME NEW commands \in Seq(ProgramNames), NEW program \in ProgramNames
  PROVE  /\ Append(commands, program) \in Seq(ProgramNames)
         /\ Begins(commands, Append(commands, program)) /\ Begins(commands, commands)
BY DEF Begins

LEMMA EditKeepsCommands ==
  ASSUME NEW edited, IsEdited(edited), edited.commands \in Seq(ProgramNames), NEW key
  PROVE  /\ ShellOfUser!Edit(edited, key).commands \in Seq(ProgramNames)
         /\ Begins(edited.commands, ShellOfUser!Edit(edited, key).commands)
<1>. DEFINE found == key = Enter /\ edited.line \in DOMAIN ProgramOf
<1>1. CASE found
  <2>1. ShellOfUser!Edit(edited, key).commands
          = Append(edited.commands, ProgramOf[edited.line])
    BY <1>1, EditAddsCommand
  <2>2. ProgramOf[edited.line] \in ProgramNames
    BY <1>1, ProgramAssumption
  <2>. QED BY <2>1, <2>2, AddingKeeps
<1>2. CASE ~found
  <2>1. ShellOfUser!Edit(edited, key).commands = edited.commands
    BY <1>2, EditAddsCommand
  <2>2. "collatz" \in ProgramNames
    BY DEF ProgramNames
  <2>. QED BY <2>1, <2>2, AddingKeeps
<1>. QED BY <1>1, <1>2

LEMMA BeginsThrough ==
  ASSUME NEW a \in Seq(ProgramNames), NEW b \in Seq(ProgramNames), NEW c \in Seq(ProgramNames),
         Begins(a, b), Begins(b, c)
  PROVE  Begins(a, c)
<1>1. Len(a) \in Nat /\ Len(b) \in Nat /\ Len(c) \in Nat
  OBVIOUS
<1>2. Len(a) <= Len(c) /\ \A n \in 1 .. Len(a) : n \in 1 .. Len(b)
  BY <1>1 DEF Begins
<1>. QED BY <1>2 DEF Begins

(* From the h-th key on, the commands that were there by then stay first.  *)
LEMMA EditsKeepCommands ==
  ASSUME NEW keys, NEW n \in Nat, NEW after, EditsUpTo(keys, n, after), NEW h \in 0 .. n
  PROVE  \A m \in 0 .. n : /\ IsEdited(after[m]) /\ after[m].commands \in Seq(ProgramNames)
                           /\ h <= m => Begins(after[h].commands, after[m].commands)
<1>. DEFINE Right(m) == /\ IsEdited(after[m]) /\ after[m].commands \in Seq(ProgramNames)
                        /\ h <= m => Begins(after[h].commands, after[m].commands)
            Wrong == {m \in 0 .. n : ~Right(m)}
<1>1. ASSUME Wrong # {} PROVE FALSE
  <2>1. PICK m \in Wrong : \A e \in Wrong : m <= e
    <3>1. Wrong \in SUBSET Nat
      OBVIOUS
    <3>. HIDE DEF Wrong
    <3>. QED BY <1>1, <3>1, NatSetHasMin
  <2>2. m \in 0 .. n /\ ~Right(m)
    BY <2>1
  <2>3. after[m] = IF m = 0 THEN Blank ELSE ShellOfUser!Edit(after[m - 1], keys[m])
    BY <2>2 DEF EditsUpTo
  <2>4. CASE m = 0
    <3>1. after[m] = Blank /\ (h <= m => h = m)
      BY <2>2, <2>3, <2>4
    <3>2. IsEdited(Blank) /\ Blank.commands = <<>> /\ <<>> \in Seq(ProgramNames)
      BY DEF IsEdited, Blank
    <3>3. Begins(Blank.commands, Blank.commands)
      BY <3>2 DEF Begins
    <3>. QED BY <2>2, <3>1, <3>2, <3>3
  <2>5. CASE m # 0
    <3>1. m - 1 \in 0 .. n /\ Right(m - 1) /\ (h <= m => h = m \/ h <= m - 1)
      <4>1. m - 1 \in 0 .. n /\ m - 1 \notin Wrong /\ (h <= m => h = m \/ h <= m - 1)
        BY <2>1, <2>2, <2>5
      <4>. QED BY <4>1
    <3>2. after[m] = ShellOfUser!Edit(after[m - 1], keys[m])
      BY <2>3, <2>5
    <3>3. IsEdited(after[m])
      BY <3>1, <3>2, BufferIsLine
    <3>4. /\ after[m].commands \in Seq(ProgramNames)
          /\ Begins(after[m - 1].commands, after[m].commands)
      BY <3>1, <3>2, EditKeepsCommands
    <3>5. Begins(after[m].commands, after[m].commands)
      BY <3>4 DEF Begins
    <3>6. ASSUME h <= m - 1
          PROVE  Begins(after[h].commands, after[m].commands)
      <4>1. h \notin Wrong
        BY <2>1, <2>2, <3>6
      <4>2. after[h].commands \in Seq(ProgramNames)
        BY <4>1
      <4>. QED BY <3>1, <3>4, <3>6, <4>2, BeginsThrough
    <3>7. Right(m)
      BY <3>1, <3>3, <3>4, <3>5, <3>6
    <3>. QED BY <2>2, <3>7
  <2>. QED BY <2>4, <2>5
<1>2. \A m \in 0 .. n : Right(m)
  BY <1>1
<1>. QED BY <1>2

LEMMA CommandsAre ==
  ASSUME NEW keys, Len(keys) \in Nat
  PROVE  CommandsOf(keys) \in Seq(ProgramNames)
<1>1. PICK after : EditsUpTo(keys, Len(keys), after)
  BY EditsExist
<1>2. Len(keys) \in 0 .. Len(keys)
  OBVIOUS
<1>3. after[Len(keys)].commands \in Seq(ProgramNames)
  BY <1>1, <1>2, EditsKeepCommands
<1>. QED BY <1>1, <1>3, EditedIs DEF CommandsOf

(* The commands of the first keys are the first commands.                  *)
LEMMA CommandsAreKept ==
  ASSUME NEW S, NEW keys \in Seq(S), NEW h \in 0 .. Len(keys)
  PROVE  Begins(CommandsOf(SubSeq(keys, 1, h)), CommandsOf(keys))
<1>. DEFINE first == SubSeq(keys, 1, h)
<1>1. /\ Len(keys) \in Nat /\ h \in Nat /\ h <= Len(keys)
      /\ Len(first) = h /\ \A k \in 1 .. h : first[k] = keys[k]
  OBVIOUS
<1>. HIDE DEF first
<1>2. PICK after : EditsUpTo(keys, Len(keys), after)
  BY <1>1, EditsExist
<1>3. PICK before : EditsUpTo(first, h, before)
  BY <1>1, EditsExist
<1>4. before[h] = after[h]
  <2>1. h <= h
    BY <1>1
  <2>. QED BY <1>1, <1>2, <1>3, <2>1, EditsAgree
<1>5. ShellOfUser!Edited(keys) = after[Len(keys)] /\ ShellOfUser!Edited(first) = before[h]
  BY <1>1, <1>2, <1>3, EditedIs
<1>6. Begins(after[h].commands, after[Len(keys)].commands)
  <2>1. Len(keys) \in 0 .. Len(keys)
    BY <1>1
  <2>. QED BY <1>1, <1>2, <2>1, EditsKeepCommands
<1>. QED BY <1>4, <1>5, <1>6 DEF CommandsOf, first

(* The tasks the shell has forked, the one of them that has yet to exec,   *)
(* and what the user's commands have come to.                              *)
Starting(i) ==
  state[i] # "ZOMBIE" /\ regs[i].eip.at \in {"launched", "launch_test", "launch_exec"}
Pending == \E i \in Launched : Starting(i)

Unfinished == (numTasks > 1 /\ At(1, "launch")) \/ Pending
Promised == IF Unfinished THEN Append(started, shell.program) ELSE started

Done == {i \in Launched : state[i] = "ZOMBIE"}
OutOfRoom == numTasks = MaxTasks /\ Cardinality(Launched) = Len(started)

CommandsHandled == CommandsOf(SubSeq(typed, 1, KeysHandled))

RunsInv ==
  /\ started \in Seq(ProgramNames)
  /\ ~HasShell => started = <<>>
  /\ HasShell => /\ Cardinality(Launched) = IF Pending THEN Len(started) + 1 ELSE Len(started)
                 /\ OutOfRoom \/ CommandsHandled = Promised

ForkedByShell ==
  /\ HasShell => Launched = {i \in Live : ppid[i] = 2}
  /\ ~HasShell => Launched = {}
  /\ IsFiniteSet(Launched) /\ IsFiniteSet(Done)
  /\ Cardinality(Launched) \in Nat /\ Cardinality(Done) \in Nat

LEMMA LaunchedAre == TableInv => ForkedByShell
<1>. SUFFICES ASSUME TableInv PROVE ForkedByShell
  OBVIOUS
<1>1. /\ numTasks \in Nat /\ Live = 0 .. numTasks - 1 /\ \A i \in Live : pid[i] = i + 1
  BY TableFacts
<1>2. HasShell => Launched = {i \in Live : ppid[i] = 2}
  <2>1. ASSUME NEW i \in Live, i > 1
        PROVE  pid[1] = 2
    <3>1. 1 \in Live
      BY <1>1, <2>1
    <3>. QED BY <1>1, <3>1
  <2>2. \A i \in Live : ppid[i] = 2 => i > 1
    BY ShellIsOlder
  <2>3. \A i \in Live : i \in Live \ {0, 1} <=> i > 1
    BY <1>1
  <2>. QED BY <2>1, <2>2, <2>3 DEF Launched
<1>3. ~HasShell => Launched = {}
  BY DEF Launched
<1>4. IsFiniteSet(Launched)
  <2>1. IsFiniteSet(Live)
    BY <1>1, FS_Interval
  <2>2. Launched \in SUBSET Live
    BY DEF Launched
  <2>. QED BY <2>1, <2>2, FS_Subset
<1>5. IsFiniteSet(Done)
  <2>1. Done \in SUBSET Launched
    BY DEF Done
  <2>. QED BY <1>4, <2>1, FS_Subset
<1>. QED BY <1>2, <1>3, <1>4, <1>5, FS_CardinalityType DEF ForkedByShell

LEMMA LaunchedWillBe == TableInv' => ForkedByShell'
BY LaunchedAre, PTL

LEMMA CommandsWillBe ==
  CommandsHandled' = CommandsOf(SubSeq(typed', 1, KeysHandled'))
BY Zenon DEF CommandsHandled, CommandsOf, ShellOfUser!Edited, ShellOfUser!Edit

LEMMA SeenStays ==
  ASSUME HasShell' = HasShell, HasShell => typed' = typed, started' = started,
         Cardinality(Done)' = Cardinality(Done), OutOfRoom' = OutOfRoom
  PROVE  UNCHANGED ShellOfUser!userVars
BY DEF ShellOfUser!userVars, Done, OutOfRoom

(* A step of task i that starts nothing and forgets nothing.               *)
GoesUnseen(i) ==
  \/ regs'[i] = regs[i]
  \/ /\ ppid[i] = 2 => (Starting(i)' <=> Starting(i))
     /\ i = 1 => ~At(1, "launch") /\ ~At(1, "launch")'

ZombiesStay == \A i \in Live : state'[i] = "ZOMBIE" <=> state[i] = "ZOMBIE"

LEMMA UserSeesNothing ==
  ASSUME InputInv, InputInv', RunsInv, HasShell,
         UNCHANGED <<build, numTasks, ppid, started, typed>>, shell'.program = shell.program,
         CommandsHandled' = CommandsHandled, ZombiesStay, \A i \in Live : GoesUnseen(i)
  PROVE  RunsInv' /\ UNCHANGED ShellOfUser!userVars
<1>1. /\ TableInv /\ TableInv' /\ ForkedByShell /\ ForkedByShell'
      /\ HasShell' = HasShell /\ Live' = Live
  BY LaunchedAre, LaunchedWillBe DEF InputInv, HasShell, Live
<1>2. Launched' = Launched /\ Launched = {i \in Live : ppid[i] = 2}
  BY <1>1 DEF ForkedByShell
<1>3. Done' = Done
  BY <1>2 DEF Done, ZombiesStay
<1>4. \A i \in Launched : Starting(i)' <=> Starting(i)
  <2>. SUFFICES ASSUME NEW i \in Launched PROVE Starting(i)' <=> Starting(i)
    OBVIOUS
  <2>1. i \in Live /\ ppid[i] = 2 /\ (state'[i] = "ZOMBIE" <=> state[i] = "ZOMBIE")
    BY <1>2 DEF ZombiesStay
  <2>2. GoesUnseen(i)
    BY <2>1
  <2>. QED BY <2>1, <2>2 DEF GoesUnseen, Starting
<1>5. Pending' <=> Pending
  BY <1>2, <1>4 DEF Pending
<1>6. numTasks > 1 => (At(1, "launch")' <=> At(1, "launch"))
  <2>1. numTasks > 1 => 1 \in Live
    BY <1>1, TableFacts
  <2>2. 1 \in Live => GoesUnseen(1)
    OBVIOUS
  <2>. QED BY <2>1, <2>2 DEF GoesUnseen, At
<1>7. Promised' = Promised
  BY <1>5, <1>6 DEF Promised, Unfinished
<1>8. Cardinality(Launched)' = Cardinality(Launched) /\ Cardinality(Done)' = Cardinality(Done)
  BY <1>2, <1>3
<1>9. OutOfRoom' = OutOfRoom
  BY <1>8 DEF OutOfRoom
<1>10. RunsInv'
  BY <1>1, <1>5, <1>7, <1>8, <1>9 DEF RunsInv
<1>. QED BY <1>1, <1>8, <1>9, <1>10, SeenStays

(* Where there is no shell the user sees only that the table fills up.     *)
LEMMA NoShellNoRuns ==
  ASSUME InputInv, InputInv', RunsInv, ~HasShell, UNCHANGED <<build, started>>,
         numTasks' \in {numTasks, numTasks + 1}
  PROVE  RunsInv' /\ [ShellOfUser!Next]_(ShellOfUser!userVars)
<1>1. /\ TableInv /\ TableInv' /\ ForkedByShell /\ ForkedByShell' /\ HasShell' = HasShell
      /\ numTasks \in Nat /\ MaxTasks \in Nat
  BY LaunchedAre, LaunchedWillBe, TableFacts DEF InputInv, HasShell
<1>2. Launched' = {} /\ Launched = {} /\ started = <<>> /\ started' = <<>>
  BY <1>1 DEF ForkedByShell, RunsInv
<1>3. Done' = {} /\ Done = {}
  BY <1>2 DEF Done
<1>4. RunsInv'
  BY <1>1, <1>2 DEF RunsInv
<1>5. /\ OutOfRoom <=> numTasks = MaxTasks
      /\ OutOfRoom' <=> numTasks' = MaxTasks
  <2>1. Cardinality({}) = 0 /\ Len(<<>>) = 0
    BY FS_EmptySet
  <2>. QED BY <1>2, <2>1 DEF OutOfRoom
<1>6. Cardinality(Done)' = Cardinality(Done)
  BY <1>3
<1>7. CASE numTasks' = MaxTasks <=> numTasks = MaxTasks
  <2>1. OutOfRoom' = OutOfRoom
    BY <1>2, <1>7 DEF OutOfRoom
  <2>. QED BY <1>1, <1>2, <1>4, <1>6, <2>1, SeenStays
<1>8. CASE ~ (numTasks' = MaxTasks <=> numTasks = MaxTasks)
  <2>1. numTasks' = MaxTasks /\ numTasks # MaxTasks
    <3>1. numTasks' <= MaxTasks
      BY <1>1 DEF TableInv, TableTypes
    <3>. QED BY <1>1, <1>8, <3>1
  <2>2. ShellOfUser!RunOut
    BY <1>1, <1>2, <1>5, <1>6, <2>1 DEF ShellOfUser!RunOut, OutOfRoom, Done
  <2>. QED BY <1>4, <2>2 DEF ShellOfUser!Next
<1>. QED BY <1>7, <1>8

-----------------------------------------------------------------------------
(* The steps that the user does not see.                                   *)

Followed == RunsInv' /\ [ShellOfUser!Next]_(ShellOfUser!userVars)

LEMMA SameCommands ==
  ASSUME typed' = typed, KeysHandled' = KeysHandled
  PROVE  CommandsHandled' = CommandsHandled
<1>1. CommandsHandled' = CommandsOf(SubSeq(typed', 1, KeysHandled'))
  BY CommandsWillBe
<1>. QED BY <1>1 DEF CommandsHandled

LEMMA KeysUntouched ==
  ASSUME UNCHANGED <<typed, pressedKeys>>, shell'.input = shell.input
  PROVE  KeysHandled' = KeysHandled
BY DEF KeysHandled

(* One that returns without scheduling, with its task at label.            *)
LEMMA QuietUnseen ==
  ASSUME InputInv, InputInv', RunsInv, HasShell, UserMode, NoSchedule,
         UNCHANGED <<build, started, typed>>, shell'.program = shell.program,
         CommandsHandled' = CommandsHandled, NEW label \in InputText,
         \/ regs' = [regs EXCEPT ![esp].eip = label]
         \/ \E value \in Int : regs' = Return(label, value),
         here.at # "launch", label.at # "launch",
         ppid[currentTask] = 2 =>
           (label.at \in {"launched", "launch_test", "launch_exec"} <=>
            here.at \in {"launched", "launch_test", "launch_exec"})
  PROVE  Followed
<1>1. UNCHANGED <<numTasks, ppid, state>>
  BY DEF NoSchedule, tableVars
<1>2. /\ \A i \in Slots : i # currentTask => regs'[i] = regs[i]
      /\ regs'[currentTask].eip = label
  BY InputCallerGoesOn
<1>3. Live \subseteq Slots /\ here = regs[currentTask].eip
  BY CallerFacts, TableFacts DEF InputInv
<1>4. ASSUME NEW i \in Live
      PROVE  GoesUnseen(i)
  <2>1. CASE i = currentTask
    <3>1. Starting(i)' <=> /\ state'[i] # "ZOMBIE"
                           /\ label.at \in {"launched", "launch_test", "launch_exec"}
      BY <1>2, <2>1 DEF Starting
    <3>2. Starting(i) <=> /\ state[i] # "ZOMBIE"
                          /\ here.at \in {"launched", "launch_test", "launch_exec"}
      BY <1>3, <2>1 DEF Starting
    <3>3. i = 1 => ~At(1, "launch") /\ ~At(1, "launch")'
      BY <1>2, <1>3, <2>1 DEF At
    <3>. QED BY <1>1, <2>1, <3>1, <3>2, <3>3 DEF GoesUnseen
  <2>2. CASE i # currentTask
    BY <1>2, <1>3, <2>2 DEF GoesUnseen
  <2>. QED BY <2>1, <2>2
<1>5. ZombiesStay
  BY <1>1 DEF ZombiesStay
<1>. QED BY <1>1, <1>4, <1>5, UserSeesNothing DEF Followed

LEMMA InitsStepUnseen ==
  ASSUME InputInv, InputInv', RunsInv, HasShell, UserMode, UNCHANGED <<build, inputVars>>,
         StoreStep \/ TestStep \/ ExecStep
  PROVE  Followed
<1>1. /\ UNCHANGED <<started, typed, pressedKeys, shell>> /\ shell'.program = shell.program
      /\ CommandsHandled' = CommandsHandled
  BY KeysUntouched, SameCommands DEF inputVars
<1>2. /\ here = regs[currentTask].eip /\ here \in InputText /\ here.k \in Nat /\ InputTypes
      /\ AfterFork(here.at, here.k) /\ InBranch(here.at, here.k)
      /\ TableInv /\ currentTask \in Live
  BY CallerFacts, CallerIsAt DEF InputText, InputInv
<1>3. currentTask = 0 => ppid[currentTask] # 2
  BY <1>2, ShellIsOlder
<1>4. CASE StoreStep
  <2>1. here.at = "forked" /\ ppid[currentTask] # 2
    BY <1>2, <1>3, <1>4 DEF StoreStep, AfterFork
  <2>. DEFINE label == Label("test", here.k)
  <2>2. regs' = [regs EXCEPT ![esp].eip = label] /\ NoSchedule
    BY <1>4 DEF StoreStep, Goto, k_
  <2>3. label \in InputText /\ label.at = "test"
    BY <1>2, InputLabels DEF InputPoints, InitPoints
  <2>. HIDE DEF label
  <2>. QED BY <1>1, <2>1, <2>2, <2>3, QuietUnseen
<1>5. CASE TestStep
  <2>1. here.at = "test" /\ here.k \in {1, 2} /\ ppid[currentTask] # 2
    BY <1>2, <1>3, <1>5 DEF TestStep, AfterFork
  <2>. DEFINE label == Branch(here.k, frame.pid)
  <2>2. regs' = [regs EXCEPT ![esp].eip = label] /\ NoSchedule
    BY <1>2, <1>5, <2>1, ScriptIs DEF TestStep, Goto, k_
  <2>3. label \in {Label("exec", 1), Label("count_clicks", 2), Label("fork", 2), Label("wait", 0)}
    BY <1>2, <2>1, ScriptIs, InputEntries DEF Branch, ChildBranch
  <2>4. label \in InputText /\ label.at # "launch"
    <3>1. \A at \in {"exec", "count_clicks", "fork", "wait"}, k \in {0, 1, 2} :
            Label(at, k) \in InputText /\ Label(at, k).at # "launch"
      BY InputLabels DEF InputPoints, InitPoints, ChildPoints
    <3>. HIDE DEF label
    <3>. QED BY <2>3, <3>1
  <2>. HIDE DEF label
  <2>. QED BY <1>1, <2>1, <2>2, <2>4, QuietUnseen
<1>6. CASE ExecStep
  <2>1. here.at = "exec" /\ ppid[currentTask] # 2 /\ here.k \in {1, 2}
    BY <1>2, <1>6 DEF ExecStep, InBranch, ChildPoints
  <2>2. here.k = 1
    <3>1. TaskText(currentTask) /\ currentTask # 0 /\ (here.k = 1 <=> currentTask = 1)
      BY <1>2, <2>1, CallerFacts DEF InBranch, ChildPoints
    <3>. QED BY <1>2, <2>1, <3>1
             DEF TaskText, InitsChildText, ShellsText, ShellPoints, ProgramNames, At
  <2>. DEFINE label == ProgramLabel(here.k)
  <2>3. (\E value \in Int : regs' = Return(label, value)) /\ NoSchedule
    BY <1>6 DEF ExecStep, Exec, k_
  <2>4. label \in InputText /\ label.at = "shell"
    <3>1. label = Label("shell", 0)
      BY <1>2, <2>2, ScriptIs DEF ProgramLabel
    <3>. HIDE DEF label
    <3>. QED BY <3>1, InputLabels DEF InputPoints, ShellPoints
  <2>. HIDE DEF label
  <2>. QED BY <1>1, <2>1, <2>3, <2>4, QuietUnseen
<1>. QED BY <1>4, <1>5, <1>6

LEMMA CountClicksUnseen ==
  ASSUME InputInv, InputInv', RunsInv, HasShell, UserMode, UNCHANGED <<build, typed>>, CountClicks
  PROVE  Followed
<1>1. /\ NoSchedule /\ UNCHANGED <<started, typed, pressedKeys, shell>>
      /\ regs' = [regs EXCEPT ![esp].eip = here] /\ here.at = "count_clicks"
  BY DEF CountClicks, Goto
<1>2. here \in InputText
  BY CallerFacts
<1>3. CommandsHandled' = CommandsHandled /\ shell'.program = shell.program
  BY <1>1, KeysUntouched, SameCommands
<1>. QED BY <1>1, <1>2, <1>3, QuietUnseen

(* What was read is still to be handled.                                   *)
LEMMA ShellReadsUnseen ==
  ASSUME InputInv, InputInv', RunsInv, HasShell, UserMode, UNCHANGED <<build, typed>>, ShellReads,
         Junk \subseteq {<<>>}
  PROVE  Followed
<1>. DEFINE label == Label("edit", 0)
<1>1. here.at = "shell" /\ regs[currentTask].eip = here
  BY CallerFacts DEF ShellReads
<1>2. currentTask = 1
  BY <1>1, CallerIsAt DEF InShell
<1>3. shell' = [shell EXCEPT !.input = pressedKeys]
  <2>1. PICK junk \in Junk : shell' = [shell EXCEPT !.input = pressedKeys \o junk]
    BY DEF ShellReads, KeysRead
  <2>2. pressedKeys \in Seq(Keyboard) /\ junk = <<>>
    BY DEF InputInv, InputTypes
  <2>3. pressedKeys \o <<>> = pressedKeys
    BY <2>2
  <2>. QED BY <2>1, <2>2, <2>3
<1>4. shell'.input = pressedKeys /\ shell'.program = shell.program
  BY <1>3 DEF InputInv, InputTypes, ShellLocals
<1>5. shell.input = <<>> /\ pressedKeys' = <<>>
  BY <1>1, <1>2 DEF InputInv, NothingLeft, ShellReads, ReadKeyPresses
<1>6. KeysHandled' = KeysHandled
  <2>1. Len(typed) \in Nat /\ Len(pressedKeys) \in Nat
    BY DEF InputInv, InputTypes
  <2>2. Len(shell.input) = 0 /\ Len(pressedKeys') = 0 /\ Len(shell'.input) = Len(pressedKeys)
    BY <1>4, <1>5
  <2>. QED BY <2>1, <2>2 DEF KeysHandled
<1>7. NoSchedule /\ started' = started /\ regs' = [regs EXCEPT ![esp].eip = label]
  BY DEF ShellReads, Goto
<1>8. label \in InputText /\ label.at = "edit"
  BY InputLabels DEF InputPoints, ShellPoints
<1>9. CommandsHandled' = CommandsHandled
  BY <1>6, SameCommands
<1>. HIDE DEF label
<1>. QED BY <1>1, <1>4, <1>7, <1>8, <1>9, QuietUnseen

LEMMA ShellStoresUnseen ==
  ASSUME InputInv, InputInv', RunsInv, HasShell, UserMode, UNCHANGED <<build, typed>>, ShellStores
  PROVE  Followed
<1>. DEFINE label == Label("launch_test", 0)
<1>1. /\ NoSchedule /\ UNCHANGED <<started, pressedKeys>>
      /\ regs' = [regs EXCEPT ![esp].eip = label] /\ here.at = "launched"
      /\ shell' = [shell EXCEPT !.pid = regs[esp].ecx]
  BY DEF ShellStores, Goto
<1>2. shell'.input = shell.input /\ shell'.program = shell.program
  BY <1>1 DEF InputInv, InputTypes, ShellLocals
<1>3. CommandsHandled' = CommandsHandled
  BY <1>1, <1>2, KeysUntouched, SameCommands
<1>4. label \in InputText /\ label.at = "launch_test"
  BY InputLabels DEF InputPoints, ShellPoints
<1>. HIDE DEF label
<1>. QED BY <1>1, <1>2, <1>3, <1>4, QuietUnseen

LEMMA ShellTestsUnseen ==
  ASSUME InputInv, InputInv', RunsInv, HasShell, UserMode, UNCHANGED <<build, typed>>, ShellTests
  PROVE  Followed
<1>. DEFINE at    == IF shell.pid = 0 THEN "launch_exec" ELSE "launch_wait"
            label == Label(at, 0)
<1>1. /\ NoSchedule /\ UNCHANGED <<started, pressedKeys, shell>>
      /\ regs' = [regs EXCEPT ![esp].eip = label] /\ here.at = "launch_test"
  BY DEF ShellTests, Goto
<1>2. shell'.program = shell.program /\ CommandsHandled' = CommandsHandled
  BY <1>1, KeysUntouched, SameCommands
<1>3. ppid[currentTask] = 2 => shell.pid = 0
  <2>1. /\ ~At(currentTask, "launched")
        /\ \/ currentTask = 1 /\ ppid[1] = 1
           \/ ShellsResult(currentTask) = 0
    BY <1>1, CallerFacts, CallerIsAt DEF InShell, At
  <2>. QED BY <2>1 DEF ShellsResult
<1>4. label \in InputText /\ label.at = at
  BY InputLabels DEF InputPoints, ShellPoints
<1>5. ppid[currentTask] = 2 => label.at = "launch_exec"
  BY <1>3, <1>4
<1>6. label.at # "launch"
  BY <1>4
<1>. HIDE DEF label, at
<1>. QED BY <1>1, <1>2, <1>4, <1>5, <1>6, QuietUnseen

(* The steps that end in the scheduler.                                    *)
LEMMA WaitUnseen ==
  ASSUME InputInv, InputInv', RunsInv, HasShell, UserMode, UNCHANGED <<build, inputVars>>,
         NEW target, NEW label \in InputText, Wait(target, label),
         ppid[currentTask] # 2, here.at # "launch", label.at # "launch"
  PROVE  Followed
<1>1. /\ TableInv /\ schedulerType = "ROUNDROBIN" /\ numTasks > 0 /\ Live \subseteq Slots
      /\ here = regs[currentTask].eip
      /\ numTasks \in 0 .. MaxTasks /\ MaxTasks \in Nat /\ Live = 0 .. numTasks - 1
  BY CallerFacts, TableFacts DEF InputInv
<1>2. /\ UNCHANGED <<numTasks, ppid, started, typed, pressedKeys, shell>>
      /\ shell'.program = shell.program
  BY DEF Wait, inputVars
<1>3. CommandsHandled' = CommandsHandled
  BY <1>2, KeysUntouched, SameCommands
<1>4. /\ \A i \in Slots : i # currentTask => regs'[i] = regs[i]
      /\ regs'[currentTask].eip = label
  <2>1. \E value \in Int : regs' = Return(label, value)
    BY DEF Wait, Failed
  <2>. QED BY <2>1, InputCallerGoesOn
<1>5. ASSUME Awaitable(target)
      PROVE  target \in WaitTargets
  <2>1. CASE target = WAIT_ALL_CHILDREN
    BY <2>1 DEF WaitTargets
  <2>2. CASE target # WAIT_ALL_CHILDREN
    <3>1. PICK i \in Live : i + 1 = target
      BY <1>1, <1>5, <2>2, FindTaskFindsSlot DEF Awaitable
    <3>. QED BY <1>1, <3>1 DEF WaitTargets
  <2>. QED BY <2>1, <2>2
<1>6. ZombiesStay
  <2>1. CASE Awaitable(target)
    <3>1. /\ Finished(numTasks, BlockedTable, ppid, blocking_pid')
          /\ BlockedTable[currentTask] = "BLOCKED" /\ state[currentTask] # "ZOMBIE"
          /\ \A i \in Slots : i # currentTask => BlockedTable[i] = state[i]
      BY <1>1, <1>5, <2>1, AwaitFinished
    <3>2. \A i \in Slots : state'[i] = "ZOMBIE" <=> BlockedTable[i] = "ZOMBIE"
      BY <1>1, <3>1, RoundRobinKeepsWhoWaits
    <3>. QED BY <1>1, <3>1, <3>2 DEF ZombiesStay
  <2>2. CASE ~Awaitable(target)
    <3>1. Schedule(numTasks, state, priority, cpustate) /\ UNCHANGED blocking_pid
      BY <2>2 DEF Wait
    <3>2. Finished(numTasks, state, ppid, blocking_pid)
      BY <1>1, <3>1, InvHandled, ScheduleKeepsSound
    <3>3. \A i \in Slots : state'[i] = "ZOMBIE" <=> state[i] = "ZOMBIE"
      BY <1>1, <3>2, RoundRobinKeepsWhoWaits
    <3>. QED BY <1>1, <3>3 DEF ZombiesStay
  <2>. QED BY <2>1, <2>2
<1>7. ASSUME NEW i \in Live
      PROVE  GoesUnseen(i)
  BY <1>1, <1>4 DEF GoesUnseen, At
<1>. QED BY <1>2, <1>3, <1>6, <1>7, UserSeesNothing DEF Followed

LEMMA WaitsUnseen ==
  ASSUME InputInv, InputInv', RunsInv, HasShell, UserMode, UNCHANGED <<build, inputVars>>,
         WaitStep \/ ShellWaits
  PROVE  Followed
<1>1. TableInv /\ currentTask \in Live
  BY CallerFacts DEF InputInv
<1>2. CASE WaitStep
  <2>. DEFINE label == Label("waited", 0)
  <2>1. here.at = "wait" /\ Wait(WAIT_ALL_CHILDREN, label)
    BY <1>2 DEF WaitStep
  <2>2. ppid[currentTask] # 2
    BY <1>1, <2>1, CallerIsAt, ShellIsOlder DEF InitsWait
  <2>3. label \in InputText /\ label.at = "waited"
    BY InputLabels DEF InputPoints, InitPoints
  <2>. HIDE DEF label
  <2>. QED BY <2>1, <2>2, <2>3, WaitUnseen
<1>3. CASE ShellWaits
  <2>. DEFINE label == Label("edit", 0)
  <2>1. here.at = "launch_wait" /\ Wait(shell.pid, label)
    BY <1>3 DEF ShellWaits, ShellsWait
  <2>2. ppid[currentTask] # 2
    BY <2>1, CallerIsAt DEF InShell
  <2>3. label \in InputText /\ label.at = "edit"
    BY InputLabels DEF InputPoints, ShellPoints
  <2>. HIDE DEF label
  <2>. QED BY <2>1, <2>2, <2>3, WaitUnseen
<1>. QED BY <1>2, <1>3

(* A step that moves no task and adds none.                                *)
LEMMA NobodyMoves ==
  ASSUME InputInv, InputInv', RunsInv, HasShell, ZombiesStay,
         UNCHANGED <<build, numTasks, ppid, regs, started, typed, pressedKeys, shell>>
  PROVE  Followed
<1>1. CommandsHandled' = CommandsHandled /\ shell'.program = shell.program
  BY KeysUntouched, SameCommands
<1>2. \A i \in Live : GoesUnseen(i)
  BY DEF GoesUnseen
<1>. QED BY <1>1, <1>2, UserSeesNothing DEF Followed

LEMMA InputTimerUnseen ==
  ASSUME InputInv, InputInv', RunsInv, HasShell, InputTimer
  PROVE  Followed
<1>1. /\ TimerInterrupt
      /\ UNCHANGED <<build, numTasks, ppid, regs, started, typed, pressedKeys, shell>>
      /\ UNCHANGED blocking_pid
  BY DEF InputTimer, Timer, TimerInterrupt, inputVars
<1>2. /\ TableInv /\ schedulerType = "ROUNDROBIN" /\ Live \subseteq Slots
      /\ numTasks \in Nat /\ Live = 0 .. numTasks - 1
  BY TableFacts DEF InputInv
<1>3. ZombiesStay
  <2>1. CASE numTasks > 0
    <3>1. Finished(numTasks, state, ppid, blocking_pid)
      BY <1>1, <1>2, <2>1, InvHandled, ScheduleKeepsSound DEF TimerInterrupt
    <3>2. \A i \in Slots : state'[i] = "ZOMBIE" <=> state[i] = "ZOMBIE"
      BY <1>2, <3>1, RoundRobinKeepsWhoWaits
    <3>. QED BY <1>2, <3>2 DEF ZombiesStay
  <2>2. CASE ~(numTasks > 0)
    <3>1. Live = {}
      BY <1>2, <2>2
    <3>. QED BY <3>1 DEF ZombiesStay
  <2>. QED BY <2>1, <2>2
<1>. QED BY <1>1, <1>3, NobodyMoves

LEMMA BootUnseen ==
  ASSUME InputInv, InputInv', RunsInv, HasShell, Boot, UNCHANGED inputVars
  PROVE  Followed
<1>1. /\ UNCHANGED <<build, started, typed, pressedKeys, shell>> /\ HasShell' = HasShell
      /\ CommandsHandled' = CommandsHandled
  <2>1. UNCHANGED <<build, started, typed, pressedKeys, shell>>
    BY DEF Boot, inputVars
  <2>. QED BY <2>1, KeysUntouched, SameCommands DEF HasShell
<1>2. CASE numTasks > 0 /\ Activate
  <2>1. UNCHANGED <<numTasks, ppid, regs, state>>
    BY <1>2 DEF Activate, tableVars
  <2>. QED BY <1>1, <2>1, NobodyMoves DEF ZombiesStay
<1>3. CASE numTasks = 0 /\ AddTask
  <2>1. /\ numTasks' = 1 /\ numTasks = 0 /\ MaxTasks > 2
    BY <1>3, ScriptIs DEF AddTask, InputInv
  <2>2. Live = {} /\ Live' = {0}
    BY <2>1 DEF Live
  <2>3. Launched = {} /\ Launched' = {} /\ Done = {} /\ Done' = {}
    BY <2>2 DEF Launched, Done
  <2>4. Promised = started /\ Promised' = started /\ ~Pending /\ ~Pending'
    BY <1>1, <2>1, <2>3 DEF Promised, Unfinished, Pending
  <2>5. ~OutOfRoom /\ ~OutOfRoom'
    BY <2>1, MaxTasksAssumption DEF OutOfRoom
  <2>6. RunsInv'
    BY <1>1, <2>3, <2>4, <2>5 DEF RunsInv
  <2>7. OutOfRoom' = OutOfRoom
    BY <2>5 DEF OutOfRoom
  <2>. QED BY <1>1, <2>3, <2>6, <2>7, SeenStays DEF Followed
<1>. QED BY <1>2, <1>3 DEF Boot

(* A key that the shell has yet to read changes nothing but what is typed. *)
LEMMA KeyIsTyped ==
  ASSUME InputInv, InputInv', RunsInv, HasShell, NEW key \in Keyboard, KeyPress(key),
         Junk \subseteq {<<>>}
  PROVE  Followed
<1>1. /\ typed \in Seq(Keyboard) /\ pressedKeys \in Seq(Keyboard) /\ shell \in ShellLocals
      /\ KeysInOrder /\ Len(shell.input) \in Nat
  BY DEF InputInv, InputTypes, KeysHeld, ShellLocals
<1>2. /\ typed' = Append(typed, key) /\ pressedKeys' = Append(pressedKeys, key)
      /\ UNCHANGED <<build, numTasks, ppid, regs, state, started, shell>>
  BY DEF KeyPress, allVars, vars, tableVars
<1>3. Len(typed') = Len(typed) + 1 /\ SubSeq(typed', 1, Len(typed)) = typed
  <2>1. /\ typed' \in Seq(Keyboard) /\ Len(typed') = Len(typed) + 1 /\ Len(typed) \in Nat
        /\ \A n \in 1 .. Len(typed) : typed'[n] = typed[n]
    BY <1>1, <1>2
  <2>2. SubSeq(typed', 1, Len(typed)) = SubSeq(typed, 1, Len(typed))
    BY <1>1, <2>1, SamePrefix
  <2>. QED BY <1>1, <2>1, <2>2
<1>4. KeysHandled' = KeysHandled /\ KeysHandled \in Nat /\ KeysHandled <= Len(typed)
  <2>. DEFINE nt == Len(typed)
              np == Len(pressedKeys)
              ni == Len(shell.input)
  <2>1. /\ nt \in Nat /\ np \in Nat /\ ni \in Nat
        /\ KeysHandled = nt - ni - np /\ KeysHandled' = (nt + 1) - ni - (np + 1)
    BY <1>1, <1>2 DEF KeysHandled
  <2>2. KeysHandled \in Nat
    BY <1>1 DEF KeysInOrder
  <2>. HIDE DEF nt, np, ni
  <2>3. KeysHandled' = KeysHandled /\ KeysHandled <= nt
    BY <2>1, <2>2
  <2>. QED BY <2>2, <2>3 DEF nt
<1>5. CommandsHandled' = CommandsHandled
  <2>1. /\ typed' \in Seq(Keyboard) /\ KeysHandled <= Len(typed')
        /\ \A n \in 1 .. KeysHandled : typed[n] = typed'[n]
    BY <1>1, <1>2, <1>4
  <2>2. SubSeq(typed, 1, KeysHandled) = SubSeq(typed', 1, KeysHandled')
    BY <1>1, <1>4, <2>1, SamePrefix
  <2>. QED BY <2>2, CommandsWillBe DEF CommandsHandled
<1>6. HasShell' = HasShell /\ Live' = Live
  BY <1>2 DEF HasShell, Live
<1>7. /\ Launched' = Launched /\ Done' = Done /\ (Pending' <=> Pending)
      /\ OutOfRoom' = OutOfRoom
  <2>1. Launched' = Launched
    BY <1>2, <1>6, LaunchedAre, LaunchedWillBe DEF InputInv, ForkedByShell
  <2>. QED BY <1>2, <2>1 DEF Done, Pending, Starting, OutOfRoom
<1>8. Promised' = Promised
  BY <1>2, <1>7 DEF Promised, Unfinished, At
<1>9. RunsInv'
  BY <1>2, <1>5, <1>6, <1>7, <1>8 DEF RunsInv
<1>10. ShellOfUser!Type
  BY <1>2, <1>3, <1>6, <1>7 DEF ShellOfUser!Type, Done, OutOfRoom
<1>. QED BY <1>9, <1>10 DEF Followed, ShellOfUser!Next

-----------------------------------------------------------------------------
(* The shell's own steps.                                                  *)

LEMMA NobodyStarts ==
  ASSUME InputInv, HasShell, Idle
  PROVE  ~Pending /\ Launched = Done
<1>1. Launched = {i \in Live : ppid[i] = 2} /\ OneAtATime
  BY LaunchedAre DEF InputInv, ForkedByShell
<1>2. \A i \in Launched : state[i] = "ZOMBIE"
  BY <1>1, IdleMeansFinished
<1>. QED BY <1>2 DEF Pending, Starting, Done

(* A line that names a program is one more command, which the shell is     *)
(* about to launch.                                                        *)
LEMMA CommandFound ==
  ASSUME InputInv, InputInv', RunsInv, HasShell, UserMode, UNCHANGED <<build, typed>>,
         ShellEdits, shell.input # <<>>, Found, KeysInOrder
  PROVE  Followed
<1>. DEFINE label == Label("launch", 0)
            program == ProgramOf[shell.buffer]
            buffer == Buffer(shell.buffer, Head(shell.input))
<1>1. /\ here.at = "edit" /\ regs[currentTask].eip = here
  BY CallerFacts DEF ShellEdits
<1>2. currentTask = 1 /\ 1 \in Live
  BY <1>1, CallerIsAt, CallerFacts DEF InShell
<1>3. /\ Idle /\ ~At(1, "launch") /\ numTasks > 1 /\ numTasks \in Nat
      /\ InputTypes /\ TableInv /\ Live = 0 .. numTasks - 1
  BY <1>1, <1>2, CallerIsIdle, TableFacts DEF InputInv, At
<1>4. /\ NoSchedule /\ UNCHANGED <<started, pressedKeys>>
      /\ regs' = [regs EXCEPT ![esp].eip = label]
      /\ shell' = [shell EXCEPT !.buffer = buffer, !.input = Tail(shell.input),
                                !.program = program]
  BY DEF ShellEdits, Goto
<1>5. label \in InputText /\ label.at = "launch"
  BY InputLabels DEF InputPoints, ShellPoints
<1>. HIDE DEF label, buffer, program
<1>6. shell'.input = Tail(shell.input) /\ shell'.program = program
  BY <1>3, <1>4 DEF InputTypes, ShellLocals
<1>7. /\ regs'[1].eip = label
      /\ \A i \in Slots : i # 1 => regs'[i] = regs[i]
  BY <1>2, <1>4, <1>5, InputCallerGoesOn
<1>8. UNCHANGED <<numTasks, ppid, state>> /\ Live' = Live /\ HasShell' = HasShell
  BY <1>4 DEF NoSchedule, tableVars, Live, HasShell
<1>9. /\ Launched' = Launched /\ Launched = {i \in Live : ppid[i] = 2}
      /\ Launched \subseteq Slots /\ 1 \notin Launched
  <2>1. Launched' = Launched /\ Launched = {i \in Live : ppid[i] = 2}
    BY <1>8, LaunchedAre, LaunchedWillBe DEF InputInv, ForkedByShell
  <2>. QED BY <1>3, <2>1, ShellIsOlder, TableFacts
<1>10. Done' = Done /\ ~Pending /\ ~Pending'
  <2>1. ~Pending /\ Launched = Done
    BY <1>3, NobodyStarts
  <2>. QED BY <1>8, <1>9, <2>1 DEF Done, Pending, Starting
<1>11. OutOfRoom' = OutOfRoom
  BY <1>4, <1>8, <1>9 DEF OutOfRoom
<1>12. Promised = started /\ Promised' = Append(started, program)
  <2>1. ~Unfinished
    BY <1>3, <1>10 DEF Unfinished
  <2>2. Unfinished'
    BY <1>3, <1>5, <1>7, <1>8 DEF Unfinished, At
  <2>. QED BY <1>4, <1>6, <2>1, <2>2 DEF Promised
<1>13. CommandsHandled' = Append(CommandsHandled, program)
  <2>. DEFINE edited == ShellOfUser!Edited(SubSeq(typed, 1, KeysHandled))
              edited2 == ShellOfUser!Edited(SubSeq(typed, 1, KeysHandled + 1))
  <2>1. /\ IsEdited(edited) /\ shell.buffer = edited.line
        /\ edited2 = ShellOfUser!Edit(edited, Head(shell.input))
        /\ KeysHandled' = KeysHandled + 1
    BY <1>3, <1>4, <1>6, NextEdit, OneKeyOn DEF KeysInOrder
  <2>2. Head(shell.input) = Enter /\ shell.buffer \in DOMAIN ProgramOf
    BY DEF Found
  <2>. HIDE DEF edited, edited2
  <2>3. edited2.commands = Append(edited.commands, program)
    BY <2>1, <2>2, EditAddsCommand DEF program
  <2>4. CommandsHandled' = CommandsOf(SubSeq(typed, 1, KeysHandled + 1))
    BY <2>1, CommandsWillBe
  <2>. QED BY <2>3, <2>4 DEF CommandsHandled, CommandsOf, edited, edited2
<1>14. RunsInv'
  BY <1>4, <1>8, <1>9, <1>10, <1>11, <1>12, <1>13 DEF RunsInv
<1>. QED BY <1>4, <1>8, <1>10, <1>11, <1>14, SeenStays DEF Followed

LEMMA ShellEditsFollowed ==
  ASSUME InputInv, InputInv', RunsInv, HasShell, UserMode, UNCHANGED <<build, typed>>,
         ShellEdits, Junk \subseteq {<<>>}
  PROVE  Followed
<1>1. here.at = "edit" /\ KeysInOrder /\ InputTypes
  BY DEF ShellEdits, InputInv, KeysHeld
<1>2. CASE shell.input = <<>>
  <2>. DEFINE label == Label("shell", 0)
  <2>1. /\ NoSchedule /\ UNCHANGED <<shell, started, pressedKeys>>
        /\ regs' = [regs EXCEPT ![esp].eip = label]
    BY <1>2 DEF ShellEdits, Goto
  <2>2. CommandsHandled' = CommandsHandled /\ shell'.program = shell.program
    BY <2>1, KeysUntouched, SameCommands
  <2>3. label \in InputText /\ label.at = "shell"
    BY InputLabels DEF InputPoints, ShellPoints
  <2>. HIDE DEF label
  <2>. QED BY <1>1, <2>1, <2>2, <2>3, QuietUnseen
<1>3. CASE shell.input # <<>> /\ ~Found
  <2>. DEFINE label == Label("edit", 0)
              buffer == Buffer(shell.buffer, Head(shell.input))
              edited == ShellOfUser!Edited(SubSeq(typed, 1, KeysHandled))
              edited2 == ShellOfUser!Edited(SubSeq(typed, 1, KeysHandled + 1))
  <2>1. /\ NoSchedule /\ UNCHANGED <<started, pressedKeys>>
        /\ regs' = [regs EXCEPT ![esp].eip = label]
        /\ shell' = [shell EXCEPT !.buffer = buffer, !.input = Tail(shell.input),
                                  !.program = shell.program]
    BY <1>3 DEF ShellEdits, Goto
  <2>2. label \in InputText /\ label.at = "edit"
    BY InputLabels DEF InputPoints, ShellPoints
  <2>. HIDE DEF label, buffer
  <2>3. shell'.input = Tail(shell.input) /\ shell'.program = shell.program
    BY <1>1, <2>1 DEF InputTypes, ShellLocals
  <2>4. /\ IsEdited(edited) /\ shell.buffer = edited.line
        /\ edited2 = ShellOfUser!Edit(edited, Head(shell.input))
        /\ KeysHandled' = KeysHandled + 1
    BY <1>1, <1>3, <2>1, <2>3, NextEdit, OneKeyOn DEF KeysInOrder
  <2>. HIDE DEF edited, edited2
  <2>5. edited2.commands = edited.commands
    BY <1>3, <2>4, EditAddsCommand DEF Found
  <2>6. CommandsHandled' = CommandsOf(SubSeq(typed, 1, KeysHandled + 1))
    BY <2>4, CommandsWillBe
  <2>7. CommandsHandled' = CommandsHandled
    BY <2>5, <2>6 DEF CommandsHandled, CommandsOf, edited, edited2
  <2>. QED BY <1>1, <2>1, <2>2, <2>3, <2>7, QuietUnseen
<1>4. CASE shell.input # <<>> /\ Found
  BY <1>1, <1>4, CommandFound
<1>. QED BY <1>2, <1>3, <1>4


-----------------------------------------------------------------------------
(* The forks.                                                              *)

(* A fork that is refused forks nobody.                                    *)
LEMMA RefusedForkLeavesTable ==
  ASSUME InputInv, NEW prio, NEW label, Fork(prio, label), numTasks' = numTasks
  PROVE  UNCHANGED <<numTasks, ppid>> /\ numTasks = MaxTasks
<1>1. numTasks \in 0 .. MaxTasks /\ MaxTasks \in Nat
  BY TableFacts DEF InputInv
<1>2. numTasks # numTasks + 1
  BY <1>1
<1>. QED BY <1>1, <1>2 DEF Fork, ForkTask

(* Init's second child may be the one for which there is still room.       *)
LEMMA InitsForkFollowed ==
  ASSUME InputInv, InputInv', RunsInv, HasShell, UserMode, UNCHANGED <<build, inputVars>>,
         ForkStep
  PROVE  Followed
<1>. DEFINE k == here.k
            label == Label("forked", k)
            prio == Script[k].priority
<1>1. /\ here.at = "fork" /\ here = regs[currentTask].eip
      /\ TableInv /\ TableInv' /\ numTasks \in 1 .. MaxTasks /\ MaxTasks \in Nat
      /\ Live = 0 .. numTasks - 1 /\ InputTypes
  BY CallerFacts, TableFacts DEF ForkStep, InputInv
<1>2. currentTask = 0 /\ k \in {1, 2} /\ k \in Nat
  BY <1>1, CallerIsAt DEF InitsFork
<1>3. prio \in Nat \cup {Inherit}
  BY <1>1, <1>2, ScriptIs
<1>4. label \in InputText /\ label.at = "forked"
  BY <1>2, InputLabels DEF InputPoints, InitPoints
<1>5. /\ Fork(prio, label)
      /\ UNCHANGED <<build, started, typed, pressedKeys, shell>> /\ shell'.program = shell.program
  BY DEF ForkStep, k_, inputVars
<1>. HIDE DEF k, label, prio
<1>6. CommandsHandled' = CommandsHandled /\ HasShell' = HasShell
  BY <1>5, KeysUntouched, SameCommands DEF HasShell
<1>7. /\ \A i \in Live : ppid'[i] = ppid[i] /\ (state'[i] = "ZOMBIE" <=> state[i] = "ZOMBIE")
      /\ \A i \in Live : i # 0 => regs'[i] = regs[i]
      /\ regs'[0].eip = label
      /\ \/ numTasks' = numTasks
         \/ /\ numTasks < MaxTasks /\ numTasks' = numTasks + 1
            /\ Live' = Live \cup {numTasks} /\ numTasks \notin Live
            /\ ppid'[numTasks] = 0 + 1 /\ regs'[numTasks].eip = label
  BY <1>2, <1>3, <1>4, <1>5, ForkedFacts
<1>8. CASE numTasks' = numTasks
  <2>1. UNCHANGED <<numTasks, ppid>>
    BY <1>5, <1>8, RefusedForkLeavesTable
  <2>2. ZombiesStay
    BY <1>7 DEF ZombiesStay
  <2>3. ASSUME NEW i \in Live
        PROVE  GoesUnseen(i)
    <3>1. i = 0 => ppid[i] # 2 /\ i # 1
      BY <1>1, ShellIsOlder
    <3>. QED BY <1>7, <3>1 DEF GoesUnseen
  <2>. QED BY <1>5, <1>6, <2>1, <2>2, <2>3, UserSeesNothing DEF Followed
<1>9. CASE /\ numTasks < MaxTasks /\ numTasks' = numTasks + 1
           /\ Live' = Live \cup {numTasks} /\ numTasks \notin Live
           /\ ppid'[numTasks] = 0 + 1 /\ regs'[numTasks].eip = label
  <2>1. /\ Launched' = Launched /\ Launched = {i \in Live : ppid[i] = 2}
    <3>1. Launched' = {i \in Live' : ppid'[i] = 2} /\ Launched = {i \in Live : ppid[i] = 2}
      BY <1>1, <1>6, LaunchedAre, LaunchedWillBe DEF ForkedByShell
    <3>2. 0 + 1 # 2
      OBVIOUS
    <3>. QED BY <1>7, <1>9, <3>1, <3>2
  <2>2. ASSUME NEW i \in Launched
        PROVE  i \in Live /\ i # 0 /\ regs'[i] = regs[i]
               /\ (state'[i] = "ZOMBIE" <=> state[i] = "ZOMBIE")
    <3>1. i \in Live /\ i # 0
      BY <1>1, <2>1, ShellIsOlder
    <3>. QED BY <1>7, <3>1
  <2>3. Done' = Done /\ (Pending' <=> Pending)
    <3>1. Done' = Done
      BY <2>1, <2>2 DEF Done
    <3>2. \A i \in Launched : Starting(i)' <=> Starting(i)
      BY <2>2 DEF Starting
    <3>. QED BY <2>1, <3>1, <3>2 DEF Pending
  <2>4. (numTasks' > 1 /\ At(1, "launch")') <=> (numTasks > 1 /\ At(1, "launch"))
    <3>1. CASE numTasks > 1
      <4>1. 1 \in Live /\ numTasks' > 1
        BY <1>1, <1>9, <3>1
      <4>2. regs'[1] = regs[1]
        BY <1>7, <4>1
      <4>. QED BY <3>1, <4>1, <4>2 DEF At
    <3>2. CASE ~(numTasks > 1)
      <4>1. numTasks = 1
        BY <1>1, <3>2
      <4>2. regs'[1].eip.at = "forked"
        BY <1>4, <1>9, <4>1
      <4>. QED BY <3>2, <4>2 DEF At
    <3>. QED BY <3>1, <3>2
  <2>5. Promised' = Promised
    BY <1>5, <2>3, <2>4 DEF Promised, Unfinished
  <2>6. ~OutOfRoom /\ Cardinality(Done)' = Cardinality(Done)
    BY <1>1, <1>9, <2>3 DEF OutOfRoom
  <2>7. RunsInv'
    BY <1>5, <1>6, <2>1, <2>3, <2>5, <2>6 DEF RunsInv
  <2>8. CASE OutOfRoom'
    <3>1. ShellOfUser!RunOut
      BY <1>5, <1>6, <2>6, <2>8 DEF ShellOfUser!RunOut, OutOfRoom, Done
    <3>. QED BY <2>7, <3>1 DEF Followed, ShellOfUser!Next
  <2>9. CASE ~OutOfRoom'
    <3>1. OutOfRoom' = OutOfRoom
      BY <2>6, <2>9 DEF OutOfRoom
    <3>. QED BY <1>5, <1>6, <2>6, <2>7, <3>1, SeenStays DEF Followed
  <2>. QED BY <2>8, <2>9
<1>. QED BY <1>7, <1>8, <1>9

(* The shell's fork, if there is room, starts what it has read; if there   *)
(* is none there never will be.                                            *)
LEMMA ShellForksFollowed ==
  ASSUME InputInv, InputInv', RunsInv, HasShell, UserMode, UNCHANGED <<build, typed>>,
         ShellForks
  PROVE  Followed
<1>. DEFINE label == Label("launched", 0)
<1>1. /\ here.at = "launch" /\ here = regs[currentTask].eip
      /\ TableInv /\ TableInv' /\ numTasks \in 1 .. MaxTasks /\ MaxTasks \in Nat
      /\ Live = 0 .. numTasks - 1
  BY CallerFacts, TableFacts DEF ShellForks, InputInv
<1>2. currentTask = 1 /\ 1 \in Live /\ numTasks > 1 /\ At(1, "launch") /\ Idle
  <2>1. currentTask = 1
    BY <1>1, CallerIsAt DEF InShell
  <2>. QED BY <1>1, <2>1, CallerFacts, CallerIsIdle DEF At
<1>3. label \in InputText /\ label.at = "launched"
  BY InputLabels DEF InputPoints, ShellPoints
<1>4. /\ Fork(Inherit, label)
      /\ UNCHANGED <<build, started, typed, pressedKeys, shell>>
  BY DEF ShellForks
<1>5. Inherit \in Nat \cup {Inherit}
  OBVIOUS
<1>. HIDE DEF label
<1>6. CommandsHandled' = CommandsHandled /\ HasShell' = HasShell
  BY <1>4, KeysUntouched, SameCommands DEF HasShell
<1>7. /\ \A i \in Live : ppid'[i] = ppid[i] /\ (state'[i] = "ZOMBIE" <=> state[i] = "ZOMBIE")
      /\ regs'[1].eip = label
      /\ \/ numTasks' = numTasks
         \/ /\ numTasks < MaxTasks /\ numTasks' = numTasks + 1
            /\ Live' = Live \cup {numTasks} /\ numTasks \notin Live
            /\ ppid'[numTasks] = 1 + 1 /\ regs'[numTasks].eip = label
            /\ state'[numTasks] # "ZOMBIE"
  BY <1>2, <1>3, <1>4, <1>5, ForkedFacts
<1>8. ~Pending /\ Launched = Done
  BY <1>2, NobodyStarts
<1>9. /\ Promised = Append(started, shell.program)
      /\ Cardinality(Launched) = Len(started) /\ started \in Seq(ProgramNames)
      /\ Len(started) \in Nat
      /\ Cardinality(Done) = Len(started)
  BY <1>2, <1>8 DEF Promised, Unfinished, RunsInv
<1>10. ~At(1, "launch")'
  BY <1>3, <1>7 DEF At
<1>11. /\ Launched = {i \in Live : ppid[i] = 2} /\ Launched' = {i \in Live' : ppid'[i] = 2}
       /\ IsFiniteSet(Launched)
  BY <1>1, <1>6, LaunchedAre, LaunchedWillBe DEF ForkedByShell
<1>12. CASE numTasks' = numTasks
  <2>1. UNCHANGED <<numTasks, ppid>> /\ numTasks = MaxTasks /\ Live' = Live
    BY <1>4, <1>12, RefusedForkLeavesTable DEF Live
  <2>2. Launched' = Launched /\ Done' = Done
    <3>1. Launched' = Launched
      BY <1>11, <2>1
    <3>2. \A i \in Launched : state'[i] = "ZOMBIE" <=> state[i] = "ZOMBIE"
      BY <1>7, <1>11
    <3>. QED BY <3>1, <3>2 DEF Done
  <2>3. ~Pending'
    <3>1. \A i \in Launched' : state'[i] = "ZOMBIE"
      BY <1>8, <2>2 DEF Done
    <3>. QED BY <3>1 DEF Pending, Starting
  <2>4. OutOfRoom /\ OutOfRoom'
    BY <1>4, <1>9, <2>1, <2>2 DEF OutOfRoom
  <2>5. RunsInv'
    BY <1>4, <1>6, <1>9, <2>2, <2>3, <2>4 DEF RunsInv
  <2>6. OutOfRoom' = OutOfRoom /\ Cardinality(Done)' = Cardinality(Done)
    BY <2>2, <2>4 DEF OutOfRoom
  <2>. QED BY <1>4, <1>6, <2>5, <2>6, SeenStays DEF Followed
<1>13. CASE /\ numTasks < MaxTasks /\ numTasks' = numTasks + 1
            /\ Live' = Live \cup {numTasks} /\ numTasks \notin Live
            /\ ppid'[numTasks] = 1 + 1 /\ regs'[numTasks].eip = label
            /\ state'[numTasks] # "ZOMBIE"
  <2>0. PICK child : child = numTasks
    OBVIOUS
  <2>1. Launched' = Launched \cup {child} /\ child \notin Launched
    <3>1. ppid'[child] = 2 /\ Live' = Live \cup {child} /\ child \notin Live
      BY <1>13, <2>0
    <3>2. \A i \in Live : ppid'[i] = ppid[i]
      BY <1>7
    <3>. QED BY <1>11, <3>1, <3>2
  <2>2. Cardinality(Launched)' = Len(started) + 1
    <3>1. Cardinality(Launched \cup {child}) = Cardinality(Launched) + 1
      BY <1>11, <2>1, FS_AddElement
    <3>. QED BY <1>9, <2>1, <3>1
  <2>3. Pending'
    <3>1. child \in Launched' /\ Starting(child)'
      BY <1>3, <1>13, <2>0, <2>1 DEF Starting
    <3>. QED BY <3>1 DEF Pending
  <2>4. Done' = Done
    <3>1. \A i \in Launched : state'[i] = "ZOMBIE" <=> state[i] = "ZOMBIE"
      BY <1>7, <1>11
    <3>2. child \notin Done'
      BY <1>13, <2>0 DEF Done
    <3>. QED BY <2>1, <3>1, <3>2 DEF Done
  <2>5. Promised' = Promised
    BY <1>4, <1>9, <2>3 DEF Promised, Unfinished
  <2>6. ~OutOfRoom /\ ~OutOfRoom'
    <3>1. numTasks # MaxTasks /\ Len(started) + 1 # Len(started)
      BY <1>1, <1>9, <1>13
    <3>. QED BY <1>4, <2>2, <3>1 DEF OutOfRoom
  <2>7. RunsInv'
    BY <1>4, <1>6, <1>9, <2>2, <2>3, <2>5, <2>6 DEF RunsInv
  <2>8. OutOfRoom' = OutOfRoom /\ Cardinality(Done)' = Cardinality(Done)
    BY <2>4, <2>6 DEF OutOfRoom
  <2>. QED BY <1>4, <1>6, <2>7, <2>8, SeenStays DEF Followed
<1>. QED BY <1>7, <1>12, <1>13

-----------------------------------------------------------------------------
(* The steps of the shell's children that the user sees.                   *)

(* Nobody else that the shell has forked runs.                             *)
LEMMA OnlyChildRuns ==
  ASSUME InputInv, HasShell, NEW c \in Launched, state[c] # "ZOMBIE"
  PROVE  /\ Done = Launched \ {c}
         /\ Cardinality(Done) = Cardinality(Launched) - 1
         /\ Pending <=> Starting(c)
         /\ c \in Live /\ ppid[c] = 2
         /\ numTasks > 1 /\ ~At(1, "launch")
<1>1. /\ TableInv /\ OneAtATime /\ Launched = {i \in Live : ppid[i] = 2}
      /\ IsFiniteSet(Launched) /\ Live = 0 .. numTasks - 1 /\ Live \subseteq Nat
      /\ numTasks \in Nat
  BY LaunchedAre, TableFacts DEF InputInv, ForkedByShell
<1>2. c \in Live /\ ppid[c] = 2 /\ 1 \in Live
  BY <1>1, ShellIsOlder
<1>3. ASSUME NEW i \in Launched, i # c
      PROVE  state[i] = "ZOMBIE"
  <2>. SUFFICES ASSUME state[i] # "ZOMBIE" PROVE FALSE
    OBVIOUS
  <2>1. LastChild(i) /\ LastChild(c) /\ i \in Nat /\ c \in Nat
    BY <1>1, <1>2 DEF OneAtATime
  <2>2. i + 1 = c + 1
    BY <2>1 DEF LastChild, At
  <2>. QED BY <1>3, <2>1, <2>2
<1>4. Done = Launched \ {c}
  BY <1>3 DEF Done
<1>5. Cardinality(Done) = Cardinality(Launched) - 1
  BY <1>1, <1>4, FS_RemoveElement
<1>6. Pending <=> Starting(c)
  BY <1>3 DEF Pending, Starting
<1>7. ~At(1, "launch")
  BY <1>1, <1>2 DEF OneAtATime, LastChild, At
<1>8. numTasks > 1
  BY <1>1, <1>2
<1>. QED BY <1>2, <1>4, <1>5, <1>6, <1>7, <1>8

(* The exec is the start of the next command that the user has entered.    *)
LEMMA ShellExecsFollowed ==
  ASSUME InputInv, InputInv', RunsInv, HasShell, UserMode, UNCHANGED <<build, typed>>,
         ShellExecs, Junk \subseteq {<<>>}
  PROVE  Followed
<1>. DEFINE program == shell.program
            label == Label(program, 0)
            c == currentTask
<1>1. /\ here.at = "launch_exec" /\ here = regs[c].eip /\ state[c] # "ZOMBIE" /\ c \in Live
      /\ TableInv /\ TableInv' /\ InputTypes /\ KeysInOrder
  BY CallerFacts DEF ShellExecs, InputInv, KeysHeld
<1>2. ppid[c] = 2 /\ program # "none"
  BY <1>1, CallerIsAt DEF InShell
<1>3. /\ NoSchedule /\ UNCHANGED <<pressedKeys, shell>>
      /\ \E value \in Int : regs' = Return(label, value)
      /\ started' = Append(started, program)
      /\ UNCHANGED <<numTasks, ppid, state>>
  BY DEF ShellExecs, Exec, NoSchedule, tableVars
<1>4. program \in ProgramNames
  BY <1>1, <1>2 DEF InputTypes, ShellLocals
<1>5. label \in InputText /\ label.at \in ProgramNames
  BY <1>4, InputLabels DEF InputPoints
<1>. HIDE DEF label, program
<1>6. regs'[c].eip = label /\ \A i \in Slots : i # c => regs'[i] = regs[i]
  BY <1>3, <1>5, InputCallerGoesOn
<1>. HIDE DEF c
<1>7. /\ CommandsHandled' = CommandsHandled /\ HasShell' = HasShell /\ Live' = Live
  BY <1>3, KeysUntouched, SameCommands DEF HasShell, Live
<1>8. /\ Launched = {i \in Live : ppid[i] = 2} /\ Launched' = Launched /\ Live \subseteq Slots
      /\ 1 \in Slots
  <2>1. Launched = {i \in Live : ppid[i] = 2} /\ Launched' = {i \in Live' : ppid'[i] = 2}
    BY <1>1, <1>7, LaunchedAre, LaunchedWillBe DEF ForkedByShell
  <2>. QED BY <1>1, <1>3, <1>7, <2>1, TableFacts, CallerFacts
<1>9. c \in Launched /\ Starting(c)
  BY <1>1, <1>2, <1>8 DEF Starting
<1>10. /\ Pending /\ Cardinality(Done) = Cardinality(Launched) - 1
       /\ numTasks > 1 /\ ~At(1, "launch") /\ c # 1
       /\ Done = Launched \ {c}
  BY <1>1, <1>2, <1>9, OnlyChildRuns, ShellIsOlder
<1>11. /\ Cardinality(Launched) = Len(started) + 1 /\ started \in Seq(ProgramNames)
       /\ Cardinality(Done) = Len(started) /\ Len(started) \in Nat
       /\ OutOfRoom \/ CommandsHandled = Promised
  <2>1. /\ Cardinality(Launched) = Len(started) + 1 /\ started \in Seq(ProgramNames)
        /\ OutOfRoom \/ CommandsHandled = Promised
    BY <1>10 DEF RunsInv
  <2>. QED BY <1>10, <2>1
<1>12. ~OutOfRoom /\ CommandsHandled = Append(started, program)
  <2>1. ~OutOfRoom
    <3>1. Len(started) + 1 # Len(started)
      BY <1>11
    <3>. QED BY <1>11, <3>1 DEF OutOfRoom
  <2>. QED BY <1>10, <1>11, <2>1 DEF Promised, Unfinished, program
<1>13. /\ Len(started) < Len(CommandsOf(typed))
       /\ CommandsOf(typed)[Len(started) + 1] = program
  <2>1. typed \in Seq(Keyboard) /\ KeysHandled \in 0 .. Len(typed)
    <3>. DEFINE nt == Len(typed)
                np == Len(pressedKeys)
                ni == Len(shell.input)
    <3>1. /\ nt \in Nat /\ np \in Nat /\ ni \in Nat /\ KeysHandled = nt - ni - np
          /\ KeysHandled \in Nat
      BY <1>1 DEF InputTypes, ShellLocals, KeysInOrder, KeysHandled
    <3>2. typed \in Seq(Keyboard)
      BY <1>1 DEF InputTypes
    <3>. HIDE DEF nt, np, ni
    <3>3. KeysHandled \in 0 .. nt
      BY <3>1
    <3>. QED BY <3>2, <3>3 DEF nt
  <2>2. Begins(CommandsHandled, CommandsOf(typed)) /\ Len(CommandsOf(typed)) \in Nat
    <3>1. CommandsOf(typed) \in Seq(ProgramNames)
      BY <2>1, CommandsAre
    <3>. QED BY <2>1, <3>1, CommandsAreKept DEF CommandsHandled
  <2>3. /\ Len(CommandsHandled) = Len(started) + 1
        /\ CommandsHandled[Len(started) + 1] = program
    BY <1>4, <1>11, <1>12
  <2>4. Len(started) + 1 \in 1 .. Len(CommandsHandled)
    BY <1>11, <2>3
  <2>. QED BY <1>11, <2>2, <2>3, <2>4 DEF Begins
<1>14. ~Pending' /\ Done' = Done /\ ~At(1, "launch")'
  <2>1. ASSUME NEW i \in Launched
        PROVE  ~Starting(i)'
    <3>1. CASE i = c
      <4>1. regs'[c].eip.at \in ProgramNames
        BY <1>5, <1>6
      <4>. QED BY <3>1, <4>1 DEF Starting, ProgramNames
    <3>2. CASE i # c
      <4>1. state[i] = "ZOMBIE"
        BY <1>10, <3>2 DEF Done
      <4>. QED BY <1>3, <4>1 DEF Starting
    <3>. QED BY <3>1, <3>2
  <2>2. ~Pending'
    BY <1>8, <2>1 DEF Pending
  <2>3. Done' = Done
    BY <1>3, <1>8 DEF Done
  <2>4. ~At(1, "launch")'
    BY <1>6, <1>8, <1>10 DEF At
  <2>. QED BY <2>2, <2>3, <2>4
<1>15. started' \in Seq(ProgramNames) /\ Len(started') = Len(started) + 1
  BY <1>3, <1>4, <1>11
<1>16. Promised' = started'
  BY <1>14 DEF Promised, Unfinished
<1>17. RunsInv'
  <2>1. Cardinality(Launched)' = Len(started')
    BY <1>8, <1>11, <1>15
  <2>2. CommandsHandled' = Promised'
    BY <1>3, <1>7, <1>12, <1>16
  <2>. QED BY <1>7, <1>14, <1>15, <2>1, <2>2 DEF RunsInv
<1>18. ShellOfUser!Start
  <2>1. (IF HasShell THEN typed ELSE <<>>) = typed
    OBVIOUS
  <2>2. ShellOfUser!Commands(typed) = CommandsOf(typed)
    BY DEF ShellOfUser!Commands, CommandsOf
  <2>3. Cardinality({i \in Launched : state[i] = "ZOMBIE"}) = Len(started)
    BY <1>11 DEF Done
  <2>4. Cardinality({i \in Launched : state[i] = "ZOMBIE"})'
          = Cardinality({i \in Launched : state[i] = "ZOMBIE"})
    BY <1>14 DEF Done
  <2>5. ~ (numTasks = MaxTasks /\ Cardinality(Launched) = Len(started))
    BY <1>12 DEF OutOfRoom
  <2>6. (IF HasShell THEN typed ELSE <<>>)' = (IF HasShell THEN typed ELSE <<>>)
    BY <1>7
  <2>7. (numTasks = MaxTasks /\ Cardinality(Launched) = Len(started))' \in BOOLEAN
    OBVIOUS
  <2>. QED BY <1>3, <1>13, <2>1, <2>2, <2>3, <2>4, <2>5, <2>6, <2>7 DEF ShellOfUser!Start
<1>. QED BY <1>17, <1>18 DEF Followed, ShellOfUser!Next

(* The exit is the end of the program that was started last.               *)
LEMMA ProgramStepFollowed ==
  ASSUME InputInv, InputInv', RunsInv, HasShell, UserMode, UNCHANGED <<build, inputVars>>,
         ProgramStep
  PROVE  Followed
<1>. DEFINE label == Label("exited", 0)
            c == currentTask
<1>1. /\ here.at \in ProgramNames /\ here = regs[c].eip /\ state[c] # "ZOMBIE" /\ c \in Live
      /\ TableInv /\ TableInv' /\ schedulerType = "ROUNDROBIN"
      /\ 1 \in Slots /\ Live \subseteq Slots
  BY CallerFacts, TableFacts DEF ProgramStep, InputInv
<1>2. c > 1 /\ ppid[c] = 2 /\ c # 0 /\ c # 1
  BY <1>1, CallerIsAt DEF InProgram
<1>3. /\ Exit(label) /\ UNCHANGED <<numTasks, ppid>>
      /\ UNCHANGED <<build, started, typed, pressedKeys, shell>>
  BY DEF ProgramStep, Exit, inputVars
<1>4. regs'[1] = regs[1]
  <2>1. regs' = [regs EXCEPT ![esp].eip = label] /\ label \in InputText
    BY <1>3, InputLabels DEF Exit, InputPoints
  <2>. HIDE DEF label
  <2>. QED BY <1>1, <1>2, <2>1, InputCallerGoesOn
<1>5. \A i \in Live : state'[i] = "ZOMBIE" <=> state[i] = "ZOMBIE" \/ i = c
  <2>1. /\ Finished(numTasks, WokenTable, ppid, blocking_pid')
        /\ WokenTable[c] = "ZOMBIE"
        /\ \A i \in Slots : state[i] = "ZOMBIE" => WokenTable[i] = "ZOMBIE"
        /\ \A i \in Slots : WokenTable[i] # state[i] =>
             i = c \/ (i \in Woken(ExitedTable) /\ state[i] = "BLOCKED")
    BY <1>1, <1>2, <1>3, ExitHandled, ExitFinished
  <2>2. \A i \in Slots : i \in Woken(ExitedTable) => WokenTable[i] = "READY"
    BY DEF WokenTable
  <2>3. \A i \in Slots : WokenTable[i] = "ZOMBIE" <=> state[i] = "ZOMBIE" \/ i = c
    <3>. HIDE DEF c
    <3>. QED BY <2>1, <2>2
  <2>4. \A i \in Slots : state'[i] = "ZOMBIE" <=> WokenTable[i] = "ZOMBIE"
    BY <1>1, <2>1, RoundRobinKeepsWhoWaits
  <2>. QED BY <1>1, <2>3, <2>4
<1>. HIDE DEF label, c
<1>6. CommandsHandled' = CommandsHandled /\ HasShell' = HasShell /\ Live' = Live
  BY <1>3, KeysUntouched, SameCommands DEF HasShell, Live
<1>7. Launched = {i \in Live : ppid[i] = 2} /\ Launched' = Launched /\ c \in Launched
  <2>1. Launched = {i \in Live : ppid[i] = 2} /\ Launched' = {i \in Live' : ppid'[i] = 2}
    BY <1>1, <1>6, LaunchedAre, LaunchedWillBe DEF ForkedByShell
  <2>. QED BY <1>1, <1>2, <1>3, <1>6, <2>1
<1>8. /\ Done = Launched \ {c} /\ Cardinality(Done) = Cardinality(Launched) - 1
      /\ Pending <=> Starting(c)
      /\ numTasks > 1 /\ ~At(1, "launch")
  BY <1>1, <1>7, OnlyChildRuns
<1>9. ~Pending
  BY <1>1, <1>8 DEF Starting, ProgramNames
<1>10. Done' = Launched /\ ~Pending' /\ ~At(1, "launch")'
  <2>1. \A i \in Launched : state'[i] = "ZOMBIE"
    BY <1>5, <1>7, <1>8 DEF Done
  <2>2. Done' = Launched
    BY <1>7, <2>1 DEF Done
  <2>3. ~Pending'
    BY <1>7, <2>1 DEF Pending, Starting
  <2>. QED BY <1>4, <1>8, <2>2, <2>3 DEF At
<1>11. /\ Cardinality(Launched) = Len(started) /\ Len(started) \in Nat
       /\ started \in Seq(ProgramNames) /\ (OutOfRoom \/ CommandsHandled = Promised)
  BY <1>9 DEF RunsInv
<1>12. Promised = started /\ Promised' = started'
  BY <1>8, <1>9, <1>10 DEF Promised, Unfinished
<1>13. OutOfRoom' = OutOfRoom
  BY <1>3, <1>7 DEF OutOfRoom
<1>14. RunsInv'
  BY <1>3, <1>6, <1>7, <1>10, <1>11, <1>12, <1>13 DEF RunsInv
<1>15. ShellOfUser!Finish
  <2>1. /\ Cardinality(Done) < Len(started) /\ Cardinality(Done)' = Cardinality(Done) + 1
    BY <1>8, <1>10, <1>11
  <2>. QED BY <1>3, <1>6, <1>13, <2>1 DEF ShellOfUser!Finish, Done, OutOfRoom
<1>. QED BY <1>14, <1>15 DEF Followed, ShellOfUser!Next

-----------------------------------------------------------------------------
(* The refinement.                                                         *)

LEMMA InputStepFollowed ==
  ASSUME InputInv, InputInv', RunsInv, HasShell, NEW i, InputStep(i), Junk \subseteq {<<>>}
  PROVE  Followed
<1>1. CASE Step(i) /\ UNCHANGED inputVars
  <2>1. UserMode /\ UNCHANGED <<build, inputVars>> /\ here.at \in InputPoints
    <3>1. UserMode /\ UNCHANGED <<build, inputVars>>
      BY <1>1 DEF Step
    <3>2. here \in InputText
      BY <3>1, CallerFacts
    <3>. QED BY <3>1, <3>2 DEF InputText
  <2>2. here.at \notin {"dynamic", "count", "counted", "poll", "polled"}
    BY <2>1 DEF InputPoints, InitPoints, ChildPoints, ShellPoints, ProgramNames
  <2>3. ~DynamicStep /\ ~CountStep /\ ~PollStep
    BY <2>2 DEF DynamicStep, CountStep, PollStep
  <2>4. ~EndStep
    BY ScriptIs DEF InputInv, EndStep
  <2>5. ForkStep \/ StoreStep \/ TestStep \/ ExecStep \/ ProgramStep \/ WaitStep
    BY <1>1, <2>3, <2>4 DEF Step
  <2>. QED BY <2>1, <2>5, InitsForkFollowed, InitsStepUnseen, ProgramStepFollowed, WaitsUnseen
<1>2. CASE /\ UserMode /\ UNCHANGED <<build, typed, clicks>>
           /\ AwaitKey \/ AwaitClick \/ CountClicks \/ ShellStep
  <2>1. UserMode /\ UNCHANGED <<build, typed>>
    BY <1>2
  <2>2. ~AwaitKey /\ ~AwaitClick
    <3>1. here.at \in {"await_key", "await_click"} => here.at \in {"count_clicks", "exec"}
      BY <2>1, CallerIsAt DEF InBranch, ChildPoints, BranchPoints
    <3>. QED BY <3>1 DEF AwaitKey, AwaitClick
  <2>3. ShellWaits => UNCHANGED inputVars
    BY <1>2 DEF ShellWaits, inputVars
  <2>4. \/ CountClicks \/ ShellReads \/ ShellEdits \/ ShellForks \/ ShellStores \/ ShellTests
        \/ ShellExecs \/ ShellWaits
    BY <1>2, <2>2 DEF ShellStep
  <2>. QED BY <2>1, <2>3, <2>4, CountClicksUnseen, ShellReadsUnseen, ShellEditsFollowed,
              ShellForksFollowed, ShellStoresUnseen, ShellTestsUnseen, ShellExecsFollowed,
              WaitsUnseen
<1>. QED BY <1>1, <1>2 DEF InputStep

(* Where there is no shell, nothing but the number of tasks changes.       *)
LEMMA NoShellStep ==
  ASSUME InputInv, ~HasShell, NEW i, InputStep(i)
  PROVE  UNCHANGED <<build, started>> /\ numTasks' \in {numTasks, numTasks + 1}
<1>1. UserMode /\ UNCHANGED build
  BY DEF InputStep, Step
<1>2. CASE Step(i) /\ UNCHANGED inputVars
  <2>1. started' = started
    BY <1>2 DEF inputVars
  <2>2. CASE ForkStep
    BY <1>1, <2>1, <2>2 DEF ForkStep, Fork, ForkTask
  <2>3. CASE ProgramStep \/ EndStep
    BY <1>1, <2>1, <2>3 DEF ProgramStep, EndStep, Exit
  <2>4. CASE WaitStep
    BY <1>1, <2>1, <2>4 DEF WaitStep, Wait
  <2>5. CASE StoreStep \/ TestStep
    BY <1>1, <2>1, <2>5 DEF StoreStep, TestStep, Goto, NoSchedule
  <2>6. CASE ExecStep
    BY <1>1, <2>1, <2>6 DEF ExecStep, Exec, NoSchedule
  <2>7. CASE DynamicStep \/ CountStep \/ PollStep
    BY <1>1, <2>1, <2>7
       DEF DynamicStep, CountStep, PollStep, UseDynamicPriority, Report, Goto, NoSchedule
  <2>. QED BY <1>2, <2>2, <2>3, <2>4, <2>5, <2>6, <2>7 DEF Step
<1>3. CASE AwaitKey \/ AwaitClick \/ CountClicks \/ ShellStep
  <2>1. ~ShellStep
    <3>1. here.at \notin {"shell", "edit", "launch", "launched", "launch_test", "launch_exec",
                          "launch_wait"}
      BY <1>1, CallerIsAt DEF InShell
    <3>. QED BY <3>1 DEF ShellStep, ShellReads, ShellEdits, ShellForks, ShellStores,
                         ShellTests, ShellExecs, ShellWaits
  <2>. QED BY <1>1, <1>3, <2>1 DEF AwaitKey, AwaitClick, CountClicks, Goto, NoSchedule
<1>. QED BY <1>2, <1>3 DEF InputStep

LEMMA InputNextFollowed ==
  ASSUME InputInv, InputInv', RunsInv, [InputNext]_systemVars, Junk \subseteq {<<>>}
  PROVE  Followed
<1>1. CASE Boot /\ UNCHANGED inputVars
  <2>1. CASE HasShell
    BY <1>1, <2>1, BootUnseen
  <2>2. CASE ~HasShell
    <3>1. UNCHANGED <<build, started>>
      BY <1>1 DEF Boot, inputVars
    <3>2. numTasks' \in {numTasks, numTasks + 1}
      BY <1>1 DEF Boot, AddTask, Activate
    <3>. QED BY <2>2, <3>1, <3>2, NoShellNoRuns DEF Followed
  <2>. QED BY <2>1, <2>2
<1>2. CASE InputTimer
  <2>1. CASE HasShell
    BY <1>2, <2>1, InputTimerUnseen
  <2>2. CASE ~HasShell
    <3>1. UNCHANGED <<build, started, numTasks>>
      BY <1>2 DEF InputTimer, Timer, TimerInterrupt, inputVars
    <3>. QED BY <2>2, <3>1, NoShellNoRuns DEF Followed
  <2>. QED BY <2>1, <2>2
<1>3. ASSUME NEW keys \in Typing, Len(typed) < Len(keys), KeyPress(keys[Len(typed) + 1])
      PROVE  Followed
  <2>1. keys \in Seq(Keyboard) /\ Len(typed) \in Nat
    BY <1>3, KeysAssumption DEF InputInv, InputTypes
  <2>2. keys[Len(typed) + 1] \in Keyboard
    BY <1>3, <2>1
  <2>3. CASE HasShell
    BY <1>3, <2>2, <2>3, KeyIsTyped
  <2>4. CASE ~HasShell
    <3>1. UNCHANGED <<build, started, numTasks>>
      BY <1>3 DEF KeyPress, allVars, vars, tableVars
    <3>. QED BY <2>4, <3>1, NoShellNoRuns DEF Followed
  <2>. QED BY <2>3, <2>4
<1>4. ASSUME UNCHANGED allVars, UNCHANGED <<pressedKeys, shell, typed, started>>
      PROVE  Followed
  <2>1. UNCHANGED <<build, numTasks, ppid, regs, state, started, typed, pressedKeys, shell>>
    BY <1>4 DEF allVars, vars, tableVars
  <2>2. CASE HasShell
    BY <2>1, <2>2, NobodyMoves DEF ZombiesStay
  <2>3. CASE ~HasShell
    BY <2>1, <2>3, NoShellNoRuns DEF Followed
  <2>. QED BY <2>2, <2>3
<1>5. ASSUME NEW i \in Slots, InputStep(i)
      PROVE  Followed
  <2>1. CASE HasShell
    BY <1>5, <2>1, InputStepFollowed
  <2>2. CASE ~HasShell
    BY <1>5, <2>2, NoShellStep, NoShellNoRuns DEF Followed
  <2>. QED BY <2>1, <2>2
<1>6. CASE MouseClick
  BY <1>4, <1>6 DEF MouseClick
<1>7. CASE UNCHANGED systemVars
  BY <1>4, <1>7 DEF systemVars, inputVars
<1>. QED BY <1>1, <1>2, <1>3, <1>5, <1>6, <1>7 DEF InputNext

LEMMA InputInitFollowed ==
  ASSUME InputInit
  PROVE  RunsInv /\ ShellOfUser!Init
<1>1. numTasks = 0 /\ typed = <<>> /\ pressedKeys = <<>> /\ started = <<>> /\ shell.input = <<>>
  BY DEF InputInit, InitInit, Init
<1>2. Live = {} /\ numTasks # MaxTasks
  BY <1>1, MaxTasksAssumption DEF Live
<1>3. Launched = {} /\ Done = {} /\ ~Pending
  BY <1>2 DEF Launched, Done, Pending
<1>4. Cardinality({}) = 0 /\ Len(started) = 0
  BY <1>1, FS_EmptySet
<1>5. Promised = <<>>
  BY <1>1, <1>3 DEF Promised, Unfinished
<1>6. CommandsHandled = <<>>
  <2>1. SubSeq(typed, 1, KeysHandled) = <<>>
    <3>1. Len(typed) = 0 /\ Len(shell.input) = 0 /\ Len(pressedKeys) = 0
      BY <1>1
    <3>2. KeysHandled = 0
      BY <3>1 DEF KeysHandled
    <3>. QED BY <1>1, <3>2
  <2>2. CommandsHandled = CommandsOf(<<>>)
    BY <2>1 DEF CommandsHandled
  <2>3. CommandsOf(<<>>) = Blank.commands
    BY EditedEmpty, Zenon DEF CommandsOf
  <2>. QED BY <2>2, <2>3 DEF Blank
<1>7. RunsInv
  <2>1. <<>> \in Seq(ProgramNames)
    OBVIOUS
  <2>. QED BY <1>1, <1>3, <1>4, <1>5, <1>6, <2>1 DEF RunsInv
<1>8. ShellOfUser!Init
  <2>1. ~OutOfRoom
    BY <1>2 DEF OutOfRoom
  <2>2. OutOfRoom = FALSE /\ Cardinality(Done) = 0
    BY <1>3, <1>4, <2>1 DEF OutOfRoom
  <2>. QED BY <1>1, <2>2 DEF ShellOfUser!Init, OutOfRoom, Done
<1>. QED BY <1>7, <1>8

(* Whatever the user types, and however the typing, the polls, the forks,  *)
(* the exits, the timer and the mouse interleave, the user sees the        *)
(* programs that the lines name start one after the other, in the order    *)
(* typed, each when the one before has finished, as LineShell has it; and  *)
(* none is passed over while there is room in the table.                   *)
THEOREM ShellFollowsTheUser ==
  ASSUME ~TimerInWindow, Builds \subseteq InputBuilds, Junk \subseteq {<<>>}
  PROVE  InputSpec => ShellOfUser!Init /\ [][ShellOfUser!Next]_(ShellOfUser!userVars)
<1>1. InputInit => RunsInv /\ ShellOfUser!Init
  BY InputInitFollowed
<1>2. InputInv /\ InputInv' /\ RunsInv /\ [InputNext]_systemVars
        => RunsInv' /\ [ShellOfUser!Next]_(ShellOfUser!userVars)
  BY InputNextFollowed DEF Followed
<1>3. InputSpec => []InputInv
  BY InputKeepInv
<1>. QED BY <1>1, <1>2, <1>3, PTL DEF InputSpec
=============================================================================
