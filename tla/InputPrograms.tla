---------------------------- MODULE InputPrograms ----------------------------
(***************************************************************************)
(* The two builds that react to input (BUILD_PART_C_*, microkernel.cpp)    *)
(* and the shell (program.cpp), on the kernel of TaskManager, with the     *)
(* interrupt handlers that feed them (keyboard.cpp, mouse.cpp) and the     *)
(* queue in between (TaskManager::pressedKeys, mouseClicked).              *)
(*                                                                         *)
(* The shell is one more text that a task executes, label by label.  It    *)
(* forks, and like init it shares its locals with the child until that     *)
(* execs.                                                                  *)
(***************************************************************************)
EXTENDS InitPrograms

CONSTANTS
  Typing,     \* what the user may type, or begin to type: sequences of keys
  Backspace, Enter,   \* keys that are no text
  ProgramOf,  \* the program each line names, for those that name one
  Junk,       \* what fresh memory may hold up to its first zero byte
  MaxClicks   \* the user clicks so many times

Keyboard == UNION {{keys[n] : n \in DOMAIN keys} : keys \in Typing \cup Junk}

(* pressedKeys and the shell's buffer have 1024 bytes and no bound check.  *)
ASSUME KeysAssumption ==
  /\ Typing \cup Junk \subseteq Seq(Keyboard)
  /\ \A keys \in Typing : Len(keys) < 1024
  /\ Backspace # Enter
  /\ MaxClicks \in Nat

(* findProgram knows these four.                                           *)
ASSUME ProgramAssumption == ProgramOf \in [DOMAIN ProgramOf -> ProgramNames]

VARIABLES
  pressedKeys,   \* up to numPressedKeys
  mouseClicked,
  shell,         \* the shell's locals: buffer up to count, input from i on
  typed,         \* history: the keys the kernel has been given
  clicks,        \* history: the number of clicks
  started        \* history: the programs started from the shell

inputVars == <<pressedKeys, mouseClicked, shell, typed, clicks, started>>
systemVars == <<allVars, inputVars>>

(* BUILD_PART_C_RANDOM_PROCESS_SPAWN                                       *)
RandomProcessSpawn(program) ==
  [script |-> <<[Start EXCEPT !.branch = "await_key", !.program = program],
                [Start EXCEPT !.branch = "await_click", !.program = program]>>,
   scheduler |-> "ROUNDROBIN", ending |-> "spin"]

(* BUILD_PART_C_INPUT_PRIORITY                                             *)
InputPriority ==
  [script |-> <<[Start EXCEPT !.program = "shell"],
                [Start EXCEPT !.priority = 1, !.branch = "count_clicks"]>>,
   scheduler |-> "ROUNDROBIN", ending |-> "spin"]

InputInit ==
  /\ InitInit
  /\ pressedKeys = <<>> /\ mouseClicked = FALSE
  /\ shell = [buffer |-> <<>>, input |-> <<>>, program |-> "none",
              pid |-> 0]
  /\ typed = <<>> /\ clicks = 0 /\ started = <<>>

-----------------------------------------------------------------------------
(* The interrupt handlers.  They return to the task they interrupted.      *)

(* KeyboardDriver::HandleInterrupt on a key going down, and                *)
(* TaskManager::handleKeyPress.  Other scan codes are ignored.             *)
KeyPress(key) ==
  /\ active
  /\ pressedKeys' = Append(pressedKeys, key)
  /\ typed' = Append(typed, key)
  /\ UNCHANGED <<allVars, mouseClicked, shell, clicks, started>>

(* MouseEventHandler::OnMouseDown, TaskManager::handleMouseClick           *)
MouseClick ==
  /\ active /\ clicks < MaxClicks
  /\ mouseClicked' = TRUE
  /\ clicks' = clicks + 1
  /\ UNCHANGED <<allVars, pressedKeys, shell, typed, started>>

-----------------------------------------------------------------------------
(* The calls that read input.                                              *)

(* TaskManager::readKeyPresses: nullptr when there is none, else a copy,   *)
(* without terminator, in fresh memory.                                    *)
KeysRead == {pressedKeys \o junk : junk \in Junk}

NotReset == pressedKeys # <<>> /\ UNCHANGED pressedKeys   \* mutant
ReadKeyPresses == pressedKeys # <<>> /\ pressedKeys' = <<>>

(* TaskManager::isMouseClicked                                             *)
ResetTooEarly(clicked) ==                        \* mutant: reset, then read
  clicked = FALSE /\ mouseClicked' = FALSE
IsMouseClicked(clicked) == clicked = mouseClicked /\ mouseClicked' = FALSE

(* A poll that is answered "nothing" changes nothing, and is left out.     *)

(* initProcessRandomProcessSpawn, first child: any key will do.            *)
AwaitKey ==
  /\ here.at = "await_key"
  /\ ReadKeyPresses
  /\ Goto(Label("exec", k_))
  /\ UNCHANGED <<frame, mouseClicked, shell, started>>

(* Its second child: while(!checkMouseClick());                            *)
AwaitClick ==
  /\ here.at = "await_click"
  /\ IsMouseClicked(TRUE)
  /\ Goto(Label("exec", k_))
  /\ UNCHANGED <<frame, pressedKeys, shell, started>>

(* Second child of initProcessInputPriority: prints "Mouse clicked" and    *)
(* polls on.                                                               *)
CountClicks ==
  /\ here.at = "count_clicks"
  /\ IsMouseClicked(TRUE)
  /\ Goto(here)
  /\ UNCHANGED <<frame, pressedKeys, shell, started>>

-----------------------------------------------------------------------------
(* The shell                                                               *)

(* char* input = checkKeyPress();                                          *)
ShellReads ==
  /\ here.at = "shell"
  /\ ReadKeyPresses
  /\ \E keys \in KeysRead : shell' = [shell EXCEPT !.input = keys]
  /\ Goto(Label("edit", 0))
  /\ UNCHANGED <<frame, mouseClicked, started>>

(* One round of the loop over input.                                       *)
NotCleared(buffer, key) ==                       \* mutant: count = 0 is missing
  IF key = Backspace
  THEN IF buffer = <<>> THEN buffer ELSE SubSeq(buffer, 1, Len(buffer) - 1)
  ELSE IF key = Enter THEN buffer ELSE Append(buffer, key)
Buffer(buffer, key) ==
  CASE key = Backspace /\ buffer # <<>> -> SubSeq(buffer, 1, Len(buffer) - 1)
    [] key = Backspace /\ buffer = <<>> -> <<>>
    [] key = Enter                      -> <<>>
    [] OTHER                            -> Append(buffer, key)

(* findProgram(buffer)                                                     *)
Found == Head(shell.input) = Enter /\ shell.buffer \in DOMAIN ProgramOf

ShellEdits ==
  /\ here.at = "edit"
  /\ \/ /\ shell.input = <<>>
        /\ Goto(Label("shell", 0))
        /\ UNCHANGED shell
     \/ /\ shell.input # <<>>
        /\ shell' = [shell EXCEPT
                       !.buffer = Buffer(@, Head(shell.input)),
                       !.input = Tail(@),
                       !.program = IF Found THEN ProgramOf[shell.buffer] ELSE @]
        /\ Goto(Label(IF Found THEN "launch" ELSE "edit", 0))
  /\ UNCHANGED <<frame, pressedKeys, mouseClicked, started>>

(* auto pid = fork(); if(pid == 0) { ... exec(program, ...); } wait(pid);  *)
ShellForks ==
  /\ here.at = "launch"
  /\ Fork(Inherit, Label("launched", 0))
  /\ UNCHANGED <<frame, pressedKeys, mouseClicked, shell, started>>

ShellStores ==
  /\ here.at = "launched"
  /\ shell' = [shell EXCEPT !.pid = regs[esp].ecx]
  /\ Goto(Label("launch_test", 0))
  /\ UNCHANGED <<frame, pressedKeys, mouseClicked, started>>

ShellTests ==
  /\ here.at = "launch_test"
  /\ Goto(Label(IF shell.pid = 0 THEN "launch_exec" ELSE "launch_wait", 0))
  /\ UNCHANGED <<frame, pressedKeys, mouseClicked, shell, started>>

ShellExecs ==
  /\ here.at = "launch_exec"
  /\ Exec(Label(shell.program, 0))
  /\ started' = Append(started, shell.program)
  /\ UNCHANGED <<frame, pressedKeys, mouseClicked, shell>>

WaitsForInit == Wait(1, Label("edit", 0))        \* mutant: wrong pid
ShellsWait == Wait(shell.pid, Label("edit", 0))

ShellWaits ==
  /\ here.at = "launch_wait"
  /\ ShellsWait
  /\ UNCHANGED <<frame, pressedKeys, mouseClicked, shell, started>>

ShellStep ==
  \/ ShellReads \/ ShellEdits \/ ShellForks \/ ShellStores \/ ShellTests
  \/ ShellExecs \/ ShellWaits

-----------------------------------------------------------------------------
InputStep(i) ==
  \/ Step(i) /\ UNCHANGED inputVars
  \/ /\ UserMode /\ currentTask = i
     /\ AwaitKey \/ AwaitClick \/ CountClicks \/ ShellStep
     /\ UNCHANGED <<build, typed, clicks>>

(* Between the shell's store of fork's result and its last use of it.      *)
ShellWindow == UserMode /\ here.at \in {"launch_test", "launch_wait"}

InputTimer ==
  /\ ShellWindow => TimerInWindow
  /\ Timer /\ UNCHANGED inputVars

InputNext ==
  \/ Boot /\ UNCHANGED inputVars
  \/ InputTimer
  \/ \E keys \in Typing :
       /\ Len(typed) < Len(keys) /\ typed = SubSeq(keys, 1, Len(typed))
       /\ KeyPress(keys[Len(typed) + 1])
  \/ MouseClick
  \/ \E i \in Slots : InputStep(i)

(* As for the other init programs; nobody has to press a key or a button.  *)
InputFairness ==
  /\ WF_systemVars(Boot /\ UNCHANGED inputVars)
  /\ WF_systemVars(InputTimer)
  /\ \A i \in Slots : SF_systemVars(InputStep(i))

InputSpec == InputInit /\ [][InputNext]_systemVars /\ InputFairness

-----------------------------------------------------------------------------
(* Properties                                                              *)

HasShell == build = InputPriority

(* The tasks that the shell, in slot 1, has forked.                        *)
Launched == {i \in Live \ {0, 1} : HasShell /\ ppid[i] = pid[1]}

(* A user who types at the shell's prompt sees the programs of the lines   *)
(* typed run one after the other, in that order, none forgotten, however   *)
(* typing, polling, forks, exits and interrupts interleave.                *)
ShellOfUser == INSTANCE LineShell WITH
  typed    <- IF HasShell THEN typed ELSE <<>>,
  finished <- Cardinality({i \in Launched : state[i] = "ZOMBIE"}),
  full     <- numTasks = MaxTasks /\ Cardinality(Launched) = Len(started)

ImplementsLineShell == ShellOfUser!Spec

(* No key is lost, doubled or reordered on its way from the interrupt to   *)
(* the shell's line: the keys still in input and in pressedKeys are the    *)
(* last ones typed, and the line is what the ones before them make it.     *)
KeysReachTheLine ==
  HasShell =>
    LET waiting == shell.input \o pressedKeys
        handled == SubSeq(typed, 1, Len(typed) - Len(waiting))
    IN  typed = handled \o waiting /\ shell.buffer = ShellOfUser!Edited(handled).line

(* The prompt is back, and the shell reads, only when the last program it  *)
(* started has finished.                                                   *)
PromptMeansFinished ==
  UserMode /\ here.at \in {"shell", "edit"} =>
    \A i \in Live : ppid[i] = pid[currentTask] => state[i] = "ZOMBIE"

(* A click, also one after another, does not go unseen while the second    *)
(* child of initProcessInputPriority polls.  The children of               *)
(* initProcessRandomProcessSpawn react to a first key and a first click,   *)
(* and then both end, so that init goes on.                                *)
InputIsAnswered ==
  /\ mouseClicked /\ (\E i \in Live : At(i, "count_clicks")) ~> ~mouseClicked
  /\ ~HasShell /\ typed # <<>> /\ clicks > 0 ~> InitGoesOn

(* What the comment on initProcessRandomProcessSpawn says, and the code    *)
(* does not do: "upon receiving an input event, the process reacts         *)
(* accordingly before returning to its idle state"                         *)
(* (microkernel.cpp:279-280).                                              *)
ReturnsToIdle ==
  \A i \in Slots :
    ~HasShell /\ At(i, "exec") ~> At(i, "await_key") \/ At(i, "await_click")
=============================================================================
