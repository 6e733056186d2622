------------------------------ MODULE LineShell ------------------------------
(* What a user sees of the shell (src/src/program.cpp, shell): the lines   *)
(* typed name programs; they are started in the order typed, each one      *)
(* after the one before has finished, and none is forgotten as long as the *)
(* system has room for another process.                                    *)
EXTENDS Integers, Sequences

CONSTANTS
  Backspace, Enter,   \* keys that are no text
  ProgramOf           \* the program each line names, for those that name one

VARIABLES
  typed,     \* the keys of the user
  started,   \* the programs started
  finished,  \* how many of them have finished
  full       \* no more processes, ever

userVars == <<typed, started, finished, full>>

(* What a key does to a line that is being edited and to the commands that *)
(* have been entered.                                                      *)
Edit(edited, key) ==
  CASE key = Backspace ->
         [edited EXCEPT !.line = IF @ = <<>> THEN @ ELSE SubSeq(@, 1, Len(@) - 1)]
    [] key = Enter ->
         [line |-> <<>>,
          commands |-> IF edited.line \in DOMAIN ProgramOf
                       THEN Append(edited.commands, ProgramOf[edited.line])
                       ELSE edited.commands]
    [] OTHER -> [edited EXCEPT !.line = Append(@, key)]

(* What the keys have made of an empty line.                               *)
Edited(keys) ==
  LET after[n \in 0 .. Len(keys)] ==
        IF n = 0 THEN [line |-> <<>>, commands |-> <<>>]
        ELSE Edit(after[n - 1], keys[n])
  IN  after[Len(keys)]
Commands(keys) == Edited(keys).commands

Init == typed = <<>> /\ started = <<>> /\ finished = 0 /\ full = FALSE

Type ==
  /\ Len(typed') = Len(typed) + 1 /\ SubSeq(typed', 1, Len(typed)) = typed
  /\ UNCHANGED <<started, finished, full>>

Start ==
  /\ finished = Len(started) /\ ~full
  /\ Len(started) < Len(Commands(typed))
  /\ started' = Append(started, Commands(typed)[Len(started) + 1])
  /\ full' \in BOOLEAN
  /\ UNCHANGED <<typed, finished>>

Finish ==
  /\ finished < Len(started)
  /\ finished' = finished + 1
  /\ UNCHANGED <<typed, started, full>>

(* Others start processes too.                                             *)
RunOut ==
  /\ ~full /\ full' = TRUE
  /\ UNCHANGED <<typed, started, finished>>

Next == Type \/ Start \/ Finish \/ RunOut

Spec == Init /\ [][Next]_userVars /\ WF_userVars(Start) /\ WF_userVars(Finish)
=============================================================================
