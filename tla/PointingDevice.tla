--------------------------- MODULE PointingDevice ----------------------------
(* What the mouse driver promises: each report of the mouse, in order and  *)
(* as a whole, moves the cursor and presses and releases buttons.          *)
EXTENDS Integers, Sequences

CONSTANTS
  Columns, Rows,      \* the screen
  Far                 \* no coordinate up to Far is miscounted

VARIABLES
  reports,    \* on their way: [buttons, dx, dy]
  buttons,    \* those that are down
  x, y,       \* the cursor
  clicked     \* a button has gone down since somebody asked

deviceVars == <<reports, buttons, x, y, clicked>>

Init ==
  /\ reports = <<>> /\ buttons = {} /\ clicked = FALSE
  /\ x \in 0 .. Columns - 1 /\ y \in 0 .. Rows - 1

(* Where a move of d from p may end: at the edge of the screen if it would *)
(* end beyond it, and anywhere if it is too long to be counted.            *)
Ends(p, d, size) ==
  {q \in 0 .. size - 1 :
     p + d \in -Far - 1 .. Far =>
       \/ q = p + d
       \/ q = 0 /\ p + d < 0
       \/ q = size - 1 /\ p + d >= size}

Send ==
  /\ Len(reports') = Len(reports) + 1
  /\ SubSeq(reports', 1, Len(reports)) = reports
  /\ UNCHANGED <<buttons, x, y, clicked>>

Handle ==
  /\ reports # <<>>
  /\ LET report == Head(reports)
     IN  /\ x' \in Ends(x, report.dx, Columns)
         /\ y' \in Ends(y, -report.dy, Rows)
         /\ buttons' = report.buttons
         /\ clicked' = (clicked \/ report.buttons \ buttons # {})
  /\ reports' = Tail(reports)

Ask == clicked' = FALSE /\ UNCHANGED <<reports, buttons, x, y>>

Next == Send \/ Handle \/ Ask

Spec == Init /\ [][Next]_deviceVars /\ WF_deviceVars(Handle)
=============================================================================
