------------------------------- MODULE Desktop -------------------------------
(***************************************************************************)
(* The desktop and its windows (src/src/gui): the mouse is routed to the   *)
(* first child under it, a window follows the mouse while Dragging is set, *)
(* and everything is drawn on a screen of VGA pixels                       *)
(* (src/src/drivers/vga.cpp).  The windows have no children, as in         *)
(* kernelMain.                                                             *)
(***************************************************************************)
EXTENDS Integers, Sequences

CONSTANTS
  Width, Height,    \* of the screen: 320 and 200
  Windows,          \* [x, y, w, h] of each, the first child first
  Moves,            \* what the mouse reports, as pairs
  Buttons           \* 1 is the left one

ASSUME DesktopAssumption ==
  /\ Width \in Nat \ {0} /\ Height \in Nat \ {0}
  /\ Windows \in Seq([x : Nat, y : Nat, w : Nat, h : Nat])
  /\ Moves \subseteq Int \X Int
  /\ Buttons \subseteq 1 .. 3

VARIABLES
  MouseX, MouseY,   \* fields of Desktop
  windows,          \* as Windows, with Dragging
  pressed,          \* history: the buttons that are down
  grip              \* history: where the first window was when it was gripped

desktopVars == <<MouseX, MouseY, windows, pressed, grip>>

NoGrip == <<>>

DesktopInit ==
  /\ MouseX = Width \div 2 /\ MouseY = Height \div 2
  /\ windows = [i \in DOMAIN Windows |->
                  [x |-> Windows[i].x, y |-> Windows[i].y,
                   w |-> Windows[i].w, h |-> Windows[i].h, Dragging |-> FALSE]]
  /\ pressed = {} /\ grip = NoGrip

-----------------------------------------------------------------------------
ContainsCoordinate(widget, x, y) ==
  /\ widget.x <= x /\ x < widget.x + widget.w
  /\ widget.y <= y /\ y < widget.y + widget.h

(* The first child under a point, as a set of at most one.                 *)
LastAt(children, x, y) ==                        \* mutant: the loop runs down
  {i \in DOMAIN children :
     /\ ContainsCoordinate(children[i], x, y)
     /\ \A j \in i + 1 .. Len(children) : ~ContainsCoordinate(children[j], x, y)}
FirstAt(children, x, y) ==
  {i \in DOMAIN children :
     /\ ContainsCoordinate(children[i], x, y)
     /\ \A j \in 1 .. i - 1 : ~ContainsCoordinate(children[j], x, y)}

(* x /= 4 rounds towards 0, and the mouse stays on the screen.             *)
Quarter(d) == IF d < 0 THEN -(-d \div 4) ELSE d \div 4

Clamp(p, size) == IF p < 0 THEN 0 ELSE IF p >= size THEN size - 1 ELSE p

(* Window::OnMouseMove of some of the windows.                             *)
Drag(children, which, dx, dy) ==
  [i \in DOMAIN children |->
     IF i \in which /\ children[i].Dragging
     THEN [children[i] EXCEPT !.x = @ + dx, !.y = @ + dy] ELSE children[i]]

(* The child under the old place moves first; then the one under the new   *)
(* place, where things may have changed, unless it is the same.            *)
MoveBoth(newx, newy) ==                          \* mutant: the same twice
  LET first == FirstAt(windows, MouseX, MouseY)
      moved == Drag(windows, first, newx - MouseX, newy - MouseY)
  IN  Drag(moved, FirstAt(moved, newx, newy), newx - MouseX, newy - MouseY)
MoveTo(newx, newy) ==
  LET first == FirstAt(windows, MouseX, MouseY)
      moved == Drag(windows, first, newx - MouseX, newy - MouseY)
  IN  Drag(moved, FirstAt(moved, newx, newy) \ first, newx - MouseX, newy - MouseY)

OnMouseMove(x, y) ==
  /\ MouseX' = Clamp(MouseX + Quarter(x), Width)
  /\ MouseY' = Clamp(MouseY + Quarter(y), Height)
  /\ windows' = MoveTo(MouseX', MouseY')
  /\ UNCHANGED <<pressed, grip>>

SetDragging(which, value) ==
  windows' = [i \in DOMAIN windows |->
                IF i \in which THEN [windows[i] EXCEPT !.Dragging = value]
                               ELSE windows[i]]

OnMouseDown(button) ==
  /\ button \notin pressed
  /\ pressed' = pressed \cup {button}
  /\ SetDragging(FirstAt(windows, MouseX, MouseY), button = 1)
  /\ grip' = IF 1 \in FirstAt(windows, MouseX, MouseY) /\ button = 1
             THEN <<MouseX - windows[1].x, MouseY - windows[1].y>> ELSE grip
  /\ UNCHANGED <<MouseX, MouseY>>

OnMouseUp(button) ==
  /\ button \in pressed
  /\ pressed' = pressed \ {button}
  /\ SetDragging(FirstAt(windows, MouseX, MouseY), FALSE)
  /\ UNCHANGED <<MouseX, MouseY, grip>>

DesktopNext ==
  \/ \E move \in Moves : OnMouseMove(move[1], move[2])
  \/ \E button \in Buttons : OnMouseDown(button) \/ OnMouseUp(button)

DesktopSpec == DesktopInit /\ [][DesktopNext]_desktopVars

-----------------------------------------------------------------------------
(* Drawing                                                                 *)

Pixels == (0 .. Width - 1) \X (0 .. Height - 1)

(* FillRectangle compares int32_t with uint32_t: with a negative x or y    *)
(* the loop ends before it starts.  PutPixel drops what is not on the      *)
(* screen.                                                                 *)
FillRectangle(r) ==
  IF r.x < 0 \/ r.y < 0 THEN {}
  ELSE {p \in Pixels : ContainsCoordinate(r, p[1], p[2])}

(* CompositeWidget::Draw: the last child first.  The result says whose     *)
(* colour each pixel has, 0 for the desktop.                               *)
Screen ==
  LET Drawn[i \in 1 .. Len(windows) + 1] ==
        [p \in Pixels |->
           IF i > Len(windows) THEN 0
           ELSE IF p \in FillRectangle(windows[i]) THEN i ELSE Drawn[i + 1][p]]
  IN  Drawn[1]

-----------------------------------------------------------------------------
(* Properties                                                              *)

(* The first window follows the mouse from the press to the release: while *)
(* it is dragged the left button is down and the mouse is on the very      *)
(* point of it where it was pressed, also where the mouse is stopped by    *)
(* the edge of the screen.  (A window behind it can slip under it, miss    *)
(* the release and be dragged with no button down.)                        *)
FirstWindowFollows ==
  1 \in DOMAIN windows /\ windows[1].Dragging =>
    /\ 1 \in pressed
    /\ <<MouseX - windows[1].x, MouseY - windows[1].y>> = grip
    /\ ContainsCoordinate(windows[1], MouseX, MouseY)

(* What is clicked on is what is seen there, except for a window that has  *)
(* been dragged over the left or the upper edge: it is not drawn at all.   *)
ClickGoesWhereSeen ==
  \A p \in Pixels :
    \A i \in FirstAt(windows, p[1], p[2]) :
      windows[i].x >= 0 /\ windows[i].y >= 0 => Screen[p] = i
=============================================================================
