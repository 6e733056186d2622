---------------------------- MODULE MouseDriver ------------------------------
(***************************************************************************)
(* The mouse: MouseDriver::HandleInterrupt (src/src/drivers/mouse.cpp)     *)
(* collects the three bytes of a report, one per interrupt, and calls the  *)
(* handlers of MouseToConsole (kernel.cpp), which move the cursor, and of  *)
(* MouseEventHandler, which sets TaskManager::mouseClicked.                *)
(***************************************************************************)
EXTENDS Integers, Sequences

CONSTANTS
  Reports,    \* what the mouse reports: three bytes each
  MaxBytes    \* the mouse waits while the controller holds so many

ASSUME ReportsAssumption == Reports \subseteq [1 .. 3 -> 0 .. 255]
ASSUME MaxBytesAssumption == MaxBytes \in Nat \ {0}

VARIABLES
  wire,                     \* bytes the driver has yet to read
  buffer, offset, buttons,  \* fields of MouseDriver
  x, y,                     \* fields of MouseToConsole
  mouseClicked,             \* field of TaskManager
  late,                     \* whether the answer to Activate came too late
  sent                      \* history: the reports whose bytes are on the wire

driverVars == <<buffer, offset, buttons, x, y>>
mouseVars == <<wire, driverVars, mouseClicked, late, sent>>

Columns == 80
Rows    == 25

(* Activate turns the mouse on and reads one byte, its answer, without     *)
(* waiting for it.  When the answer is late it comes as the first byte of  *)
(* what the driver takes for reports.                                      *)
Answer == 250

MouseInit ==
  /\ late \in BOOLEAN
  /\ wire = (IF late THEN <<Answer>> ELSE <<>>)
  /\ sent = <<>>
  /\ buffer = [i \in 0 .. 2 |-> 0]   \* not initialised, never read before written
  /\ offset = 0 /\ buttons = 0
  /\ x = 40 /\ y = 12
  /\ mouseClicked = FALSE

-----------------------------------------------------------------------------
(* The mouse moves or a button of it goes up or down.                      *)
Send(report) ==
  /\ Len(wire) < MaxBytes
  /\ wire' = wire \o report
  /\ sent' = Append(sent, report)
  /\ UNCHANGED <<driverVars, mouseClicked, late>>

(* TaskManager::isMouseClicked, for whoever polls.                         *)
IsMouseClicked ==
  /\ mouseClicked' = FALSE
  /\ UNCHANGED <<wire, driverVars, late, sent>>

(* (int8_t)n, of a byte or of a sum of two                                 *)
Int8(n) == ((n + 128) % 256) - 128

(* byte & (0x1<<i), as the buttons 1 .. 3 that are down                    *)
Down(byte) == {i \in 1 .. 3 : (byte \div <<1, 2, 4>>[i]) % 2 = 1}

(* x += offset; if(x >= size) x = size - 1; if(x < 0) x = 0;               *)
NotBelow(p, d, size) ==                          \* mutant: no test for x < 0
  IF Int8(p + d) >= size THEN size - 1 ELSE Int8(p + d)
Moved(p, d, size) ==
  CASE Int8(p + d) >= size -> size - 1
    [] Int8(p + d) < 0     -> 0
    [] OTHER               -> Int8(p + d)

(* The handlers of a complete report b: OnMouseMove, and OnMouseDown for   *)
(* each button that was not down before; OnMouseUp is empty.               *)
AnyChange(b) ==                                  \* mutant: up is down, too
  /\ x' = Moved(x, Int8(b[1]), Columns)
  /\ y' = Moved(y, -Int8(b[2]), Rows)
  /\ mouseClicked' = (mouseClicked \/ Down(b[0]) # Down(buttons))
  /\ buttons' = b[0]
Dispatch(b) ==
  /\ x' = Moved(x, Int8(b[1]), Columns)
  /\ y' = Moved(y, -Int8(b[2]), Rows)
  /\ mouseClicked' = (mouseClicked \/ Down(b[0]) \ Down(buttons) # {})
  /\ buttons' = b[0]

(* MouseDriver::HandleInterrupt.  An interrupt without a byte of the mouse *)
(* in the controller changes nothing.                                      *)
HandleInterrupt ==
  /\ wire # <<>>
  /\ wire' = Tail(wire)
  /\ sent' = IF Len(wire) % 3 = 1 /\ sent # <<>> THEN Tail(sent) ELSE sent
  /\ UNCHANGED late
  /\ buffer' = [buffer EXCEPT ![offset] = Head(wire)]
  /\ offset' = (offset + 1) % 3
  /\ IF offset' = 0 THEN Dispatch(buffer')
                    ELSE UNCHANGED <<buttons, x, y, mouseClicked>>

MouseNext ==
  \/ \E report \in Reports : Send(report)
  \/ HandleInterrupt
  \/ IsMouseClicked

(* The controller keeps its interrupt up until the byte is read.           *)
MouseSpec == MouseInit /\ [][MouseNext]_mouseVars /\ WF_mouseVars(HandleInterrupt)

-----------------------------------------------------------------------------
(* Properties                                                              *)

(* The cursor never leaves the screen, also when a long move wraps around  *)
(* in int8_t and when all reports are read one byte off, so OnMouseMove    *)
(* writes to video memory only.                                            *)
CursorOnScreen == x \in 0 .. Columns - 1 /\ y \in 0 .. Rows - 1

(* Byte by byte, with a release in the same report as a press, moves past  *)
(* the edges and clicks taken in between, the driver handles each report   *)
(* once, in order, and as if it had come in one piece.  Nothing is said of *)
(* a driver whose reports have been shifted by a late answer: it never     *)
(* notices.                                                                *)
Unless(shifted, value, nothing) == IF shifted THEN nothing ELSE value

Device == INSTANCE PointingDevice WITH
  Far     <- 127,
  reports <- Unless(late, [k \in DOMAIN sent |->
                             [buttons |-> Down(sent[k][1]),
                              dx |-> Int8(sent[k][2]), dy |-> Int8(sent[k][3])]], <<>>),
  buttons <- Unless(late, Down(buttons), {}),
  x       <- Unless(late, x, 0),
  y       <- Unless(late, y, 0),
  clicked <- Unless(late, mouseClicked, FALSE)

ImplementsPointingDevice == Device!Spec
=============================================================================
