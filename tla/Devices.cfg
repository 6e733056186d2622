SPECIFICATION DevicesSpec
CONSTANTS
  Lines = {0, 1, 9, 11, 12}
  Exceptions = {0, 13}
  Buses = 2
  Devices = 2
  Functions = 2
  Machines <- MCMachines
  Garbage = 99
  Reports <- MCReports
  MaxBytes = 3
  NumBuffers = 3
  Frames = {"short", "long"}
  Cells <- MCCells
  MaxCells = 2
  Senders = {"p", "q"}
  SendBase = 0
  RecvBase = 8
  Width = 4
  Height = 2
  Windows <- MCWindows
  Moves <- MCMoves
  Buttons = {1, 2}
INVARIANTS InterruptsEnd DriversFitTheirCards DriversAreHeard CursorOnScreen
  SendIsFaithful FirstWindowFollows ClickGoesWhereSeen
PROPERTIES DevicesAreServed ImplementsPointingDevice ReceiveIsFifo FramesGetOn
CHECK_DEADLOCK FALSE
