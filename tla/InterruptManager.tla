--------------------------- MODULE InterruptManager ---------------------------
(***************************************************************************)
(* InterruptManager (src/src/hardwarecommunication/interrupts.cpp) with    *)
(* its stubs (interruptstubs.s): the table of gates, the handlers that     *)
(* drivers install, and the way of an interrupt from the two controllers   *)
(* to its handler and back, with the acknowledgements that let the next    *)
(* one through.  Interrupts are off from the gate to the iret.             *)
(*                                                                         *)
(* The controllers are external: the slave's eight lines come in at the    *)
(* master's line 2, a lower line goes first, and a line that is in service *)
(* holds up itself and the lines after it.                                 *)
(***************************************************************************)
EXTENDS Naturals, FiniteSets

CONSTANTS
  Lines,        \* the lines that devices are on
  Exceptions    \* what the processor may find wrong with a program

ASSUME InterruptAssumption ==
  /\ Lines \subseteq (0 .. 15) \ {2}
  /\ Exceptions \subseteq 0 .. 19

VARIABLES
  handlers,     \* [vector |-> who]: the entries that are not 0
  enabled,      \* the processor's interrupt flag
  requested,    \* lines on which an edge has been seen
  inService,    \* lines accepted and not acknowledged, 2 for the slave
  cpu           \* where the processor is

interruptVars == <<handlers, enabled, requested, inService, cpu>>

hardwareInterruptOffset == 32
SyscallVector == 128

InterruptInit ==
  /\ handlers = [v \in {} |-> "nobody"]
  /\ enabled = FALSE
  /\ requested = {} /\ inService = {}
  /\ cpu = [step |-> "running"]

-----------------------------------------------------------------------------
(* The constructor starts the controllers again, which forgets the edges   *)
(* they have seen.                                                         *)
EnabledAtOnce ==                                 \* mutant: sti
  /\ requested' = {} /\ inService' = {} /\ enabled' = TRUE
  /\ UNCHANGED <<handlers, cpu>>
StartControllers ==
  /\ requested' = {} /\ inService' = {}
  /\ UNCHANGED <<handlers, enabled, cpu>>

(* InterruptHandler's constructor; the vector is a byte.                   *)
Register(number, who) ==
  LET vector == number % 256
  IN  /\ handlers' = [v \in DOMAIN handlers \cup {vector} |->
                        IF v = vector THEN who ELSE handlers[v]]
      /\ UNCHANGED <<enabled, requested, inService, cpu>>

ActivateInterrupts ==
  /\ enabled' = TRUE
  /\ UNCHANGED <<handlers, requested, inService, cpu>>

(* The table of gates: the number that the stub passes on, and how many    *)
(* words it pushes beside the registers.  The stubs know the offset as     *)
(* IRQ_BASE.                                                               *)
IRQ_BASE == 32

SystemCallIsBare(vector) ==                      \* mutant: no pushl $0
  IF vector \in hardwareInterruptOffset .. hardwareInterruptOffset + 15
  THEN [number |-> vector - hardwareInterruptOffset + IRQ_BASE, words |-> 1]
  ELSE [number |-> IF vector = SyscallVector THEN vector + IRQ_BASE ELSE vector, words |-> 0]
Gate(vector) ==
  CASE vector \in 0 .. 19 -> [number |-> vector, words |-> 0]
    [] vector \in hardwareInterruptOffset .. hardwareInterruptOffset + 15 ->
         [number |-> vector - hardwareInterruptOffset + IRQ_BASE, words |-> 1]
    [] vector = SyscallVector -> [number |-> vector + IRQ_BASE, words |-> 1]

(* The processor pushes one for some exceptions.                           *)
ErrorCodes == {8, 10, 11, 12, 13, 14, 17}
ErrorCode(vector) == IF vector \in ErrorCodes THEN 1 ELSE 0

Enter(vector) ==
  LET gate == Gate(vector)
  IN  cpu' = [step |-> "dispatch", number |-> gate.number,
              words |-> gate.words + ErrorCode(vector)]

-----------------------------------------------------------------------------
(* The controllers and the processor                                       *)

Slave(line) == line >= 8

(* Lines in the order in which they are served.                            *)
Urgency(line) ==
  IF Slave(line) THEN line - 6 ELSE IF line > 2 THEN line + 7 ELSE line

MoreUrgent(line) == {l \in Lines : Urgency(l) < Urgency(line)}

Request(line) == requested' = requested \cup {line}

(* A line lets itself and the lines behind it on its controller wait; the  *)
(* slave waits behind the master's line 2.                                 *)
HeldUp(line) ==
  \/ \E l \in inService : Slave(l) = Slave(line) /\ l <= line
  \/ Slave(line) /\ \E l \in inService : l <= 2

Pending == {line \in requested : ~HeldUp(line)}

Accept(line) ==
  /\ enabled /\ cpu.step = "running"
  /\ line \in Pending /\ Pending \cap MoreUrgent(line) = {}
  /\ requested' = requested \ {line}
  /\ inService' = inService \cup {line} \cup (IF Slave(line) THEN {2} ELSE {})
  /\ Enter(hardwareInterruptOffset + line)
  /\ UNCHANGED <<handlers, enabled>>

(* A request that has gone by the time it is accepted is taken for the     *)
(* controller's last line, which is then not in service.                   *)
Spurious ==
  /\ enabled /\ cpu.step = "running" /\ Pending = {}
  /\ \/ ~HeldUp(7) /\ UNCHANGED inService /\ Enter(hardwareInterruptOffset + 7)
     \/ /\ ~HeldUp(15)
        /\ inService' = inService \cup {2}
        /\ Enter(hardwareInterruptOffset + 15)
  /\ UNCHANGED <<handlers, enabled, requested>>

(* A program makes a system call or a mistake; interrupts go first.        *)
Trap ==
  /\ enabled /\ cpu.step = "running" /\ Pending = {}
  /\ \E vector \in Exceptions \cup {SyscallVector} : Enter(vector)
  /\ UNCHANGED <<handlers, enabled, requested, inService>>

-----------------------------------------------------------------------------
(* DoHandleInterrupt: the handler, if there is one,                        *)
CallHandler ==
  /\ cpu.step = "dispatch"
  /\ cpu' = [cpu EXCEPT !.step =
               IF cpu.number \in hardwareInterruptOffset .. hardwareInterruptOffset + 15
               THEN "acknowledge" ELSE "leave"]
  /\ UNCHANGED <<handlers, enabled, requested, inService>>

(* "hardware interrupts must be acknowledged": the master, *)
Finished(lines) == lines \ {l \in lines : \A other \in lines : l <= other}

MasterOnly(number) == FALSE                      \* mutant: slave forgotten
FromSlave(number) == hardwareInterruptOffset + 8 <= number

Master(lines) == {l \in lines : ~Slave(l)}

AcknowledgeMaster ==
  /\ cpu.step = "acknowledge"
  /\ inService' = Finished(Master(inService)) \cup (inService \ Master(inService))
  /\ cpu' = [cpu EXCEPT !.step =
               IF FromSlave(cpu.number) THEN "acknowledge slave" ELSE "leave"]
  /\ UNCHANGED <<handlers, enabled, requested>>

(* and the slave, if it was one of its lines.                              *)
AcknowledgeSlave ==
  /\ cpu.step = "acknowledge slave"
  /\ inService' = Master(inService) \cup Finished(inService \ Master(inService))
  /\ cpu' = [cpu EXCEPT !.step = "leave"]
  /\ UNCHANGED <<handlers, enabled, requested>>

(* The stub drops one word and returns, wherever the words then on the     *)
(* stack lead.                                                             *)
Leave ==
  /\ cpu.step = "leave"
  /\ cpu' = [step |-> IF cpu.words = 1 THEN "running" ELSE "lost",
             number |-> cpu.number]
  /\ UNCHANGED <<handlers, enabled, requested, inService>>

-----------------------------------------------------------------------------
(* Properties                                                              *)

(* Between two interrupts no line is in service, so that none is held up   *)
(* for good: also after the slave's first line, a spurious interrupt of    *)
(* either controller, or one that nobody handles.                          *)
NothingInService == cpu.step \in {"running", "lost"} => inService = {}

(* An interrupt returns to where it came from.  The stubs of exceptions    *)
(* push no word in place of the error code that some of them do not have.  *)
ReturnsToTheProgram == cpu.step = "lost" => cpu.number \in 0 .. 19 \ ErrorCodes

(* The end of an interrupt, for the controllers and for the program.       *)
InterruptsEnd == NothingInService /\ ReturnsToTheProgram
=============================================================================
