--------------------------- MODULE KernelMainProofs ---------------------------
(***************************************************************************)
(* The way of an interrupt, for every machine, every set of lines and      *)
(* every set of exceptions: the controllers are always acknowledged, the   *)
(* stubs return to the program, and drivers hear their devices; and the    *)
(* scan of the bus makes one driver for each card.                         *)
(***************************************************************************)
EXTENDS KernelMain, TLAPS, WellFoundedInduction

InterruptNumbers == 32 .. 47

(* What the processor's record holds outside interrupts and in one.        *)
Outside == [step : {"running"}] \cup [step : {"running", "lost"}, number : Nat]
Steps   == {"dispatch", "acknowledge", "acknowledge slave", "leave"}
Inside  == [step : Steps, number : Nat, words : 0 .. 2]

CpuType == cpu \in Outside \cup Inside

(* What is in service while an interrupt is handled: its line and, for the *)
(* slave's, the master's line 2; or less, if it was spurious.              *)
OneInterrupt(number) ==
  /\ number \in InterruptNumbers /\ number # 34
  /\ number < 40 => inService \subseteq {number - 32}
  /\ number >= 40 => 2 \in inService /\ inService \subseteq {2, number - 32}

ServiceInv ==
  /\ cpu.step \in {"running", "lost", "leave"} => inService = {}
  /\ cpu.step = "dispatch" =>
       IF cpu.number \in InterruptNumbers THEN OneInterrupt(cpu.number) ELSE inService = {}
  /\ cpu.step = "acknowledge" => OneInterrupt(cpu.number)
  /\ cpu.step = "acknowledge slave" =>
       cpu.number \in 40 .. 47 /\ inService \subseteq {cpu.number - 32}

(* The words on the stack.                                                 *)
StackInv ==
  /\ cpu.step \in Steps => cpu.words = 1 \/ cpu.number \in 0 .. 19 \ ErrorCodes
  /\ cpu.step = "lost" => cpu.number \in 0 .. 19 \ ErrorCodes

(* Until the last step of boot interrupts are off.                         *)
EarlyInv ==
  /\ stage # "run" => ~enabled
  /\ cpu.step \in Steps => enabled

WayInv == CpuType /\ ServiceInv /\ StackInv

(* A line whose driver has been made is one on which a driver is heard.    *)
Heard(line) == 32 + line \in DOMAIN handlers /\ handlers[32 + line] \in Owners(line)

Known(line) ==
  \/ line = 1  /\ stage \in {"mouse", "scan", "drivers", "activate", "run"}
  \/ line = 12 /\ stage \in {"scan", "drivers", "activate", "run"}
  \/ \E e \in Drivers : e.line = line

HeardInv ==
  /\ machine \in Machines /\ drivers \in Seq(Drivers)
  /\ \A line \in 0 .. 15 : Known(line) => Heard(line)

KernelInv == WayInv /\ EarlyInv /\ HeardInv

-----------------------------------------------------------------------------
(* What the gates pass on.                                                 *)
LEMMA GatesPassOn ==
  /\ \A line \in 0 .. 15 :
       Gate(line + 32) = [number |-> line + 32, words |-> 1] /\ ErrorCode(line + 32) = 0
  /\ Gate(SyscallVector) = [number |-> 160, words |-> 1] /\ ErrorCode(SyscallVector) = 0
  /\ \A vector \in 0 .. 19 :
       /\ Gate(vector) = [number |-> vector, words |-> 0]
       /\ ErrorCode(vector) = IF vector \in ErrorCodes THEN 1 ELSE 0
BY DEF Gate, ErrorCode, ErrorCodes, hardwareInterruptOffset, IRQ_BASE, SyscallVector

LEMMA EntersOnALine ==
  ASSUME NEW line \in 0 .. 15, Enter(hardwareInterruptOffset + line)
  PROVE  cpu' = [step |-> "dispatch", number |-> 32 + line, words |-> 1]
<1>1. hardwareInterruptOffset + line = line + 32
  BY DEF hardwareInterruptOffset
<1> QED
  BY <1>1, GatesPassOn DEF Enter

(* A record of an interrupt keeps its number and words from step to step.  *)
LEMMA StepOn ==
  ASSUME NEW c \in Outside \cup Inside, c.step \in Steps, NEW step \in Steps
  PROVE  /\ c \in Inside /\ [c EXCEPT !.step = step] \in Inside
         /\ [c EXCEPT !.step = step].step = step
         /\ [c EXCEPT !.step = step].number = c.number
         /\ [c EXCEPT !.step = step].words = c.words
<1>1. c \in Inside
  BY DEF Outside, Steps
<1> QED
  BY <1>1 DEF Inside

LEMMA AcceptKeeps ==
  ASSUME WayInv, NEW line \in Lines, Accept(line)
  PROVE  WayInv'
<1>1. line \in 0 .. 15 /\ line # 2
  BY InterruptAssumption
<1>2. cpu' = [step |-> "dispatch", number |-> 32 + line, words |-> 1]
  BY <1>1, EntersOnALine DEF Accept
<1>3. inService = {}
  BY DEF Accept, WayInv, ServiceInv
<1>4. cpu' \in Inside /\ cpu'.step = "dispatch" /\ cpu'.number = 32 + line /\ cpu'.words = 1
  BY <1>1, <1>2 DEF Inside, Steps
<1>5. OneInterrupt(32 + line)'
  <2>1. CASE line >= 8
    <3>1. inService' = {line, 2}
      BY <1>3, <2>1 DEF Accept, Slave
    <3> QED
      BY <1>1, <2>1, <3>1 DEF OneInterrupt, InterruptNumbers
  <2>2. CASE line < 8
    <3>1. inService' = {line}
      BY <1>1, <1>3, <2>2 DEF Accept, Slave
    <3> QED
      BY <1>1, <2>2, <3>1 DEF OneInterrupt, InterruptNumbers
  <2> QED
    BY <1>1, <2>1, <2>2
<1>6. ServiceInv'
  BY <1>1, <1>4, <1>5 DEF ServiceInv, InterruptNumbers
<1> QED
  BY <1>4, <1>6 DEF WayInv, CpuType, StackInv, Steps

LEMMA SpuriousKeeps ==
  ASSUME WayInv, Spurious
  PROVE  WayInv'
<1>1. inService = {}
  BY DEF Spurious, WayInv, ServiceInv
<1>2. \E number \in {39, 47} :
        cpu' = [step |-> "dispatch", number |-> number, words |-> 1] /\ OneInterrupt(number)'
  <2>1. CASE UNCHANGED inService /\ Enter(hardwareInterruptOffset + 7)
    <3>1. cpu' = [step |-> "dispatch", number |-> 32 + 7, words |-> 1]
      BY <2>1, EntersOnALine
    <3> QED
      BY <1>1, <2>1, <3>1 DEF OneInterrupt, InterruptNumbers
  <2>2. CASE inService' = inService \cup {2} /\ Enter(hardwareInterruptOffset + 15)
    <3>1. cpu' = [step |-> "dispatch", number |-> 32 + 15, words |-> 1]
      BY <2>2, EntersOnALine
    <3> QED
      BY <1>1, <2>2, <3>1 DEF OneInterrupt, InterruptNumbers
  <2> QED
    BY <2>1, <2>2 DEF Spurious
<1>3. PICK number \in {39, 47} :
        cpu' = [step |-> "dispatch", number |-> number, words |-> 1] /\ OneInterrupt(number)'
  BY <1>2
<1>4. cpu' \in Inside /\ cpu'.step = "dispatch" /\ cpu'.number = number /\ cpu'.words = 1
  BY <1>3 DEF Inside, Steps
<1>5. ServiceInv'
  BY <1>3, <1>4 DEF ServiceInv, InterruptNumbers
<1> QED
  BY <1>4, <1>5 DEF WayInv, CpuType, StackInv, Steps

LEMMA TrapKeeps ==
  ASSUME WayInv, Trap
  PROVE  WayInv'
<1>1. inService' = {}
  BY DEF Trap, WayInv, ServiceInv
<1>2. PICK vector \in Exceptions \cup {SyscallVector} : Enter(vector)
  BY DEF Trap
<1>3. CASE vector = SyscallVector
  <2>1. cpu' = [step |-> "dispatch", number |-> 160, words |-> 1]
    BY <1>2, <1>3, GatesPassOn DEF Enter
  <2>2. cpu' \in Inside /\ cpu'.step = "dispatch" /\ cpu'.number = 160 /\ cpu'.words = 1
    BY <2>1 DEF Inside, Steps
  <2>3. ServiceInv'
    BY <1>1, <2>2 DEF ServiceInv, InterruptNumbers
  <2> QED
    BY <2>2, <2>3 DEF WayInv, CpuType, StackInv, Steps
<1>4. CASE vector \in Exceptions
  <2>1. vector \in 0 .. 19
    BY <1>4, InterruptAssumption
  <2> DEFINE words == IF vector \in ErrorCodes THEN 1 ELSE 0
  <2>2. cpu' = [step |-> "dispatch", number |-> vector, words |-> words]
    BY <1>2, <2>1, GatesPassOn DEF Enter
  <2>3. cpu' \in Inside /\ cpu'.step = "dispatch" /\ cpu'.number = vector /\ cpu'.words = words
    BY <2>1, <2>2 DEF Inside, Steps
  <2>4. cpu'.words = 1 \/ cpu'.number \in 0 .. 19 \ ErrorCodes
    BY <2>1, <2>3
  <2>5. ServiceInv'
    BY <1>1, <2>1, <2>3 DEF ServiceInv, InterruptNumbers
  <2> QED
    BY <2>3, <2>4, <2>5 DEF WayInv, CpuType, StackInv, Steps
<1> QED
  BY <1>2, <1>3, <1>4

LEMMA CallHandlerKeeps ==
  ASSUME WayInv, CallHandler
  PROVE  WayInv'
<1> DEFINE hardware == cpu.number \in InterruptNumbers
           step == IF hardware THEN "acknowledge" ELSE "leave"
<1>1. /\ cpu' = [cpu EXCEPT !.step = step] /\ inService' = inService
      /\ cpu.step = "dispatch" /\ cpu.step \in Steps /\ step \in Steps
  BY DEF CallHandler, hardwareInterruptOffset, InterruptNumbers, Steps
<1>2. cpu' \in Inside /\ cpu'.step = step /\ cpu'.number = cpu.number /\ cpu'.words = cpu.words
  BY <1>1, StepOn DEF WayInv, CpuType
<1>3. ServiceInv'
  BY <1>1, <1>2 DEF WayInv, ServiceInv, OneInterrupt
<1> QED
  BY <1>1, <1>2, <1>3 DEF WayInv, CpuType, StackInv, Steps

(* Each controller is told that one line is done, and has one at most.     *)
LEMMA NothingMore ==
  ASSUME NEW l \in Nat, NEW lines \in SUBSET {l}
  PROVE  Finished(lines) = {}
<1>1. \A k, other \in lines : k <= other
  OBVIOUS
<1> QED
  BY <1>1 DEF Finished

LEMMA AcknowledgeMasterKeeps ==
  ASSUME WayInv, AcknowledgeMaster
  PROVE  WayInv'
<1>1. cpu.step = "acknowledge" /\ cpu.step \in Steps /\ OneInterrupt(cpu.number)
  BY DEF AcknowledgeMaster, WayInv, ServiceInv, Steps
<1>2. PICK number \in InterruptNumbers : number = cpu.number
  BY <1>1 DEF OneInterrupt
<1>3. PICK line \in 0 .. 15 : number = 32 + line
  <2>1. number - 32 \in 0 .. 15 /\ number = 32 + (number - 32)
    BY DEF InterruptNumbers
  <2> QED
    BY <2>1
<1> DEFINE step == IF line >= 8 THEN "acknowledge slave" ELSE "leave"
<1>4. step \in Steps /\ cpu' = [cpu EXCEPT !.step = step]
  <2>1. FromSlave(cpu.number) <=> line >= 8
    BY <1>2, <1>3 DEF FromSlave, hardwareInterruptOffset
  <2> QED
    BY <2>1 DEF AcknowledgeMaster, Steps
<1>5. cpu' \in Inside /\ cpu'.step = step /\ cpu'.number = number /\ cpu'.words = cpu.words
  BY <1>1, <1>2, <1>4, StepOn DEF WayInv, CpuType
<1>6. CASE line < 8
  <2>1. inService \subseteq {line}
    BY <1>1, <1>2, <1>3, <1>6 DEF OneInterrupt
  <2>2. ~Slave(line)
    BY <1>6 DEF Slave
  <2>3. Master(inService) = inService
    BY <2>1, <2>2 DEF Master
  <2>4. Finished(inService) = {}
    <3>1. line \in Nat /\ inService \in SUBSET {line}
      BY <2>1
    <3> QED
      BY ONLY <3>1, NothingMore, Zenon
  <2>5. inService' = {}
    BY <2>3, <2>4 DEF AcknowledgeMaster
  <2>6. cpu'.step = "leave"
    <3>1. ~(line >= 8)
      BY <1>6
    <3> QED
      BY <1>5, <3>1
  <2>7. ServiceInv'
    BY <2>5, <2>6 DEF ServiceInv
  <2> QED
    BY <1>1, <1>2, <1>5, <1>6, <2>7 DEF WayInv, CpuType, StackInv, Steps
<1>7. CASE line >= 8
  <2>1. 2 \in inService /\ inService \subseteq {2, line}
    BY <1>1, <1>2, <1>3, <1>7 DEF OneInterrupt
  <2>2. Master(inService) = {2}
    <3>1. Slave(line) /\ ~Slave(2)
      BY <1>7 DEF Slave
    <3> QED
      BY <2>1, <3>1 DEF Master
  <2>3. Finished({2}) = {}
    BY NothingMore
  <2>4. inService' \subseteq {line}
    BY <2>1, <2>2, <2>3 DEF AcknowledgeMaster
  <2>5. cpu'.number \in 40 .. 47 /\ cpu'.number - 32 = line
    <3>1. number \in 40 .. 47 /\ number - 32 = line
      BY <1>3, <1>7
    <3> QED
      BY <1>5, <3>1
  <2>6. ServiceInv'
    BY <1>5, <1>7, <2>4, <2>5 DEF ServiceInv
  <2> QED
    BY <1>1, <1>2, <1>5, <1>7, <2>6 DEF WayInv, CpuType, StackInv, Steps
<1> QED
  BY <1>6, <1>7

LEMMA AcknowledgeSlaveKeeps ==
  ASSUME WayInv, AcknowledgeSlave
  PROVE  WayInv'
<1>1. cpu.step = "acknowledge slave" /\ cpu.number \in 40 .. 47
      /\ inService \subseteq {cpu.number - 32}
  BY DEF WayInv, ServiceInv, AcknowledgeSlave
<1>2. PICK line \in 8 .. 15 : inService \subseteq {line}
  <2>1. \A number \in 40 .. 47 : number - 32 \in 8 .. 15
    OBVIOUS
  <2> QED
    BY <1>1, <2>1
<1>3. Master(inService) = {} /\ inService \ Master(inService) = inService
  <2>1. Slave(line)
    BY DEF Slave
  <2> QED
    BY <1>2, <2>1 DEF Master
<1>4. inService' = {}
  <2>1. Finished(inService) = {}
    <3>1. line \in Nat /\ inService \in SUBSET {line}
      BY <1>2
    <3> QED
      BY ONLY <3>1, NothingMore, Zenon
  <2> QED
    BY <1>3, <2>1 DEF AcknowledgeSlave
<1>5. cpu.step \in Steps /\ "leave" \in Steps /\ cpu' = [cpu EXCEPT !.step = "leave"]
  BY DEF AcknowledgeSlave, Steps
<1>6. cpu' \in Inside /\ cpu'.step = "leave" /\ cpu'.number = cpu.number /\ cpu'.words = cpu.words
  BY <1>5, StepOn DEF WayInv, CpuType
<1>7. ServiceInv'
  BY <1>4, <1>6 DEF ServiceInv
<1> QED
  BY <1>5, <1>6, <1>7 DEF WayInv, CpuType, StackInv, Steps

LEMMA LeaveKeeps ==
  ASSUME WayInv, Leave
  PROVE  WayInv'
<1> DEFINE step == IF cpu.words = 1 THEN "running" ELSE "lost"
<1>1. cpu \in Inside /\ cpu.step = "leave" /\ cpu.step \in Steps
  BY DEF WayInv, CpuType, Leave, Outside, Inside, Steps
<1>2. cpu' = [step |-> step, number |-> cpu.number] /\ inService' = {}
  BY <1>1 DEF Leave, WayInv, ServiceInv
<1>3. cpu' \in Outside /\ cpu'.step = step /\ cpu'.number = cpu.number
  BY <1>1, <1>2 DEF Outside, Inside
<1> QED
  BY <1>1, <1>2, <1>3 DEF WayInv, CpuType, ServiceInv, StackInv, Steps

LEMMA WayStays ==
  ASSUME WayInv, EarlyInv, [KernelNext]_kernelVars
  PROVE  WayInv'
<1>1. ASSUME UNCHANGED <<cpu, inService>>
      PROVE  WayInv'
  BY <1>1 DEF WayInv, CpuType, ServiceInv, StackInv, OneInterrupt
<1>2. CASE UNCHANGED kernelVars
  BY <1>1, <1>2 DEF kernelVars, interruptVars
<1>3. CASE Boot
  <2>1. CASE ConstructManager
    <3>1. cpu' = cpu /\ inService' = {} /\ cpu.step \notin Steps
      BY <2>1 DEF ConstructManager, StartControllers, EarlyInv, Stage
    <3>2. ServiceInv'
      BY <3>1 DEF ServiceInv, Steps
    <3> QED
      BY <3>1, <3>2 DEF WayInv, CpuType, StackInv
  <2>2. CASE \/ ConstructSyscalls \/ ConstructKeyboard \/ ConstructMouse
             \/ SelectDrivers \/ ActivateAll \/ Activate
    BY <1>1, <2>2 DEF ConstructSyscalls, ConstructKeyboard, ConstructMouse, SelectDrivers,
       ActivateAll, Activate, Register, ActivateInterrupts, interruptVars
  <2> QED
    BY <1>3, <2>1, <2>2 DEF Boot
<1>4. CASE Tick \/ \E device \in Started : Raise(device)
  BY <1>1, <1>4 DEF Tick, Raise
<1>5. CASE Processor
  BY <1>5, CallHandlerKeeps, AcknowledgeMasterKeeps, AcknowledgeSlaveKeeps, LeaveKeeps, AcceptKeeps
     DEF Processor, Handle
<1>6. CASE Spurious \/ Trap
  BY <1>6, SpuriousKeeps, TrapKeeps
<1> QED
  BY <1>2, <1>3, <1>4, <1>5, <1>6 DEF KernelNext

-----------------------------------------------------------------------------
(* Interrupts come late enough: none before the last step of boot.         *)
LEMMA EarlyStays ==
  ASSUME EarlyInv, [KernelNext]_kernelVars
  PROVE  EarlyInv'
<1>1. CASE UNCHANGED kernelVars
  BY <1>1 DEF kernelVars, interruptVars, EarlyInv
<1>2. CASE Boot
  BY <1>2 DEF Boot, ConstructManager, ConstructSyscalls, ConstructKeyboard, ConstructMouse,
     SelectDrivers, ActivateAll, Activate, StartControllers, Register, ActivateInterrupts,
     interruptVars, Stage, EarlyInv
<1>3. CASE Tick \/ \E device \in Started : Raise(device)
  BY <1>3 DEF Tick, Raise, EarlyInv
<1>4. CASE Processor
  <2>1. /\ UNCHANGED <<stage, enabled>>
        /\ cpu.step \in Steps \/ enabled
    BY <1>4 DEF Processor, Handle, CallHandler, AcknowledgeMaster, AcknowledgeSlave, Leave, Accept,
       Steps
  <2> QED
    BY <2>1 DEF EarlyInv
<1>5. CASE (Spurious \/ Trap) /\ UNCHANGED stage
  <2>1. UNCHANGED <<enabled, stage>> /\ enabled
    BY <1>5 DEF Spurious, Trap
  <2> QED
    BY <2>1 DEF EarlyInv
<1> QED
  BY <1>1, <1>2, <1>3, <1>4, <1>5 DEF KernelNext

-----------------------------------------------------------------------------
(* A handler stays where it is until a driver of the same line is made.    *)
LEMMA RegisterKeeps ==
  ASSUME NEW line \in 0 .. 15, Heard(line), NEW number \in Nat, NEW who, Register(number, who),
         Owners(line) \subseteq Owners(line)',
         number % 256 = 32 + line => who \in Owners(line)'
  PROVE  Heard(line)'
<1>1. 32 + line \in DOMAIN handlers'
  BY DEF Register, Heard
<1>2. CASE number % 256 = 32 + line
  BY <1>1, <1>2 DEF Register, Heard
<1>3. CASE number % 256 # 32 + line
  BY <1>1, <1>3 DEF Register, Heard
<1> QED
  BY <1>2, <1>3

LEMMA RegisterMakes ==
  ASSUME NEW line \in 0 .. 15, NEW number \in Nat, number % 256 = 32 + line, NEW who,
         Register(number, who), who \in Owners(line)'
  PROVE  Heard(line)'
BY DEF Register, Heard

(* A step that makes nothing known and no driver keeps what is heard.      *)
LEMMA NothingKnown ==
  ASSUME HeardInv, UNCHANGED <<handlers, machine, drivers>>,
         \A line \in 0 .. 15 : Known(line)' => Known(line)
  PROVE  HeardInv'
<1>1. machine' \in Machines /\ drivers' \in Seq(Drivers')
  BY DEF HeardInv, Drivers
<1>2. \A line \in 0 .. 15 : Heard(line) => Heard(line)'
  BY DEF Heard, Owners, Drivers
<1> QED
  BY <1>1, <1>2 DEF HeardInv

LEMMA KeyboardIsHeard ==
  ASSUME HeardInv, ConstructKeyboard
  PROVE  HeardInv'
<1>1. ASSUME NEW line \in 0 .. 15, Known(line)'
      PROVE  Heard(line)'
  <2>1. Owners(line)' = Owners(line)
    BY DEF ConstructKeyboard, pciVars, Owners, Drivers
  <2>2. CASE line = 1
    <3>1. Keyboard \in Owners(line)'
      BY <2>2 DEF Owners, Keyboard
    <3> QED
      BY <2>2, <3>1, RegisterMakes DEF ConstructKeyboard
  <2>3. CASE line # 1
    <3>1. Known(line)
      BY <1>1, <2>3 DEF Known, ConstructKeyboard, Stage, Drivers, pciVars
    <3>2. Heard(line)
      BY <3>1 DEF HeardInv
    <3>3. Register(33, Keyboard) /\ 33 \in Nat /\ ~(33 % 256 = 32 + line)
      BY <2>3 DEF ConstructKeyboard
    <3> QED
      BY <2>1, <3>2, <3>3, RegisterKeeps
  <2> QED
    BY <2>2, <2>3
<1> QED
  BY <1>1 DEF HeardInv, ConstructKeyboard, pciVars, Drivers

LEMMA MouseIsHeard ==
  ASSUME HeardInv, ConstructMouse
  PROVE  HeardInv'
<1>1. ASSUME NEW line \in 0 .. 15, Known(line)'
      PROVE  Heard(line)'
  <2>1. Owners(line)' = Owners(line)
    BY DEF ConstructMouse, pciVars, Owners, Drivers
  <2>2. CASE line = 12
    <3>1. Mouse \in Owners(line)'
      BY <2>2 DEF Owners, Mouse
    <3> QED
      BY <2>2, <3>1, RegisterMakes DEF ConstructMouse
  <2>3. CASE line # 12
    <3>1. Known(line)
      BY <1>1, <2>3 DEF Known, ConstructMouse, Stage, Drivers, pciVars
    <3>2. Heard(line)
      BY <3>1 DEF HeardInv
    <3>3. Register(44, Mouse) /\ 44 \in Nat /\ ~(44 % 256 = 32 + line)
      BY <2>3 DEF ConstructMouse
    <3> QED
      BY <2>1, <3>2, <3>3, RegisterKeeps
  <2> QED
    BY <2>2, <2>3
<1> QED
  BY <1>1 DEF HeardInv, ConstructMouse, pciVars, Drivers

(* Only the number itself has the vector of a line of the two controllers. *)
LEMMA VectorOfNumber ==
  \A number \in 0 .. 255, line \in 0 .. 15 :
    (number + 32) % 256 = 32 + line <=> number = line
<1> SUFFICES ASSUME NEW number \in 0 .. 255, NEW line \in 0 .. 15
             PROVE  (number + 32) % 256 = 32 + line <=> number = line
  OBVIOUS
<1>1. CASE number < 224
  <2>1. (number + 32) % 256 = number + 32
    BY ONLY <1>1, number \in 0 .. 255, SMT
  <2> QED
    BY ONLY <2>1, number \in 0 .. 255, line \in 0 .. 15, SMT
<1>2. CASE number >= 224
  <2>1. (number + 32) % 256 = number - 224
    BY ONLY <1>2, number \in 0 .. 255, SMT
  <2> QED
    BY ONLY <1>2, <2>1, number \in 0 .. 255, line \in 0 .. 15, SMT
<1> QED
  BY <1>1, <1>2

(* A card's line is a byte: with the offset added it is another line's     *)
(* vector only if it wraps, and then to one that is no line's.             *)
LEMMA CardIsHeard ==
  ASSUME HeardInv, SelectDrivers, AddCard,
         Register(machine[place].line + hardwareInterruptOffset, place)
  PROVE  HeardInv'
<1> DEFINE number == machine[place].line
           driver == [at |-> place, port |-> portBase', line |-> number]
<1>1. number \in 0 .. 255 /\ machine' = machine
  BY MachineAssumption DEF AddCard, Look, Card, HeardInv
<1>2. drivers' = Append(drivers, driver)
  BY DEF AddCard, Look, NewDriver
<1>3. Drivers' = Drivers \cup {driver} /\ drivers' \in Seq(Drivers')
  <2>1. drivers \in Seq(Drivers) /\ drivers \in Seq(Drivers \cup {driver})
    BY DEF HeardInv
  <2>2. DOMAIN drivers = 1 .. Len(drivers) /\ DOMAIN drivers' = 1 .. Len(drivers) + 1
        /\ drivers' \in Seq(Drivers \cup {driver}) /\ Len(drivers) \in Nat
    BY <1>2, <2>1
  <2>3. \A i \in 1 .. Len(drivers) : drivers'[i] = drivers[i]
    BY <1>2, <2>1
  <2>4. drivers'[Len(drivers) + 1] = driver
    BY <1>2, <2>1
  <2> HIDE DEF driver
  <2>5. Drivers' = Drivers \cup {driver}
    BY <2>2, <2>3, <2>4 DEF Drivers
  <2> QED
    BY <2>2, <2>5
<1>4. ASSUME NEW line \in 0 .. 15, Known(line)'
      PROVE  Heard(line)'
  <2>1. Owners(line) \subseteq Owners(line)'
    BY <1>3 DEF Owners
  <2>2. driver \in Drivers' /\ driver.at = place /\ driver.line = number
    BY <1>3
  <2>3. number = line => place \in Owners(line)'
    BY <2>2 DEF Owners
  <2>4. (number + 32) % 256 = 32 + line <=> number = line
    <3> HIDE DEF number
    <3>1. number \in 0 .. 255
      BY <1>1
    <3> QED
      BY ONLY <3>1, line \in 0 .. 15, VectorOfNumber, ZenonT(30)
  <2>5. Register(number + 32, place) /\ number + 32 \in Nat
    <3>1. number + 32 \in Nat
      BY ONLY <1>1, SMT
    <3> QED
      BY <3>1 DEF hardwareInterruptOffset
  <2> HIDE DEF number, driver
  <2>6. CASE number = line
    BY <2>3, <2>4, <2>5, <2>6, RegisterMakes
  <2>7. CASE number # line
    <3>1. Known(line)
      BY <1>3, <1>4, <2>2, <2>7 DEF Known, SelectDrivers, Stage, AddCard, Look
    <3>2. Heard(line)
      BY <3>1 DEF HeardInv
    <3> QED
      BY <2>1, <2>4, <2>5, <2>7, <3>2, RegisterKeeps
  <2> QED
    BY <2>6, <2>7
<1> QED
  BY <1>1, <1>3, <1>4 DEF HeardInv

LEMMA HeardStays ==
  ASSUME HeardInv, [KernelNext]_kernelVars
  PROVE  HeardInv'
<1>1. ASSUME UNCHANGED <<handlers, machine, drivers, stage>>
      PROVE  HeardInv'
  BY <1>1, NothingKnown DEF Known, Drivers
<1>2. CASE ConstructManager \/ ActivateAll \/ Activate
  <2>1. UNCHANGED <<handlers, machine, drivers>>
    BY <1>2 DEF ConstructManager, ActivateAll, Activate, StartControllers, ActivateInterrupts,
       pciVars, interruptVars
  <2>2. \A line \in 0 .. 15 : Known(line)' => Known(line)
    BY <1>2, <2>1 DEF ConstructManager, ActivateAll, Activate, Stage, Known, Drivers
  <2> QED
    BY <2>1, <2>2, NothingKnown
<1>3. CASE ConstructSyscalls
  <2>1. ASSUME NEW line \in 0 .. 15, Known(line)'
        PROVE  Heard(line)'
    <3>1. Known(line) /\ Owners(line)' = Owners(line)
      BY <1>3, <2>1 DEF Known, ConstructSyscalls, Stage, Owners, Drivers, pciVars
    <3>2. Heard(line)
      BY <3>1 DEF HeardInv
    <3>3. Register(160, Syscalls) /\ 160 \in Nat /\ ~(160 % 256 = 32 + line)
      BY <1>3 DEF ConstructSyscalls, SyscallVector, hardwareInterruptOffset
    <3> QED
      BY <3>1, <3>2, <3>3, RegisterKeeps
  <2> QED
    BY <1>3, <2>1 DEF HeardInv, ConstructSyscalls, pciVars, Drivers
<1>4. CASE SelectDrivers
  <2>1. CASE Skip /\ UNCHANGED <<interruptVars, stage>>
    BY <1>1, <2>1 DEF Skip, Look, NoDriver, interruptVars
  <2>2. CASE LoseCard /\ UNCHANGED <<interruptVars, stage>>
    BY <1>1, <2>2 DEF LoseCard, Look, NoMemory, interruptVars
  <2>3. CASE AddCard /\ Register(machine[place].line + hardwareInterruptOffset, place)
    BY <1>4, <2>3, CardIsHeard
  <2>4. CASE Stage("scan", "drivers") /\ UNCHANGED <<interruptVars, pciVars>>
    <3>1. \A line \in 0 .. 15 : Known(line)' => Known(line)
      BY <2>4 DEF Stage, Known, Drivers, pciVars
    <3> QED
      BY <2>4, <3>1, NothingKnown DEF interruptVars, pciVars
  <2> QED
    BY <1>4, <2>1, <2>2, <2>3, <2>4 DEF SelectDrivers
<1>5. CASE UNCHANGED kernelVars
  BY <1>1, <1>5 DEF pciVars, kernelVars, interruptVars
<1>6. CASE Tick \/ \E device \in Started : Raise(device)
  BY <1>1, <1>6 DEF Tick, Raise, pciVars
<1>7. CASE Processor
  BY <1>1, <1>7 DEF Processor, Handle, CallHandler, AcknowledgeMaster, AcknowledgeSlave, Leave,
     Accept, pciVars
<1>8. CASE (Spurious \/ Trap) /\ UNCHANGED <<pciVars, stage, waiting>>
  BY <1>1, <1>8 DEF Spurious, Trap, pciVars
<1>9. CASE Boot
  BY <1>2, <1>3, <1>4, <1>9, KeyboardIsHeard, MouseIsHeard DEF Boot
<1> QED
  BY <1>5, <1>6, <1>7, <1>8, <1>9 DEF KernelNext

-----------------------------------------------------------------------------
LEMMA KernelStarts ==
  ASSUME KernelInit
  PROVE  KernelInv
<1>1. WayInv /\ EarlyInv
  BY DEF KernelInit, InterruptInit, WayInv, CpuType, ServiceInv, StackInv, EarlyInv, Outside, Steps
<1>2. HeardInv
  <2>1. drivers = <<>> /\ stage = "interrupts" /\ machine \in Machines
    BY DEF KernelInit, PciInit
  <2>2. Drivers = {} /\ drivers \in Seq(Drivers)
    BY <2>1 DEF Drivers
  <2>3. \A line \in 0 .. 15 : ~Known(line)
    BY <2>1, <2>2 DEF Known
  <2> QED
    BY <2>1, <2>2, <2>3, Zenon DEF HeardInv
<1> QED
  BY <1>1, <1>2 DEF KernelInv

LEMMA KernelInvariant == KernelSpec => []KernelInv
<1>1. KernelInv /\ [KernelNext]_kernelVars => KernelInv'
  BY WayStays, EarlyStays, HeardStays DEF KernelInv
<1> QED
  BY KernelStarts, <1>1, PTL DEF KernelSpec

(* Whichever devices request interrupts and whichever of them were         *)
(* spurious: the acknowledgements in DoHandleInterrupt leave no line in    *)
(* service (interrupts.cpp 190-200).                                       *)
THEOREM ControllersAreFree == KernelSpec => []NothingInService
<1>1. KernelInv => NothingInService
  BY DEF KernelInv, WayInv, CpuType, ServiceInv, NothingInService
<1> QED
  BY <1>1, KernelInvariant, PTL

(* Only an exception for which the processor pushes no error code loses    *)
(* its way back (interruptstubs.s).                                        *)
THEOREM OnlyExceptionsAreLost == KernelSpec => []ReturnsToTheProgram
<1>1. KernelInv => ReturnsToTheProgram
  BY DEF KernelInv, WayInv, StackInv, ReturnsToTheProgram
<1> QED
  BY <1>1, KernelInvariant, PTL

(* So every interrupt ends, for the controllers and for the program.       *)
THEOREM InterruptsAlwaysEnd == KernelSpec => []InterruptsEnd
BY ControllersAreFree, OnlyExceptionsAreLost, PTL DEF InterruptsEnd

(* Whatever is on the bus: from the first interrupt on, each one on a line *)
(* that a driver of kernelMain owns is handled by an owner of that line.   *)
THEOREM DriversAreAlwaysHeard == KernelSpec => []DriversAreHeard
<1>1. KernelInv => DriversAreHeard
  <2> SUFFICES ASSUME KernelInv, cpu.step = "dispatch", NEW line \in Lines,
                      cpu.number = 32 + line, Owners(line) # {}
               PROVE  Heard(line)
    BY DEF DriversAreHeard, hardwareInterruptOffset, Heard
  <2>1. line \in 0 .. 15 /\ stage = "run"
    BY InterruptAssumption DEF KernelInv, EarlyInv, Steps
  <2>2. Known(line)
    BY <2>1 DEF Owners, Known, Keyboard, Mouse
  <2> QED
    BY <2>1, <2>2 DEF KernelInv, HeardInv
<1> QED
  BY <1>1, KernelInvariant, PTL

-----------------------------------------------------------------------------
(* The scan's way: a place behind the first function of a device is one of *)
(* a device that has several.                                              *)
Several(p) == <<p[1], p[2], 0>> \in DOMAIN machine => machine[<<p[1], p[2], 0>>].multi

Scanned(p) == p = <<>> \/ (p \in Places /\ (p[3] # 0 => Several(p)))

LEMMA PlacesAreTuples ==
  ASSUME NEW p \in Places
  PROVE  /\ p = <<p[1], p[2], p[3]>> /\ p # <<>>
         /\ p[1] \in Nat /\ p[1] < Buses /\ p[2] \in Nat /\ p[2] < Devices
         /\ p[3] \in Nat /\ p[3] < Functions
<1>1. PICK b \in 0 .. Buses - 1, d \in 0 .. Devices - 1, f \in 0 .. Functions - 1 :
        p = <<b, d, f>>
  BY DEF Places
<1> QED
  BY <1>1, MachineAssumption

LEMMA TuplesArePlaces ==
  ASSUME NEW b \in Nat, b < Buses, NEW d \in Nat, d < Devices, NEW f \in Nat, f < Functions
  PROVE  <<b, d, f>> \in Places /\ <<b, d, f>> # <<>>
BY MachineAssumption DEF Places

(* What follows a place in the scan is the next that can be reached.       *)
LEMMA NextPlaceIsNext ==
  ASSUME machine \in Machines, NEW p \in Places, Scanned(p)
  PROVE  /\ Scanned(NextPlace(p))
         /\ \A q \in Reachable :
              NextPlace(p) = <<>> \/ Before(q, NextPlace(p)) <=> q = p \/ Before(q, p)
<1> DEFINE n == NumFunctions(p[1], p[2])
<1>1. /\ p = <<p[1], p[2], p[3]>>
      /\ p[1] \in Nat /\ p[1] < Buses /\ p[2] \in Nat /\ p[2] < Devices
      /\ p[3] \in Nat /\ p[3] < Functions
  BY PlacesAreTuples
<1>2. Buses \in Nat /\ Devices \in Nat /\ Functions \in Nat
  BY MachineAssumption
<1>3. n = IF Several(p) THEN Functions ELSE 1
  BY DEF NumFunctions, Several
<1>4. ASSUME NEW q \in Reachable
      PROVE  /\ q = <<q[1], q[2], q[3]>>
             /\ q[1] \in Nat /\ q[1] < Buses /\ q[2] \in Nat /\ q[2] < Devices
             /\ q[3] \in Nat /\ q[3] < Functions
             /\ q[3] = 0 \/ Several(q)
  <2>1. q \in Places /\ (q[3] = 0 \/ Several(q))
    BY MachineAssumption DEF Reachable, Several
  <2> QED
    BY <2>1, PlacesAreTuples
<1>5. ASSUME NEW q \in Reachable, q[1] = p[1], q[2] = p[2]
      PROVE  q[3] = 0 \/ q[3] < n
  <2>1. Several(q) <=> Several(p)
    BY <1>5 DEF Several
  <2> QED
    BY <2>1, <1>3, <1>4
<1> HIDE DEF n
<1>6. CASE p[3] + 1 < n
  <2>1. NextPlace(p) = <<p[1], p[2], p[3] + 1>>
    BY <1>1, <1>2, <1>3, <1>6 DEF NextPlace, n
  <2>2. Several(p) /\ p[3] + 1 < Functions
    BY <1>1, <1>3, <1>6
  <2>3. NextPlace(p) \in Places /\ Several(NextPlace(p))
    BY <1>1, <2>1, <2>2, TuplesArePlaces DEF Several
  <2>4. ASSUME NEW q \in Reachable
        PROVE  Before(q, <<p[1], p[2], p[3] + 1>>) <=> q = p \/ Before(q, p)
    BY <1>1, <1>4 DEF Before
  <2> QED
    BY <2>1, <2>3, <2>4 DEF Scanned
<1>7. CASE p[3] + 1 >= n /\ p[2] + 1 < Devices
  <2>1. NextPlace(p) = <<p[1], p[2] + 1, 0>>
    BY <1>1, <1>2, <1>3, <1>7 DEF NextPlace, n
  <2>2. NextPlace(p) \in Places /\ NextPlace(p)[3] = 0
    BY <1>1, <1>7, <2>1, TuplesArePlaces, MachineAssumption
  <2>3. ASSUME NEW q \in Reachable
        PROVE  Before(q, <<p[1], p[2] + 1, 0>>) <=> q = p \/ Before(q, p)
    <3>1. q[1] = p[1] /\ q[2] = p[2] => q[3] = 0 \/ q[3] < p[3] + 1
      BY <1>1, <1>2, <1>3, <1>4, <1>5, <1>7
    <3> QED
      BY <1>1, <1>4, <3>1 DEF Before
  <2> QED
    BY <2>1, <2>2, <2>3 DEF Scanned
<1>8. CASE p[3] + 1 >= n /\ p[2] + 1 >= Devices
  <2>1. NextPlace(p) = IF p[1] + 1 < Buses THEN <<p[1] + 1, 0, 0>> ELSE <<>>
    BY <1>1, <1>2, <1>3, <1>8 DEF NextPlace, n
  <2>2. ASSUME NEW q \in Reachable
        PROVE  q[1] < p[1] + 1 <=> q = p \/ Before(q, p)
    <3>1. q[1] = p[1] /\ q[2] = p[2] => q[3] = 0 \/ q[3] < p[3] + 1
      BY <1>1, <1>2, <1>3, <1>4, <1>5, <1>8
    <3> QED
      BY <1>1, <1>2, <1>4, <1>8, <3>1 DEF Before
  <2>3. CASE p[1] + 1 < Buses
    <3>1. NextPlace(p) = <<p[1] + 1, 0, 0>>
      BY <2>1, <2>3
    <3>2. NextPlace(p) \in Places /\ NextPlace(p) # <<>> /\ NextPlace(p)[3] = 0
      BY <1>1, <2>3, <3>1, MachineAssumption, TuplesArePlaces
    <3>3. ASSUME NEW q \in Reachable
          PROVE  Before(q, <<p[1] + 1, 0, 0>>) <=> q[1] < p[1] + 1
      BY <1>1, <1>4 DEF Before
    <3> QED
      BY <3>1, <3>2, <3>3, <2>2 DEF Scanned
  <2>4. CASE p[1] + 1 >= Buses
    <3>1. NextPlace(p) = <<>>
      BY <1>1, <1>2, <2>1, <2>4
    <3>2. \A q \in Reachable : q[1] < p[1] + 1
      BY <1>1, <1>2, <1>4, <2>4
    <3> QED
      BY <3>1, <3>2, <2>2 DEF Scanned
  <2> QED
    BY <1>1, <1>2, <2>3, <2>4
<1>9. p[3] + 1 < n \/ (p[3] + 1 >= n /\ (p[2] + 1 < Devices \/ p[2] + 1 >= Devices))
  BY <1>1, <1>2, <1>3
<1> QED
  BY <1>6, <1>7, <1>8, <1>9

(* Ports are counted from the first register; the last port is taken.      *)
LEMMA LastPort ==
  ASSUME machine \in Machines, NEW p \in DOMAIN machine, Ports(p) # {}
  PROVE  PortBases(machine[p].ports) \subseteq Ports(p)
<1> DEFINE ports == machine[p].ports
           Behind == {Len(ports) - i : i \in PortRegisters(ports)}
<1>1. ports \in Seq(Nat) /\ Len(ports) \in Nat /\ DOMAIN ports = 1 .. Len(ports)
  BY MachineAssumption
<1>2. PortRegisters(ports) # {} /\ PortRegisters(ports) \subseteq 1 .. Len(ports)
  BY <1>1 DEF PortRegisters, Ports, Range
<1>3. PICK m \in Behind : \A b \in Behind : <<b, m>> \notin OpToRel(<, Nat)
  <2>1. Behind \subseteq Nat /\ Behind # {}
    BY <1>1, <1>2
  <2> QED
    BY <2>1, NatLessThanWellFounded, WFMin
<1>4. PICK last \in PortRegisters(ports) : m = Len(ports) - last
  BY <1>3
<1>5. ASSUME NEW j \in PortRegisters(ports)
      PROVE  j <= last
  <2>1. Len(ports) - j \in Behind /\ Behind \subseteq Nat
    BY <1>1, <1>2
  <2>2. ~ (Len(ports) - j < m)
    BY <2>1, <1>3 DEF OpToRel
  <2> QED
    BY <1>1, <1>2, <1>4, <2>2
<1> HIDE DEF ports
<1>6. ASSUME NEW i \in PortRegisters(ports)
      PROVE  ports[i] \in Ports(p)
  BY DEF PortRegisters, Ports, Range, ports
<1> QED
  BY <1>2, <1>5, <1>6 DEF PortBases, ports

-----------------------------------------------------------------------------
(* The cards the scan has passed have their drivers.                       *)
Passed == {q \in Reachable : place = <<>> \/ Before(q, place)}

Placed == {drivers[i].at : i \in DOMAIN drivers}

OneEach ==
  \A i \in DOMAIN drivers :
    LET p == drivers[i].at
    IN  /\ \A j \in 1 .. i - 1 : Before(drivers[j].at, p)
        /\ Ports(p) # {} => drivers[i].port \in Ports(p)

ScanInv ==
  /\ machine \in Machines /\ drivers \in Seq(Drivers)
  /\ Scanned(place)
  /\ refused \subseteq Passed /\ Placed = Passed \ refused
  /\ OneEach

LEMMA ScanGoesOn ==
  ASSUME ScanInv, place # <<>>, NEW found, Look(found)
  PROVE  /\ Scanned(place') /\ Reachable' = Reachable
         /\ Passed' = Passed \cup ({place} \cap Reachable)
         /\ place \notin Passed
         /\ Card <=> place \in Reachable
<1>1. place \in Places /\ place' = NextPlace(place) /\ machine' = machine
  BY DEF ScanInv, Scanned, Look
<1>2. Reachable' = Reachable
  BY <1>1 DEF Reachable
<1>3. Scanned(place')
  BY <1>1, NextPlaceIsNext DEF ScanInv, Scanned, Several
<1>4. Passed' = Passed \cup ({place} \cap Reachable)
  <2>1. \A q \in Reachable : place' = <<>> \/ Before(q, place') <=> q = place \/ Before(q, place)
    BY <1>1, NextPlaceIsNext DEF ScanInv
  <2>2. Passed' = {q \in Reachable : place' = <<>> \/ Before(q, place')}
    BY <1>2 DEF Passed, Before
  <2> QED
    BY <2>1, <2>2 DEF Passed
<1>5. ~Before(place, place)
  BY <1>1, PlacesAreTuples DEF Before
<1>6. Card <=> place \in Reachable
  BY <1>1 DEF Card, Reachable, ScanInv, Scanned, Several
<1> QED
  BY <1>2, <1>3, <1>4, <1>5, <1>6 DEF Passed

LEMMA SameDrivers ==
  ASSUME ScanInv, UNCHANGED <<machine, drivers>>
  PROVE  machine' \in Machines /\ drivers' \in Seq(Drivers') /\ Placed' = Placed /\ OneEach'
<1>1. OneEach'
  <2>1. OneEach
    BY DEF ScanInv
  <2> QED
    BY <2>1 DEF OneEach, Before, Ports
<1>2. drivers' \in Seq(Drivers') /\ Placed' = Placed
  BY DEF ScanInv, Drivers, Placed
<1> QED
  BY <1>1, <1>2 DEF ScanInv

LEMMA SkipKeepsScan ==
  ASSUME ScanInv, place # <<>>, Skip
  PROVE  ScanInv'
<1>1. Look(Nothing \/ Other) /\ UNCHANGED <<machine, drivers, refused>> /\ ~Card
  BY DEF Skip, Look, NoDriver, Nothing, Other, Card
<1>2. Scanned(place') /\ Passed' = Passed
  BY <1>1, ScanGoesOn
<1>3. Scanned(place)'
  BY <1>1, <1>2 DEF Scanned, Several
<1> QED
  BY <1>1, <1>2, <1>3, SameDrivers DEF ScanInv

LEMMA LoseCardKeepsScan ==
  ASSUME ScanInv, place # <<>>, LoseCard
  PROVE  ScanInv'
<1>1. Look(Card) /\ UNCHANGED <<machine, drivers>> /\ refused' = refused \cup {place} /\ Card
  BY DEF LoseCard, Look, NoMemory
<1>2. Scanned(place') /\ Passed' = Passed \cup {place} /\ place \notin Passed
  BY <1>1, ScanGoesOn
<1>3. drivers' \in Seq(Drivers') /\ Placed' = Placed /\ OneEach'
  BY <1>1, SameDrivers
<1>4. Scanned(place)' /\ machine' \in Machines
  BY <1>1, <1>2 DEF ScanInv, Scanned, Several
<1>5. refused' \subseteq Passed' /\ Placed' = Passed' \ refused'
  BY <1>1, <1>2, <1>3 DEF ScanInv
<1> QED
  BY <1>3, <1>4, <1>5 DEF ScanInv

LEMMA AddCardKeepsScan ==
  ASSUME ScanInv, place # <<>>, AddCard
  PROVE  ScanInv'
<1> DEFINE driver == [at |-> place, port |-> portBase', line |-> machine[place].line]
           n == Len(drivers)
<1>1. /\ Look(Card) /\ UNCHANGED <<machine, refused>> /\ Card
      /\ drivers' = Append(drivers, driver)
  BY DEF AddCard, Look, NewDriver
<1>2. Scanned(place') /\ Passed' = Passed \cup {place} /\ place \notin Passed
  BY <1>1, ScanGoesOn
<1>3. /\ n \in Nat /\ DOMAIN drivers = 1 .. n /\ DOMAIN drivers' = 1 .. n + 1
      /\ \A i \in 1 .. n : drivers'[i] = drivers[i]
      /\ drivers'[n + 1] = driver
      /\ drivers' \in Seq(Drivers \cup {driver})
  <2>1. drivers \in Seq(Drivers) /\ drivers \in Seq(Drivers \cup {driver})
    BY DEF ScanInv
  <2> HIDE DEF driver
  <2> QED
    BY <1>1, <2>1
<1>4. driver.at = place /\ driver.port = portBase'
  OBVIOUS
<1> HIDE DEF driver, n
<1>5. drivers' \in Seq(Drivers')
  <2>1. Drivers' = Drivers \cup {driver}
    BY <1>3 DEF Drivers
  <2> QED
    BY <1>3, <2>1
<1>6. Placed' = Placed \cup {place}
  BY <1>3, <1>4 DEF Placed
<1>7. OneEach'
  <2>1. Ports(place) # {} => driver.port \in Ports(place)
    BY <1>1, <1>4, LastPort DEF ScanInv, Look, Card
  <2>2. \A i \in 1 .. n : Before(drivers[i].at, place)
    BY <1>3 DEF ScanInv, Placed, Passed
  <2> SUFFICES ASSUME NEW i \in 1 .. n + 1
               PROVE  /\ \A j \in 1 .. i - 1 : Before(drivers'[j].at, drivers'[i].at)
                      /\ Ports(drivers'[i].at) # {} => drivers'[i].port \in Ports(drivers'[i].at)
    BY <1>1, <1>3 DEF OneEach, Before, Ports
  <2>3. CASE i = n + 1
    BY <1>3, <1>4, <2>1, <2>2, <2>3
  <2>4. CASE i \in 1 .. n
    <3>1. drivers'[i] = drivers[i] /\ \A j \in 1 .. i - 1 : drivers'[j] = drivers[j]
      BY <1>3, <2>4
    <3> QED
      BY <1>3, <2>4, <3>1 DEF ScanInv, OneEach
  <2> QED
    BY <1>3, <2>3, <2>4
<1>8. Scanned(place)' /\ machine' \in Machines
  BY <1>1, <1>2 DEF ScanInv, Scanned, Several
<1>9. refused' \subseteq Passed' /\ Placed' = Passed' \ refused'
  BY <1>1, <1>2, <1>6 DEF ScanInv
<1> QED
  BY ONLY <1>5, <1>7, <1>8, <1>9, Zenon DEF ScanInv

LEMMA ScanStays ==
  ASSUME ScanInv, [KernelNext]_kernelVars
  PROVE  ScanInv'
<1>1. CASE UNCHANGED pciVars
  <2>1. UNCHANGED <<machine, place, drivers, refused>>
    BY <1>1 DEF pciVars
  <2>2. Scanned(place)'
    BY <2>1 DEF ScanInv, Scanned, Several
  <2>3. Passed' = Passed
    BY <2>1 DEF Passed, Reachable, Before
  <2> QED
    BY <2>1, <2>2, <2>3, SameDrivers DEF ScanInv
<1>2. CASE place # <<>> /\ (Skip \/ LoseCard \/ AddCard)
  BY <1>2, SkipKeepsScan, LoseCardKeepsScan, AddCardKeepsScan
<1>3. CASE Boot
  BY <1>1, <1>2, <1>3 DEF Boot, ConstructManager, ConstructSyscalls, ConstructKeyboard,
     ConstructMouse, SelectDrivers, ActivateAll, Activate
<1>4. CASE Tick \/ (\E device \in Started : Raise(device)) \/ Processor
  BY <1>1, <1>4 DEF Tick, Raise, Processor, Handle
<1>5. CASE (Spurious \/ Trap) /\ UNCHANGED <<pciVars, stage, waiting>>
  BY <1>1, <1>5
<1>6. CASE UNCHANGED kernelVars
  BY <1>1, <1>6 DEF kernelVars
<1> QED
  BY <1>3, <1>4, <1>5, <1>6 DEF KernelNext

(* Whatever is on the bus: one driver for each card the scan can get to    *)
(* and has memory for, in the order of the bus, and with a port of its own *)
(* card (pci.cpp SelectDrivers and GetDriver).                             *)
THEOREM DriversAlwaysFit == KernelSpec => []DriversFitTheirCards
<1>1. KernelInit => ScanInv
  <2> SUFFICES ASSUME KernelInit
               PROVE  ScanInv
    OBVIOUS
  <2>1. /\ machine \in Machines /\ place = <<0, 0, 0>> /\ place # <<>>
        /\ drivers = <<>> /\ refused = {}
    BY DEF KernelInit, PciInit
  <2>2. place \in Places /\ place[3] = 0
    BY <2>1, TuplesArePlaces, MachineAssumption
  <2>3. \A q \in Reachable : ~Before(q, place)
    BY <2>1, PlacesAreTuples, MachineAssumption DEF Before, Reachable
  <2>4. drivers \in Seq(Drivers) /\ Placed = {} /\ OneEach
    BY <2>1 DEF Placed, OneEach
  <2> QED
    BY <2>1, <2>2, <2>3, <2>4 DEF ScanInv, Scanned, Passed
<1>2. ScanInv => DriversFitTheirCards
  BY DEF ScanInv, DriversFitTheirCards, OneEach, Placed, Passed
<1> QED
  BY <1>1, <1>2, ScanStays, PTL DEF KernelSpec
=============================================================================
