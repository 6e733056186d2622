------------------------------ MODULE KernelMain ------------------------------
(***************************************************************************)
(* The part of kernelMain (src/src/kernel.cpp) that brings the hardware    *)
(* up: the interrupt manager, the system calls, the drivers of keyboard    *)
(* and mouse, those the PCI controller finds, their activation, and then   *)
(* interrupts.  Devices do not wait for it.  A device that has something   *)
(* for its driver requests an interrupt once and no other until the driver *)
(* has taken it: an interrupt that reaches nobody silences it for good.    *)
(***************************************************************************)
EXTENDS InterruptManager, PciController

VARIABLES
  stage,      \* how far kernelMain is
  waiting     \* devices that have something for their driver

kernelVars == <<interruptVars, pciVars, stage, waiting>>

(* Who handles interrupts: the devices, a card by its place on the bus,    *)
(* and the system calls.                                                   *)
Keyboard == <<1>>
Mouse    == <<12>>
Syscalls == <<>>

Timer == 0

KernelInit ==
  /\ InterruptInit /\ PciInit
  /\ stage = "interrupts" /\ waiting = {}

-----------------------------------------------------------------------------
Stage(from, to) == stage = from /\ stage' = to

ConstructManager ==
  /\ Stage("interrupts", "syscalls")
  /\ StartControllers
  /\ UNCHANGED <<pciVars, waiting>>

ConstructSyscalls ==
  /\ Stage("syscalls", "keyboard")
  /\ Register(SyscallVector + hardwareInterruptOffset, Syscalls)
  /\ UNCHANGED <<pciVars, waiting>>

ConstructKeyboard ==
  /\ Stage("keyboard", "mouse")
  /\ Register(33, Keyboard)
  /\ UNCHANGED <<pciVars, waiting>>

ConstructMouse ==
  /\ Stage("mouse", "scan")
  /\ Register(44, Mouse)
  /\ UNCHANGED <<pciVars, waiting>>

(* SelectDrivers; the constructor of a card's driver installs its handler. *)
SelectDrivers ==
  /\ \/ /\ place # <<>> /\ UNCHANGED stage
        /\ \/ Skip /\ UNCHANGED interruptVars
           \/ LoseCard /\ UNCHANGED interruptVars
           \/ AddCard /\ Register(machine[place].line + hardwareInterruptOffset, place)
        /\ stage = "scan"
     \/ place = <<>> /\ Stage("scan", "drivers") /\ UNCHANGED <<interruptVars, pciVars>>
  /\ UNCHANGED waiting

(* ActivateAll; the keyboard's driver first reads what is there.           *)
NotDrained == waiting                            \* mutant: no while loop
Drained == waiting \ {Keyboard}

ActivateAll ==
  /\ Stage("drivers", "activate")
  /\ waiting' = Drained
  /\ UNCHANGED <<interruptVars, pciVars>>

Activate ==
  /\ Stage("activate", "run")
  /\ ActivateInterrupts
  /\ UNCHANGED <<pciVars, waiting>>

Boot ==
  \/ ConstructManager \/ ConstructSyscalls \/ ConstructKeyboard \/ ConstructMouse
  \/ SelectDrivers \/ ActivateAll \/ Activate

-----------------------------------------------------------------------------
(* The devices that have a driver; a card with a driver that talks to      *)
(* other ports than its own is never started.                              *)
Drivers == {drivers[i] : i \in DOMAIN drivers}

Line(device) ==
  IF device \in {Keyboard, Mouse} THEN device[1] ELSE machine[device].line

Owners(line) ==
  {d \in {Keyboard, Mouse} : d[1] = line} \cup {d.at : d \in {e \in Drivers : e.line = line}}

Started ==
  {Keyboard} \cup
  (IF stage \in {"activate", "run"}
   THEN {Mouse} \cup {d.at : d \in {e \in Drivers : e.port \in Ports(e.at)}} ELSE {})

Raise(device) ==
  /\ device \notin waiting /\ Line(device) \in Lines
  /\ Request(Line(device))
  /\ waiting' = waiting \cup {device}
  /\ UNCHANGED <<handlers, enabled, inService, cpu, pciVars, stage>>

Tick ==
  /\ Request(Timer)
  /\ UNCHANGED <<handlers, enabled, inService, cpu, pciVars, stage, waiting>>

(* The handler takes what its device has.                                  *)
Handle ==
  /\ CallHandler
  /\ waiting' = waiting \ {handlers[v] : v \in {cpu.number} \cap DOMAIN handlers}
  /\ UNCHANGED <<pciVars, stage>>

Processor ==
  \/ Handle
  \/ /\ AcknowledgeMaster \/ AcknowledgeSlave \/ Leave \/ \E line \in Lines : Accept(line)
     /\ UNCHANGED <<pciVars, stage, waiting>>

KernelNext ==
  \/ Boot
  \/ Tick \/ \E device \in Started : Raise(device)
  \/ Processor
  \/ Spurious /\ UNCHANGED <<pciVars, stage, waiting>>
  \/ Trap /\ UNCHANGED <<pciVars, stage, waiting>>

KernelSpec == KernelInit /\ [][KernelNext]_kernelVars /\ WF_kernelVars(Processor)

-----------------------------------------------------------------------------
(* Properties                                                              *)

(* An interrupt of a line that drivers own reaches one of them, the only   *)
(* one if there is one: every handler is there before the first interrupt, *)
(* and none is replaced by one of another line.  Of two cards that share a *)
(* line the last is told.                                                  *)
DriversAreHeard ==
  cpu.step = "dispatch" =>
    \A line \in Lines :
      cpu.number = hardwareInterruptOffset + line /\ Owners(line) # {}
      => cpu.number \in DOMAIN handlers /\ handlers[cpu.number] \in Owners(line)

(* A device that has something for its driver, since boot or later, gets   *)
(* rid of it once the more urgent lines are quiet, unless a program has    *)
(* run into an exception that loses its way.                               *)
Sole(device) == \E d \in Started : d = device /\ Owners(Line(d)) = {d}

Undisturbed(device) ==
  device \in Started => requested \cap MoreUrgent(Line(device)) = {}

DevicesAreServed ==
  \A device \in {Keyboard, Mouse} \cup UNION {DOMAIN m : m \in Machines} :
    <>[]Undisturbed(device) =>
      (stage = "run" /\ device \in waiting /\ Sole(device)
         ~> device \notin waiting \/ cpu.step = "lost")
=============================================================================
